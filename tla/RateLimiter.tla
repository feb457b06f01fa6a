---------------------------- MODULE RateLimiter ----------------------------
(***************************************************************************)
(* The rate-limit constraint of internal/policy/constraints.go:           *)
(* parseRate and enforceRateLimit over the process-wide globalLimiter.    *)
(*                                                                         *)
(* globalLimiter.mu covers the lookup and the whole bucket update, so a   *)
(* call is one atomic step; concurrent callers are interleaved calls.     *)
(* Time is a tick counter, TicksPerSec ticks to the second; a float token *)
(* count is an integer number of units, Den units to the token.  The      *)
(* rates used are chosen so that every refill is a whole number of units, *)
(* which makes the integer arithmetic exact.                              *)
(*                                                                         *)
(* A rate_limit string is abstracted to [num, unit]: num is the part      *)
(* before the suffix, either a decimal <<p, q>> meaning p/q or "junk"     *)
(* (what ParseFloat rejects); unit is its suffix.  NoLimit is "".         *)
(***************************************************************************)
EXTENDS Integers, Sequences, FiniteSetsExt

CONSTANTS
    CapIds,       \* capability ids calling through Authorize
    RateOf,       \* RateOf[k]: the rate_limit string in k's claims
    NoLimit,      \* the empty rate_limit string
    None,         \* no bucket in the map
    Den,          \* units per token
    TicksPerSec,  \* clock ticks per second
    MaxTime,      \* bound on the clock
    MaxCalls      \* bound on calls per capability

VARIABLES
    now,          \* time.Now(), in ticks
    buckets,      \* globalLimiter.buckets: k -> [tokens, rate, last] or None
    calls,        \* number of calls made under k (bounds the model)
    admittedAt    \* history: ticks at which calls under k were admitted

vars == <<now, buckets, calls, admittedAt>>

\* parseRate: the "rps" suffix, a number that parses, and n > 0.
ParseOK(s) == s.unit = "rps" /\ s.num # "junk" /\ s.num[1] > 0
\* The rate in units per second, as a float64 would hold it.
RateUnits(s) == (s.num[1] * Den) \div s.num[2]

ASSUME \A k \in CapIds :
         LET s == RateOf[k] IN
         s # NoLimit /\ ParseOK(s) =>
           /\ (s.num[1] * Den) % s.num[2] = 0
           /\ RateUnits(s) % TicksPerSec = 0

Limited(k) == RateOf[k] # NoLimit /\ ParseOK(RateOf[k])

\* A fresh bucket: tokens = rate, last = now.
NewBucket(r) == [tokens |-> r, rate |-> r, last |-> now]

\* Mutant: the refill without the cap at the burst size.
RefillUncapped(b) ==
    [b EXCEPT !.tokens = b.tokens + ((now - b.last) * b.rate) \div TicksPerSec,
              !.last = now]

\* Refill: tokens += elapsed * rate, capped at rate; last = now.
Refill(b) ==
    LET t == b.tokens + ((now - b.last) * b.rate) \div TicksPerSec
    IN  [b EXCEPT !.tokens = IF t > b.rate THEN b.rate ELSE t, !.last = now]

\* Mutant: the comparison tokens <= 1 instead of tokens < 1.
ExhaustedAtOne(tokens) == tokens <= Den

\* b.tokens < 1: the bucket cannot pay for this call.
Exhausted(tokens) == tokens < Den

\* The bucket a call under k would see after lookup, creation and refill.
Refilled(k) ==
    Refill(IF buckets[k] = None THEN NewBucket(RateUnits(RateOf[k])) ELSE buckets[k])

\* enforceRateLimit(k, RateOf[k]) for a limited capability.
EnforceRateLimit(k) ==
    /\ Limited(k)
    /\ calls[k] < MaxCalls
    /\ calls' = [calls EXCEPT ![k] = @ + 1]
    /\ LET b == Refilled(k) IN
       IF Exhausted(b.tokens)
         THEN /\ buckets' = [buckets EXCEPT ![k] = b]
              /\ UNCHANGED admittedAt
         ELSE /\ buckets' = [buckets EXCEPT ![k] = [b EXCEPT !.tokens = @ - Den]]
              /\ admittedAt' = [admittedAt EXCEPT ![k] = Append(@, now)]
    /\ UNCHANGED now

\* An empty or unparseable rate_limit returns nil before taking the lock.
EnforceNoLimit(k) ==
    /\ ~Limited(k)
    /\ calls[k] < MaxCalls
    /\ calls' = [calls EXCEPT ![k] = @ + 1]
    /\ admittedAt' = [admittedAt EXCEPT ![k] = Append(@, now)]
    /\ UNCHANGED <<now, buckets>>

Tick ==
    /\ now < MaxTime
    /\ now' = now + 1
    /\ UNCHANGED <<buckets, calls, admittedAt>>

Init ==
    /\ now = 0
    /\ buckets = [k \in CapIds |-> None]
    /\ calls = [k \in CapIds |-> 0]
    /\ admittedAt = [k \in CapIds |-> << >>]

Next ==
    \/ \E k \in CapIds : EnforceRateLimit(k) \/ EnforceNoLimit(k)
    \/ Tick

Spec == Init /\ [][Next]_vars

-----------------------------------------------------------------------------
\* The largest burst of any limited capability, in units.
MaxUnits == Max({RateUnits(RateOf[k]) : k \in {j \in CapIds : Limited(j)}} \cup {0})

TypeOK ==
    /\ now \in 0..MaxTime
    /\ buckets \in [CapIds -> [tokens: 0..MaxUnits, rate: 1..MaxUnits, last: 0..MaxTime]
                                \cup {None}]
    /\ calls \in [CapIds -> 0..MaxCalls]
    /\ admittedAt \in [CapIds -> Seq(0..MaxTime)]

(* The token-bucket guarantee of spec 4.4 and 8.8: in every window of     *)
(* time, a rate-limited capability is admitted at most rate * (length of  *)
(* the window) + rate times (the burst), whatever way its calls and the   *)
(* calls of other capabilities interleave with the clock.                 *)
WindowBound ==
    \A k \in CapIds : Limited(k) =>
        LET s == admittedAt[k] IN
        \A i, j \in 1..Len(s) : i <= j =>
            (j - i + 1) * Den * TicksPerSec
                <= RateUnits(RateOf[k]) * (TicksPerSec + s[j] - s[i])

(* Spec 8.8: once a capability's bucket has gone unused for 1/N seconds   *)
(* (N its rate), its next call is admitted.                               *)
WaitThenAdmitted ==
    \A k \in CapIds :
        /\ Limited(k)
        /\ buckets[k] # None
        /\ (now - buckets[k].last) * RateUnits(RateOf[k]) >= Den * TicksPerSec
        => ~Exhausted(Refilled(k).tokens)

=============================================================================
