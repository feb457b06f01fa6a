------------------------------ MODULE Paseto ------------------------------
(***************************************************************************)
(* One capability token from issue to use: identity.issue (the handler in *)
(* src/unnamed/part_007 and capability.NewCapability, part_006) builds    *)
(* the claims and signs them; the token may be changed in one character  *)
(* in transit or at rest; fs's extractClaims (cmd/fs/main.go) verifies it *)
(* and checks its expiry against the clock.                               *)
(*                                                                         *)
(* The codec of internal/auth (part_007) is modelled as it is: pae, Sign  *)
(* and Verify, with base64.RawURLEncoding at the bit level.  Sizes are    *)
(* scaled: a byte has ByteBits bits and a base64 character CharBits, in   *)
(* the ratio 8 : 6, so 3 bytes make 4 characters and a trailing group    *)
(* leaves spare bits just as in Go; a length field of pae is LenBytes     *)
(* bytes (8 in Go) and a signature SigSize bytes (64).  The header        *)
(* "v2.public." is one symbol in the token and HeaderBytes in pae.        *)
(* Ed25519 is ideal: a signature verifies for exactly the pae encoding    *)
(* that was signed.                                                        *)
(*                                                                         *)
(* Time is in ticks, SecondTicks to a second; time.Duration is a signed   *)
(* DurBits-bit count of ticks (64 bits of nanoseconds in Go).             *)
(* json.Marshal of the claims writes one byte per field (two for the      *)
(* expiry), and the rights field only when it is non-empty (omitempty),   *)
(* so the token's length, and whether its last base64 group is partial,   *)
(* depends on the claims as it does in Go.                                *)
(***************************************************************************)
EXTENDS Integers, Sequences, SequencesExt

CONSTANTS
    ByteBits, CharBits, LenBytes, SigSize,
    HeaderBytes,    \* []byte(v2PublicHeader)
    SigBytes,       \* the signature Sign produces for the message signed
    Hdr,            \* the header "v2.public." in a token
    Params,         \* identity.issue params [service, actions, rights, ttl]:
                    \* actions and rights are the raw JSON arrays, ttl the
                    \* ttl_seconds float in ticks (0 when absent)
    Words,          \* the strings of the model, in the order of their codes
    SecondTicks,    \* time.Second
    DurBits,        \* width of time.Duration
    DefaultTtl,     \* the default ttl_seconds, 3600, in seconds
    MaxTime,        \* bound on the clock
    NoParams, NoClaims

\* A raw array holds at most one string, besides any numbers.
ASSUME \A p \in Params :
         \A l \in {p.actions, p.rights} :
            Len(SelectSeq(l, LAMBDA x : x \in Range(Words))) <= 1

VARIABLES
    now,        \* the clock
    asked,      \* the params of identity.issue, NoParams before it
    issued,     \* the claims identity signed, NoClaims if it answered an error
    msg,        \* json.Marshal of the claims
    tok,        \* the token, possibly changed in one character
    tampered,   \* a character has been changed
    res         \* extractClaims: [err, claims], err "pending" before it ran

vars == <<now, asked, issued, msg, tok, tampered, res>>

Alphabet == 0..(2^CharBits - 1)
Errors == {"bad_header", "decode_error", "too_short", "bad_signature", "unmarshal"}

\* binary.LittleEndian.PutUint64(buf, uint64(n)), k bytes wide.
LE(n, k) == [i \in 1..k |-> (n \div 2^(ByteBits * (i - 1))) % 2^ByteBits]

\* The lengths and bytes of the pieces, in order.
RECURSIVE PaePieces(_)
PaePieces(ps) ==
    IF ps = << >> THEN << >>
    ELSE LE(Len(Head(ps)), LenBytes) \o Head(ps) \o PaePieces(Tail(ps))

\* pae: the count of pieces, then each piece's length and bytes.
Pae(ps) == LE(Len(ps), LenBytes) \o PaePieces(ps)

\* The message authenticated by Sign and Verify.
M2(m) == Pae(<<HeaderBytes, m, << >>>>)

\* Bits of a number, most significant first, and back.
BitsOf(v, w) == [i \in 1..w |-> (v \div 2^(w - i)) % 2]
ValueOf(bits) == FoldLeft(LAMBDA a, b : 2 * a + b, 0, bits)

\* base64.RawURLEncoding.EncodeToString: the bits in CharBits groups, the
\* last one padded with zero bits, no padding characters.
Encode(bytes) ==
    LET bits == FlattenSeq([j \in 1..Len(bytes) |-> BitsOf(bytes[j], ByteBits)])
        n == (Len(bits) + CharBits - 1) \div CharBits
        padded == bits \o [i \in 1..(n * CharBits - Len(bits)) |-> 0]
    IN  [k \in 1..n |-> ValueOf(SubSeq(padded, (k - 1) * CharBits + 1, k * CharBits))]

\* base64.RawURLEncoding.DecodeString: a character outside the alphabet,
\* or a final group of one character, is a CorruptInputError; otherwise
\* the whole bytes of the bits, the spare bits of the last group ignored.
Decode(cs) ==
    LET ok == (\A j \in 1..Len(cs) : cs[j] \in Alphabet) /\ Len(cs) % 4 # 1
        bits == FlattenSeq([j \in 1..Len(cs) |-> BitsOf(cs[j], CharBits)])
        n == (Len(cs) * CharBits) \div ByteBits
    IN  [ok |-> ok,
         bytes |-> IF ok THEN [k \in 1..n |-> ValueOf(SubSeq(bits, (k - 1) * ByteBits + 1, k * ByteBits))]
                         ELSE << >>]

\* Sign: message || signature over pae, base64 after the header.
Sign(m) == <<Hdr>> \o Encode(m \o SigBytes)

\* ed25519.Verify(key, m2, sig): true only for the signature of what the
\* key holder signed.
Ed25519Verify(m2, sig) == sig = SigBytes /\ m2 = M2(msg)

-----------------------------------------------------------------------------
(* The claims and their JSON encoding.                                     *)

\* The code of a string ("" is 0), and the string of a code.
Code(w) == SelectInSeq(Words, LAMBDA x : x = w)
WordOf(k) == IF k = 0 THEN "" ELSE Words[k]
ListByte(l) == IF l = << >> THEN 0 ELSE Code(l[1])
ListOf(k) == IF k = 0 THEN << >> ELSE <<Words[k]>>

\* Expiry times are written with this offset, in two bytes.
ExpBias == 2^(DurBits - 1)

\* json.Marshal(cap): iat, exp, service, actions, and rights if non-empty.
Marshal(c) ==
    <<c.iat>> \o LE(c.exp + ExpBias, 2) \o <<Code(c.service), ListByte(c.actions)>>
      \o (IF c.rights = << >> THEN << >> ELSE <<ListByte(c.rights)>>)

\* json.Unmarshal(message, &cap): an error for bytes no claims encode to.
Parses(b) ==
    /\ Len(b) \in {5, 6}
    /\ \A i \in 4..Len(b) : b[i] \in 0..Len(Words)
Unmarshal(b) ==
    [iat |-> b[1], exp |-> b[2] + 2^ByteBits * b[3] - ExpBias,
     service |-> WordOf(b[4]), actions |-> ListOf(b[5]),
     rights |-> IF Len(b) = 6 THEN ListOf(b[6]) ELSE << >>]

-----------------------------------------------------------------------------
(* Verify and extractClaims.                                               *)

\* Mutant: the header test reduced to a non-empty token.
HasHeaderNonEmpty(t) == t # << >>

\* strings.HasPrefix(token, v2PublicHeader).
HasHeader(t) == t # << >> /\ Head(t) = Hdr

\* Mutant: the message cut one byte short of the signature.
MessagePartShort(d) == SubSeq(d, 1, Len(d) - SigSize - 1)

\* decoded[:len(decoded)-ed25519.SignatureSize] and the rest.
MessagePart(d) == SubSeq(d, 1, Len(d) - SigSize)
SigPart(d) == SubSeq(d, Len(d) - SigSize + 1, Len(d))

Fail(e) == [err |-> e, claims |-> NoClaims]

\* Verify: the claims of the token, or the error it stops at.
Verify(t) ==
    IF ~HasHeader(t) THEN Fail("bad_header")
    ELSE LET dec == Decode(Tail(t))
             d == dec.bytes
         IN  CASE ~dec.ok                                         -> Fail("decode_error")
               [] Len(d) < SigSize                               -> Fail("too_short")
               [] ~Ed25519Verify(M2(MessagePart(d)), SigPart(d)) -> Fail("bad_signature")
               [] ~Parses(MessagePart(d))                        -> Fail("unmarshal")
               [] OTHER -> [err |-> "none", claims |-> Unmarshal(MessagePart(d))]

\* Capability.IsExpired: time.Now().After(c.ExpiresAt).
IsExpired(c, n) == n > c.exp

\* extractClaims for a request carrying a token: Verify, then the expiry.
ExtractClaims(t, n) ==
    LET v == Verify(t)
    IN  CASE v.err # "none"         -> v
          [] IsExpired(v.claims, n) -> Fail("expired")
          [] OTHER                  -> v

-----------------------------------------------------------------------------
(* identity.issue.                                                         *)

\* The strings of a raw JSON array: the a.(string) filter of the handler.
Strings(raw) == SelectSeq(raw, LAMBDA x : x \in Range(Words))

\* Mutant: the emptiness test made on the raw arrays, before filtering.
IssueInvalidUnfiltered(p) ==
    p.service = "" \/ (p.actions = << >> /\ p.rights = << >>)

\* The early returns: no service, or no action and no right.
IssueInvalid(p) ==
    p.service = "" \/ (Strings(p.actions) = << >> /\ Strings(p.rights) = << >>)

\* ttl_seconds, 3600 s when absent or not positive.
TtlTicks(p) == IF p.ttl <= 0 THEN DefaultTtl * SecondTicks ELSE p.ttl

\* Two's complement wrap-around of a time.Duration.
Wrap(x) == ((x + 2^(DurBits - 1)) % 2^DurBits) - 2^(DurBits - 1)

\* Mutant: the seconds rounded up instead of truncated.
LifetimesRounded(u) ==
    {Wrap(((u + SecondTicks - 1) \div SecondTicks) * SecondTicks)}

\* time.Duration(ttlSec) * time.Second: the conversion truncates to whole
\* seconds; a float beyond int64 converts to what the platform gives (the
\* least int64 on amd64, the greatest on arm64); the product wraps.
Lifetimes(u) ==
    LET s == u \div SecondTicks
        Lim == 2^(DurBits - 1)
    IN  IF s < Lim THEN {Wrap(s * SecondTicks)}
        ELSE {Wrap(-Lim * SecondTicks), Wrap((Lim - 1) * SecondTicks)}

\* capability.NewCapability(service, actions, ..., ttl), then
\* cap.Rights = rights.
NewCapability(p, life) ==
    [iat |-> now, exp |-> now + life, service |-> p.service,
     actions |-> Strings(p.actions), rights |-> Strings(p.rights)]

-----------------------------------------------------------------------------
Init ==
    /\ now = 0
    /\ asked = NoParams
    /\ issued = NoClaims
    /\ msg = << >> /\ tok = << >>
    /\ tampered = FALSE
    /\ res = Fail("pending")

\* identity.issue: an error answer, or the claims signed with auth.Sign.
Issue(p) ==
    /\ asked = NoParams
    /\ asked' = p
    /\ IF IssueInvalid(p)
         THEN UNCHANGED <<issued, msg, tok>>
         ELSE \E life \in Lifetimes(TtlTicks(p)) :
                /\ issued' = NewCapability(p, life)
                /\ msg' = Marshal(issued')
                /\ tok' = Sign(msg')
    /\ UNCHANGED <<now, tampered, res>>

\* Time passes until the token is used.
Tick ==
    /\ res.err = "pending"
    /\ now < MaxTime
    /\ now' = now + 1
    /\ UNCHANGED <<asked, issued, msg, tok, tampered, res>>

\* One character of the token in transit or at rest is changed.
Tamper(i, c) ==
    /\ issued # NoClaims
    /\ ~tampered /\ res.err = "pending"
    /\ c # tok[i]
    /\ tok' = [tok EXCEPT ![i] = c]
    /\ tampered' = TRUE
    /\ UNCHANGED <<now, asked, issued, msg, res>>

\* fs receives a request carrying the token.
VerifyToken ==
    /\ issued # NoClaims
    /\ res.err = "pending"
    /\ res' = ExtractClaims(tok, now)
    /\ UNCHANGED <<now, asked, issued, msg, tok, tampered>>

Next ==
    \/ \E p \in Params : Issue(p)
    \/ Tick
    \/ \E i \in 1..Len(tok), c \in Alphabet \cup {Hdr} : Tamper(i, c)
    \/ VerifyToken

Spec == Init /\ [][Next]_vars

-----------------------------------------------------------------------------
(* Spec 8.9, token round-trip, end to end: fs's extractClaims returns     *)
(* exactly the claims identity.issue signed, through json.Marshal, pae,   *)
(* base64, the split of the signature from the end and json.Unmarshal,    *)
(* and refuses an unchanged token only once it has expired.               *)
RoundTrip ==
    (res.err # "pending" /\ ~tampered) =>
        \/ res = [err |-> "none", claims |-> issued]
        \/ res.err = "expired" /\ now > issued.exp

(* Spec 8.9: changing any character of a token makes Verify fail.  A     *)
(* changed token is never accepted, not even as the same claims.          *)
TamperDetected ==
    (res.err # "pending" /\ tampered) => res.err # "none"

(* Spec 4.5: expires_at = now + ttl.  Whatever ttl_seconds the caller     *)
(* asked for (3600 when absent), fs never accepts the token later than    *)
(* that long after issue: the float-to-Duration conversion, its           *)
(* truncation and the overflow of the product may shorten a token's       *)
(* life, never lengthen it.                                                *)
NeverOutlivesTtl ==
    res.err = "none" => now <= issued.iat + TtlTicks(asked)

(* Invariants I1 and I3: every token fs accepts names a service and       *)
(* carries an action or a right, whatever non-string entries the caller   *)
(* put in the arrays identity.issue filters.                              *)
AcceptedClaimsWellFormed ==
    res.err = "none" =>
        /\ res.claims.service # ""
        /\ res.claims.actions # << >> \/ res.claims.rights # << >>

=============================================================================
