------------------------------ MODULE IpcRpc ------------------------------
(***************************************************************************)
(* What one IPC connection promises its client (spec 6 and 7), with no    *)
(* frames, buffers or server loop: a request-response channel.  Requests  *)
(* are answered one at a time, in the order they were sent, each exactly  *)
(* once; a request of an unsupported protocol version or an unknown       *)
(* method is answered with an input-shape error, any other with its       *)
(* handler's result.  The connection fails only at a request the framing  *)
(* cannot carry (a payload that is not JSON, or one over 1 MiB), never    *)
(* at one it can, and a client waiting for an answer gets it or that      *)
(* failure.                                                                *)
(*                                                                         *)
(* A request is a record [json, v, known, size, respSize]; the answers    *)
(* the client has are [id, kind] records, id being the request's place.   *)
(***************************************************************************)
EXTENDS Naturals, Sequences

CONSTANTS
    Requests,   \* the requests a client may send
    MaxFrame,   \* maxFrameSize
    MaxReqs,    \* requests sent on the connection
    Pipeline    \* requests the client may have outstanding

VARIABLES
    sent,       \* the requests sent, in order
    got,        \* the answers received, in order
    cli         \* "open", "closed" by the client, or "failed"

vars == <<sent, got, cli>>

\* Spec 7, input shape errors: a version mismatch or an unknown method.
BadShape(r) == r.v # 1 \/ ~r.known

\* Spec 6, wire framing: what a frame cannot carry.
Unframed(r) == ~r.json \/ r.size > MaxFrame

\* The request whose answer the client waits for next.
Waiting == Len(got) + 1

\* The answer owed to the i-th request.
Answer(i) == [id |-> i, kind |-> IF BadShape(sent[i]) THEN "invalid" ELSE "handler"]

Init == sent = << >> /\ got = << >> /\ cli = "open"

Send(r) ==
    /\ cli = "open"
    /\ Len(sent) < MaxReqs
    /\ Len(sent) - Len(got) < Pipeline
    /\ sent' = Append(sent, r)
    /\ UNCHANGED <<got, cli>>

\* The next request in order is answered.
Reply ==
    /\ cli = "open"
    /\ Len(got) < Len(sent)
    /\ ~Unframed(sent[Waiting])
    /\ got' = Append(got, Answer(Waiting))
    /\ UNCHANGED <<sent, cli>>

\* The connection breaks at a request the framing cannot carry.
Fail ==
    /\ cli = "open"
    /\ Len(got) < Len(sent)
    /\ Unframed(sent[Waiting])
    /\ cli' = "failed"
    /\ UNCHANGED <<sent, got>>

Close ==
    /\ cli = "open"
    /\ Len(got) = Len(sent)
    /\ cli' = "closed"
    /\ UNCHANGED <<sent, got>>

Next == (\E r \in Requests : Send(r)) \/ Reply \/ Fail \/ Close

\* A waiting client is not left waiting.
Spec == Init /\ [][Next]_vars /\ WF_vars(Reply) /\ WF_vars(Fail)

=============================================================================
