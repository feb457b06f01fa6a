------------------------------ MODULE IpcConn ------------------------------
(***************************************************************************)
(* One IPC connection (internal/ipc): a client that writes a request frame *)
(* and reads the answer before it sends the next (SendRequest, and the     *)
(* sequential use of a long-lived connection the spec allows), and the     *)
(* server's handleConn goroutine serving the connection.                   *)
(*                                                                         *)
(* A frame is [len, msg]: the uint32 big-endian header and the JSON        *)
(* payload it announces.  Sizes are in units of a scaled byte count:       *)
(* MaxFrame is maxFrameSize (1 MiB).  A request is abstracted to what      *)
(* handleConn tells apart: whether its JSON decodes, its version, whether  *)
(* a handler is registered for its method, its size, and the size of the  *)
(* answer the handler produces.  The socket is reliable and ordered.       *)
(***************************************************************************)
EXTENDS Naturals, Sequences

CONSTANTS
    Requests,   \* [json, v, known, size, respSize] records a client may send
    MaxFrame,   \* maxFrameSize
    MaxReqs,    \* requests the client sends on the connection (model bound)
    Pipeline    \* requests it may have outstanding; 1 is SendRequest

VARIABLES
    c2s,        \* request frames written by the client, not yet read
    s2c,        \* response frames written by the server, not yet read
    srv,        \* "serving", or "closed" once handleConn has returned
    cli,        \* "open", "closed" (conn.Close) or "failed" (a read error)
    sent,       \* the requests the client has written, in order
    got         \* the responses the client has decoded, in order

vars == <<c2s, s2c, srv, cli, sent, got>>

\* Error responses are a few dozen bytes, far below any frame limit.
ErrSize == 1

Kinds == {"invalid", "handler"}

\* WriteFrame: json.Marshal, then the header and the payload; the length
\* is not checked against maxFrameSize.
WriteFrame(q, len, msg) == Append(q, [len |-> len, msg |-> msg])

\* Mutant: the limit tested with >=, rejecting a frame of exactly 1 MiB.
FrameTooLargeAtLimit(f) == f.len >= MaxFrame

\* ReadFrame: a header announcing more than maxFrameSize is an error.
FrameTooLarge(f) == f.len > MaxFrame

\* Mutant: the error answered with an empty ReqID (decoded as no id).
ErrorResponseNoId(id) == [id |-> 0, kind |-> "invalid"]

\* ErrorResponse / SuccessResponse: V 1 and the request's ReqID.
ErrorResponse(id) == [id |-> id, kind |-> "invalid"]
HandlerResponse(id) == [id |-> id, kind |-> "handler"]

\* A request handleConn answers with ErrInvalidRequest.
Invalid(r) == r.v # 1 \/ ~r.known

\* What a client may send that ReadRequest itself fails on.
Malformed(r) == r.size > MaxFrame \/ ~r.json

Outstanding == Len(sent) - Len(got)

Init ==
    /\ c2s = << >> /\ s2c = << >>
    /\ srv = "serving" /\ cli = "open"
    /\ sent = << >> /\ got = << >>

\* WriteFrame(conn, req): the request goes out with ReqID its position.
ClientSend(r) ==
    /\ cli = "open"
    /\ Len(sent) < MaxReqs
    /\ Outstanding < Pipeline
    /\ c2s' = WriteFrame(c2s, r.size, [id |-> Len(sent) + 1, req |-> r])
    /\ sent' = Append(sent, r)
    /\ UNCHANGED <<s2c, srv, cli, got>>

\* ReadFrame(conn) and json.Unmarshal of the response.  A frame over the
\* limit, or the end of the stream, is an error; the deferred Close ends
\* the connection.
ClientRecv ==
    /\ cli = "open"
    /\ Outstanding > 0
    /\ \/ /\ s2c # << >>
          /\ s2c' = Tail(s2c)
          /\ IF FrameTooLarge(Head(s2c))
               THEN cli' = "failed" /\ UNCHANGED got
               ELSE got' = Append(got, Head(s2c).msg) /\ UNCHANGED cli
       \/ /\ s2c = << >> /\ srv = "closed"
          /\ cli' = "failed"
          /\ UNCHANGED <<s2c, got>>
    /\ UNCHANGED <<c2s, srv, sent>>

\* The client has every answer and closes the connection.
ClientClose ==
    /\ cli = "open"
    /\ Outstanding = 0
    /\ cli' = "closed"
    /\ UNCHANGED <<c2s, s2c, srv, sent, got>>

\* Mutant: a bad version or method is skipped with continue, unanswered.
ServeRequestSilentInvalid ==
    /\ srv = "serving"
    /\ c2s # << >>
    /\ LET f == Head(c2s)
           r == f.msg.req
       IN  /\ c2s' = Tail(c2s)
           /\ CASE FrameTooLarge(f) \/ ~r.json -> srv' = "closed" /\ UNCHANGED s2c
                [] Invalid(r) -> UNCHANGED <<s2c, srv>>
                [] OTHER -> s2c' = WriteFrame(s2c, r.respSize, HandlerResponse(f.msg.id))
                            /\ UNCHANGED srv
    /\ UNCHANGED <<cli, sent, got>>

\* One turn of handleConn's loop.
ServeRequest ==
    /\ srv = "serving"
    /\ c2s # << >>
    /\ LET f == Head(c2s)
           r == f.msg.req
           id == f.msg.id
       IN  /\ c2s' = Tail(c2s)
           /\ CASE FrameTooLarge(f) \/ ~r.json ->
                     srv' = "closed" /\ UNCHANGED s2c
                [] Invalid(r) ->
                     s2c' = WriteFrame(s2c, ErrSize, ErrorResponse(id)) /\ UNCHANGED srv
                [] OTHER ->
                     s2c' = WriteFrame(s2c, r.respSize, HandlerResponse(id)) /\ UNCHANGED srv
    /\ UNCHANGED <<cli, sent, got>>

\* ReadRequest meets the end of the stream: handleConn returns.
ServeEOF ==
    /\ srv = "serving"
    /\ c2s = << >>
    /\ cli # "open"
    /\ srv' = "closed"
    /\ UNCHANGED <<c2s, s2c, cli, sent, got>>

Next ==
    \/ \E r \in Requests : ClientSend(r)
    \/ ClientRecv
    \/ ClientClose
    \/ ServeRequest
    \/ ServeEOF

\* The handleConn goroutine and a client blocked in ReadFrame are scheduled.
Fairness == WF_vars(ServeRequest) /\ WF_vars(ServeEOF) /\ WF_vars(ClientRecv)

Spec == Init /\ [][Next]_vars /\ Fairness

-----------------------------------------------------------------------------
TypeOK ==
    /\ c2s \in Seq([len: Nat, msg: [id: 1..MaxReqs, req: Requests]])
    /\ s2c \in Seq([len: Nat, msg: [id: 1..MaxReqs, kind: Kinds]])
    /\ srv \in {"serving", "closed"}
    /\ cli \in {"open", "closed", "failed"}
    /\ sent \in Seq(Requests)
    /\ got \in Seq([id: 1..MaxReqs, kind: Kinds])

(* Spec 6, wire framing: a client that sends only what the framing      *)
(* accepts (decodable JSON within 1 MiB) never sees a read fail: every    *)
(* request, whatever its version or method, and whatever the handler     *)
(* returns, is answered with a frame the client can read.                *)
WellFormedAnswered ==
    cli = "failed" => \E i \in 1..Len(sent) : Malformed(sent[i])

\* The connection seen from its client, as the request-response channel
\* of the spec: the same requests sent, answers received and client state.
Rpc == INSTANCE IpcRpc WITH sent <- sent, got <- got, cli <- cli

(* Spec 6 and 7: the framed connection and its handleConn goroutine      *)
(* implement the in-order request-response channel.  A client pairing    *)
(* answers with requests by position (the only way SendRequest can) gets *)
(* the i-th answer for the i-th request, ErrInvalidRequest exactly for a  *)
(* bad version or method, nothing twice and nothing skipped; its reads    *)
(* fail only at a request ReadRequest cannot decode, after every answer   *)
(* before it; and a client blocked in ReadFrame eventually has its answer *)
(* or that failure, because handleConn never reads a request without      *)
(* answering it or closing the connection.                                *)
ConnRefinesRpc == Rpc!Spec

=============================================================================
