----------------------------- MODULE MCIpcConn -----------------------------
(* Requests a client may send on one connection, for checking IpcConn.  *)
EXTENDS IpcConn

\* 1 MiB, scaled: a frame of 2 units is at the limit, 3 is over it.
MCMaxFrame == 2

\* Decodable requests at the size limit, of either version and to a
\* registered or unknown method, whose handler answers at the limit.
MCWellFormed ==
    [json: {TRUE}, v: {1, 2}, known: BOOLEAN, size: {MCMaxFrame}, respSize: {MCMaxFrame}]

\* A payload that is not JSON, and a frame over the limit.
MCMalformed ==
    { [json |-> FALSE, v |-> 1, known |-> TRUE, size |-> 1, respSize |-> 1],
      [json |-> TRUE, v |-> 1, known |-> TRUE, size |-> MCMaxFrame + 1, respSize |-> 1] }

MCRequests == MCWellFormed \cup MCMalformed

\* An fs.read of a large count or an fs.list of a large directory: the
\* handler's result marshals to more than 1 MiB.
MCLargeAnswer ==
    { [json |-> TRUE, v |-> 1, known |-> TRUE, size |-> 1, respSize |-> MCMaxFrame + 1] }

MCRequestsLarge == MCRequests \cup MCLargeAnswer
=============================================================================
