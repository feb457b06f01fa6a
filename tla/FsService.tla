------------------------------ MODULE FsService ------------------------------
(***************************************************************************)
(* The fs resource service (cmd/fs/main.go) together with the revocation  *)
(* fan-out of the identity service (cmd/identity/main.go, the newer copy   *)
(* in src/unnamed/part_007).                                               *)
(*                                                                         *)
(* Each client is one connection served by its own handleConn goroutine;  *)
(* a connection runs one request at a time.  A handler is split into one  *)
(* step per critical section or I/O call, because those are the points at *)
(* which another goroutine can run: the rate-limiter/Authorize section,    *)
(* Get (read lock), IsRevoked (read lock), the file system call, and the  *)
(* insert into the handle table (write lock).  Code between two such      *)
(* points touches only goroutine-local data and is folded into them.      *)
(*                                                                         *)
(* identity.revoke updates the authoritative RevocationList and then sends *)
(* fs.revoke synchronously; when fs is down the dial fails, the failure is *)
(* logged and the caller is still told "revoked".                         *)
(*                                                                         *)
(* fs crashes when a read's size makes make([]byte, int(size)) panic (the  *)
(* goroutine has no recover, so the process dies).  Nothing of fs is      *)
(* persisted; a restart (by an operator: the supervisor does not restart  *)
(* children) starts with an empty handle table and an empty revoked set.  *)
(***************************************************************************)
EXTENDS Naturals, FiniteSets, Sequences, SequencesExt

CONSTANTS
    Clients,      \* concurrent connections
    CapIds,       \* capability ids (jti)
    Tokens,       \* token records [id, sig, expired, service, actions, rights, prefix]
    Paths,        \* values a client may send as params.path
    Cwd,          \* working directory of the fs process
    NoToken,      \* request without auth.token
    NoClaims,     \* the nil claims pointer
    None,         \* absent handle-table entry
    MaxHandles,   \* bound on the handle counter nextID
    MaxRestarts   \* bound on fs restarts

ASSUME MaxHandles \in Nat /\ MaxRestarts \in Nat
\* A capability id is minted once, so all well-signed tokens with one id
\* carry the same claims; they may differ only in having expired since.
ASSUME \A t1, t2 \in Tokens :
         t1.sig = "ok" /\ t2.sig = "ok" /\ t1.id = t2.id =>
           [t1 EXCEPT !.expired = FALSE] = [t2 EXCEPT !.expired = FALSE]

P == INSTANCE Policy

VARIABLES
    pc,         \* pc[c]: the step the request on connection c is at
    req,        \* req[c]: the request being served on connection c
    handles,    \* handleTable.handles: id -> [cap, path] or None
    nextID,     \* handleTable.nextID
    fsRevoked,  \* handleTable.revoked, the fs replica
    idRevoked,  \* RevocationList.revoked of the identity service
    fsUp,       \* the fs process is running
    closing,    \* fs has taken SIGTERM and run handles.CloseAll
    restarts,   \* number of fs restarts so far (the fs incarnation)
    told        \* history: <<k, r>> once identity.revoke(k) has answered its
                \* caller while fs incarnation r was the latest

vars == <<pc, req, handles, nextID, fsRevoked, idRevoked, fsUp, closing, restarts, told>>

HandleIds == 1..MaxHandles
TokenChoice == Tokens \cup {NoToken}
OpenPcs == {"open", "open_rev", "open_io", "open_ins"}
ReadPcs == {"read", "read_rev", "read_io"}
ListPcs == {"list", "list_rev", "list_io"}
FsPcs == OpenPcs \cup ReadPcs \cup ListPcs \cup {"fsrevoke"}
IOPcs == {"open_io", "read_io", "list_io"}
Pcs == {"idle", "revoke", "id_notify"} \cup FsPcs

Request == [op: {"open", "read", "list", "fsrevoke", "revoke"},
            tok: TokenChoice, path: Paths \cup {P!EmptyPath}, handle: 0..MaxHandles,
            huge: BOOLEAN, cap: CapIds]

NewReq(op, t, p, h, hg, k) ==
    [op |-> op, tok |-> t, path |-> p, handle |-> h, huge |-> hg, cap |-> k]

-----------------------------------------------------------------------------
(* extractClaims: no token gives nil claims (Authorize then answers       *)
(* UNAUTHENTICATED); a bad signature or an expired token is an error.     *)
ClaimsOf(t) == IF t = NoToken THEN NoClaims ELSE t
ExtractFails(t) == t # NoToken /\ (t.sig = "bad" \/ t.expired)

\* Mutant: the "missing path param" check left out.
PathOpAdmitsNoParam(r) ==
    /\ ~ExtractFails(r.tok)
    /\ P!Authorize(ClaimsOf(r.tok), <<"fs", r.op>>, r.path) = "OK"

\* fs.open and fs.list up to the revocation check: claims, path param,
\* Authorize with the path as context.
PathOpAdmits(r) ==
    /\ ~ExtractFails(r.tok)
    /\ r.path # P!EmptyPath
    /\ P!Authorize(ClaimsOf(r.tok), <<"fs", r.op>>, r.path) = "OK"

\* handleTable.Get: the entry a handle id names, None if there is none.
Get(h) == handles[h]

\* handleTable.IsRevoked and handleTable.Revoke on the fs replica.
IsRevoked(k) == k \in fsRevoked
Revoke(k) == fsRevoked \cup {k}

\* fs.read up to the revocation check: claims, Authorize without context,
\* handle param, Get, and the binding of the entry to claims.ID.
ReadAdmits(r) ==
    /\ ~ExtractFails(r.tok)
    /\ P!Authorize(ClaimsOf(r.tok), <<"fs", "read">>, P!EmptyPath) = "OK"
    /\ r.handle # 0
    /\ Get(r.handle) # None
    /\ Get(r.handle).cap = r.tok.id

Goto(c, to) == pc' = [pc EXCEPT ![c] = to]

\* The handler returns its response; the connection holds no request.
NoReq == NewReq("revoke", NoToken, P!EmptyPath, 0, FALSE, CHOOSE k \in CapIds : TRUE)
Finish(c) == Goto(c, "idle") /\ req' = [req EXCEPT ![c] = NoReq]

\* auth.RevocationList of the identity service: NewRevocationList and
\* Revoke (under its mutex; the set is only ever added to).
NewRevocationList == {}
RevocationRevoke(list, k) == list \cup {k}

-----------------------------------------------------------------------------
Init ==
    /\ pc = [c \in Clients |-> "idle"]
    /\ req = [c \in Clients |-> NoReq]
    /\ handles = [h \in HandleIds |-> None]
    /\ nextID = 0
    /\ fsRevoked = {}
    /\ idRevoked = NewRevocationList
    /\ fsUp = TRUE
    /\ closing = FALSE
    /\ restarts = 0
    /\ told = {}

\* A client sends a request.  Requests to fs need fs to be listening (the
\* dial fails otherwise, changing nothing).  Opens are bounded so that the
\* counter stays within MaxHandles.
Submit(c) ==
    /\ pc[c] = "idle"
    /\ \/ /\ fsUp
          /\ \E t \in TokenChoice, p \in Paths \cup {P!EmptyPath} :
               \/ /\ nextID + Cardinality({d \in Clients : pc[d] \in OpenPcs}) < MaxHandles
                  /\ req' = [req EXCEPT ![c] = NewReq("open", t, p, 0, FALSE, req[c].cap)]
                  /\ Goto(c, "open")
               \/ /\ req' = [req EXCEPT ![c] = NewReq("list", t, p, 0, FALSE, req[c].cap)]
                  /\ Goto(c, "list")
       \/ /\ fsUp
          /\ \E t \in TokenChoice, h \in 0..MaxHandles, hg \in BOOLEAN :
               /\ req' = [req EXCEPT ![c] = NewReq("read", t, P!EmptyPath, h, hg, req[c].cap)]
               /\ Goto(c, "read")
       \/ \E k \in CapIds, op \in {"revoke", "fsrevoke"} :
               /\ op = "fsrevoke" => fsUp
               /\ req' = [req EXCEPT ![c] = NewReq(op, NoToken, P!EmptyPath, 0, FALSE, k)]
               /\ Goto(c, op)
    /\ UNCHANGED <<handles, nextID, fsRevoked, idRevoked, fsUp, closing, restarts, told>>

\* First section of fs.open / fs.list: extractClaims, params, Authorize.
PathOpAuth(c) ==
    /\ pc[c] \in {"open", "list"}
    /\ IF PathOpAdmits(req[c])
         THEN Goto(c, IF pc[c] = "open" THEN "open_rev" ELSE "list_rev") /\ UNCHANGED req
         ELSE Finish(c)
    /\ UNCHANGED <<handles, nextID, fsRevoked, idRevoked, fsUp, closing, restarts, told>>

\* handles.IsRevoked(claims.ID) in fs.open and fs.list.
PathOpRevCheck(c) ==
    /\ pc[c] \in {"open_rev", "list_rev"}
    /\ IF IsRevoked(req[c].tok.id)
         THEN Finish(c)
         ELSE Goto(c, IF pc[c] = "open_rev" THEN "open_io" ELSE "list_io") /\ UNCHANGED req
    /\ UNCHANGED <<handles, nextID, fsRevoked, idRevoked, fsUp, closing, restarts, told>>

\* handles.Open: os.Open outside the lock; on success take the next id
\* from the atomic counter.  A failed open answers NotFound or Internal.
OpenIO(c) ==
    /\ pc[c] = "open_io"
    /\ \/ /\ nextID' = nextID + 1
          /\ req' = [req EXCEPT ![c].handle = nextID + 1]
          /\ Goto(c, "open_ins")
       \/ Finish(c) /\ UNCHANGED nextID
    /\ UNCHANGED <<handles, fsRevoked, idRevoked, fsUp, closing, restarts, told>>

\* The write-locked insert of the handle entry bound to claims.ID.
OpenInsert(c) ==
    /\ pc[c] = "open_ins"
    /\ handles' = [handles EXCEPT ![req[c].handle] =
                     [cap |-> req[c].tok.id, path |-> req[c].path]]
    /\ Finish(c)
    /\ UNCHANGED <<nextID, fsRevoked, idRevoked, fsUp, closing, restarts, told>>

\* os.ReadDir of fs.list; success or error, the answer ends the request.
ListIO(c) ==
    /\ pc[c] = "list_io"
    /\ Finish(c)
    /\ UNCHANGED <<handles, nextID, fsRevoked, idRevoked, fsUp, closing, restarts, told>>

\* First sections of fs.read: extractClaims, Authorize, handle param, Get,
\* the binding check.  The handler keeps the entry it got: its capID (in
\* req.cap) and its path.
ReadAuth(c) ==
    /\ pc[c] = "read"
    /\ IF ReadAdmits(req[c])
         THEN /\ Goto(c, "read_rev")
              /\ req' = [req EXCEPT ![c].cap = Get(req[c].handle).cap,
                                    ![c].path = Get(req[c].handle).path]
         ELSE Finish(c)
    /\ UNCHANGED <<handles, nextID, fsRevoked, idRevoked, fsUp, closing, restarts, told>>

\* Mutant: fs.read without its revocation check.
ReadRevCheckSkipped(c) ==
    /\ pc[c] = "read_rev"
    /\ Goto(c, "read_io") /\ UNCHANGED req
    /\ UNCHANGED <<handles, nextID, fsRevoked, idRevoked, fsUp, closing, restarts, told>>

\* handles.IsRevoked(entry.capID) in fs.read.
ReadRevCheck(c) ==
    /\ pc[c] = "read_rev"
    /\ IF IsRevoked(req[c].cap)
         THEN Finish(c)
         ELSE Goto(c, "read_io") /\ UNCHANGED req
    /\ UNCHANGED <<handles, nextID, fsRevoked, idRevoked, fsUp, closing, restarts, told>>

\* entry.file.ReadAt with a buffer of a sane size.
ReadIO(c) ==
    /\ pc[c] = "read_io"
    /\ ~req[c].huge
    /\ Finish(c)
    /\ UNCHANGED <<handles, nextID, fsRevoked, idRevoked, fsUp, closing, restarts, told>>

\* The fs process ends: every connection it serves is dropped, with the
\* handler running on it; identity's pending fs.revoke notification fails
\* and identity answers "revoked" anyway.  Nothing of fs survives.
FsExit ==
    LET Dropped == {d \in Clients : pc[d] \in FsPcs \cup {"id_notify"}}
    IN
    /\ fsUp' = FALSE
    /\ closing' = FALSE
    /\ handles' = [h \in HandleIds |-> None]
    /\ nextID' = 0
    /\ fsRevoked' = {}
    /\ pc' = [d \in Clients |-> IF d \in Dropped THEN "idle" ELSE pc[d]]
    /\ req' = [d \in Clients |-> IF d \in Dropped THEN NoReq ELSE req[d]]
    /\ told' = told \cup {<<req[d].cap, restarts>> : d \in {e \in Dropped : pc[e] = "id_notify"}}
    /\ UNCHANGED <<idRevoked, restarts>>

\* make([]byte, int(size)) panics for a size out of range; the goroutine
\* has no recover, so the process dies.
ReadPanic(c) ==
    /\ pc[c] = "read_io"
    /\ req[c].huge
    /\ FsExit

\* SIGTERM reaches fs main: handles.CloseAll closes and forgets every entry.
\* The listener is still open and handlers keep running.
FsCloseAll ==
    /\ fsUp /\ ~closing
    /\ handles' = [h \in HandleIds |-> None]
    /\ closing' = TRUE
    /\ UNCHANGED <<pc, req, nextID, fsRevoked, idRevoked, fsUp, restarts, told>>

\* srv.Stop closes the listener and main returns: the process exits.
FsStop ==
    /\ closing
    /\ FsExit

\* The fs.revoke handler: handles.Revoke(capID).
FsRevoke(c) ==
    /\ pc[c] = "fsrevoke"
    /\ fsRevoked' = Revoke(req[c].cap)
    /\ Finish(c)
    /\ UNCHANGED <<handles, nextID, idRevoked, fsUp, closing, restarts, told>>

\* Mutant: the notification sent from a new goroutine (go SendRequest),
\* the caller answered before fs has applied it.
IdRevokeAsync(c) ==
    /\ pc[c] = "revoke"
    /\ idRevoked' = RevocationRevoke(idRevoked, req[c].cap)
    /\ told' = told \cup {<<req[c].cap, restarts>>}
    /\ IF fsUp
         THEN Goto(c, "fsrevoke") /\ UNCHANGED req
         ELSE Finish(c)
    /\ UNCHANGED <<handles, nextID, fsRevoked, fsUp, closing, restarts>>

\* Mutant: the notification retried until fs is reachable again.
IdRevokeRetry(c) ==
    /\ pc[c] = "revoke"
    /\ fsUp
    /\ idRevoked' = RevocationRevoke(idRevoked, req[c].cap)
    /\ Goto(c, "id_notify")
    /\ UNCHANGED <<req, handles, nextID, fsRevoked, fsUp, closing, restarts, told>>

\* identity.revoke: revocations.Revoke, then ipc.SendRequest(fs.revoke).
\* With fs down the dial fails and the handler answers at once.
IdRevoke(c) ==
    /\ pc[c] = "revoke"
    /\ idRevoked' = RevocationRevoke(idRevoked, req[c].cap)
    /\ IF fsUp
         THEN Goto(c, "id_notify") /\ UNCHANGED <<req, told>>
         ELSE Finish(c) /\ told' = told \cup {<<req[c].cap, restarts>>}
    /\ UNCHANGED <<handles, nextID, fsRevoked, fsUp, closing, restarts>>

\* fs serves the notification (handles.Revoke) and identity, having read
\* the reply, answers its caller.
IdNotifyDelivered(c) ==
    /\ pc[c] = "id_notify"
    /\ fsUp
    /\ fsRevoked' = Revoke(req[c].cap)
    /\ told' = told \cup {<<req[c].cap, restarts>>}
    /\ Finish(c)
    /\ UNCHANGED <<handles, nextID, idRevoked, fsUp, closing, restarts>>

\* fs is started again; it reloads the key and starts with empty tables.
FsRestart ==
    /\ ~fsUp
    /\ restarts < MaxRestarts
    /\ fsUp' = TRUE
    /\ restarts' = restarts + 1
    /\ UNCHANGED <<pc, req, handles, nextID, fsRevoked, idRevoked, closing, told>>

HandlerStep(c) ==
    \/ PathOpAuth(c) \/ PathOpRevCheck(c) \/ OpenIO(c) \/ OpenInsert(c)
    \/ ListIO(c) \/ ReadAuth(c) \/ ReadRevCheck(c) \/ ReadIO(c) \/ ReadPanic(c)
    \/ FsRevoke(c) \/ IdRevoke(c) \/ IdNotifyDelivered(c)

Next ==
    \/ \E c \in Clients : Submit(c) \/ HandlerStep(c)
    \/ FsCloseAll \/ FsStop \/ FsRestart

\* Goroutines of a live process are scheduled fairly, fs main among them
\* once it has its signal; clients, the signal and the operator restarting
\* fs are not obliged to act.
Fairness == (\A c \in Clients : WF_vars(HandlerStep(c))) /\ WF_vars(FsStop)

Spec == Init /\ [][Next]_vars /\ Fairness

-----------------------------------------------------------------------------
TypeOK ==
    /\ pc \in [Clients -> Pcs]
    /\ req \in [Clients -> Request]
    /\ handles \in [HandleIds -> [cap: CapIds, path: Paths] \cup {None}]
    /\ nextID \in 0..MaxHandles
    /\ fsRevoked \subseteq CapIds
    /\ idRevoked \subseteq CapIds
    /\ fsUp \in BOOLEAN
    /\ closing \in BOOLEAN
    /\ restarts \in 0..MaxRestarts
    /\ told \subseteq CapIds \X (0..MaxRestarts)


-----------------------------------------------------------------------------
\* The access a client has begun, for the abstract specification: from its
\* revocation check until its file system call returns (for an open,
\* until the handle is entered).
ActiveAccess(c) ==
    IF pc[c] \in IOPcs \cup {"open_ins"}
      THEN [op |-> req[c].op, tok |-> req[c].tok, path |-> req[c].path]
      ELSE None

Abs == INSTANCE FsAccess WITH active <- [c \in Clients |-> ActiveAccess(c)]

(* The fs handlers implement the atomic access specification FsAccess:    *)
(* taking the IsRevoked check as the point where an access begins, every  *)
(* access begins only for a token that the spec grants that operation on  *)
(* that path (for fs.read, the path of the entry the handle names) and    *)
(* whose capability the replica does not hold as revoked; a handle is     *)
(* only entered by a successful open, under a fresh id; CloseAll and the  *)
(* end of the process are the only other changes of the table.           *)
AccessRefinesAtomic == Abs!Spec

(* Deny by default across the whole pipeline: a goroutine is about to     *)
(* touch the file system (os.Open, ReadAt, ReadDir) only for a token that *)
(* the spec grants that operation on that path; for fs.read the path is   *)
(* that of the entry another request opened the handle with.              *)
AccessAuthorized ==
    \A c \in Clients : pc[c] \in IOPcs => Abs!Grants(req[c].tok, req[c].op, req[c].path)

\* The revocation checks that let a request go on to the file system.
RevCheckPcs == {"open_rev", "list_rev", "read_rev"}

(* Spec 4.7 and 8.7 within the limits 4.7 admits: once identity.revoke(k) *)
(* has answered "revoked", no fs.open, fs.read or fs.list with k passes   *)
(* its IsRevoked check again in the fs incarnation that was running (or   *)
(* had last run) when the answer was given.  The notification is          *)
(* synchronous but fire-and-forget and the replica is not persisted, so   *)
(* only a restart of fs (crash or stop) may honour k again; an answer     *)
(* given while fs is down, or when fs dies under the notification, must   *)
(* not be followed by an access in that same incarnation either.          *)
RevocationHoldsUntilRestart ==
    [][\A c \in Clients :
         pc[c] \in RevCheckPcs /\ pc'[c] \in IOPcs =>
             <<req[c].tok.id, restarts>> \notin told]_vars

(* Spec 8.7, "no race makes a successful call land after the revocation   *)
(* point": no file system call is made for a capability that the fs       *)
(* replica already holds as revoked.                                      *)
RevokedNeverAccessed ==
    \A c \in Clients : pc[c] \in IOPcs => req[c].tok.id \notin fsRevoked

(* Every request that a handler goroutine has taken up is answered:      *)
(* identity's synchronous notification never leaves its caller hanging,  *)
(* even when fs dies under it.                                            *)
RequestsComplete ==
    \A c \in Clients : pc[c] # "idle" ~> pc[c] = "idle"

(* Spec 5, cancellation: on shutdown "in-flight handlers finish against   *)
(* already-accepted connections".  fs main calls CloseAll and srv.Stop    *)
(* and returns: the process never ends while a handler is in flight.      *)
ShutdownDrainsHandlers ==
    [][closing /\ ~fsUp' => \A c \in Clients : pc[c] \notin FsPcs]_vars

=============================================================================
