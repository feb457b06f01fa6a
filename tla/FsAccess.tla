------------------------------ MODULE FsAccess ------------------------------
(***************************************************************************)
(* What the fs service promises, with every access decided atomically:    *)
(* an access to the file system begins in one step that checks, against   *)
(* the state of that instant, that the token grants the operation on the   *)
(* path (spec section 8) and that its capability is not in the revoked     *)
(* replica.  Once begun, an access may be overtaken by a revocation: the   *)
(* spec places the revocation point of an in-flight call at its check.    *)
(* A successful open ends by entering a fresh handle bound to the          *)
(* capability.  The replica and the handles live in memory and are lost   *)
(* when fs stops.                                                          *)
(***************************************************************************)
EXTENDS Sequences, SequencesExt

CONSTANTS Clients, CapIds, Tokens, Paths, HandleIds, Cwd, NoToken, NoClaims, None

VARIABLES
    active,     \* active[c]: the access client c has begun, or None
    handles,    \* handle id -> [cap, path] or None
    fsRevoked,  \* the revoked replica of fs
    fsUp        \* fs is running

P == INSTANCE Policy

Access == [op: {"open", "read", "list"}, tok: Tokens, path: Paths]

(* Spec section 8: a well-signed, unexpired fs token whose rights or       *)
(* actions cover the operation and whose path_prefix contains the path as  *)
(* a subtree, with no ".." in the path.                                    *)
Grants(t, op, path) ==
    /\ t # NoToken
    /\ t.sig = "ok" /\ ~t.expired
    /\ t.service = "fs"
    /\ <<"fs", op>> \in t.rights \/ op \in t.actions
    /\ \/ t.prefix = P!EmptyPath
       \/ /\ ~P!ContainsDotDot(path)
          /\ IsPrefix(P!Abs(t.prefix), P!Abs(path))

Begin(c, a) ==
    /\ fsUp
    /\ active[c] = None
    /\ Grants(a.tok, a.op, a.path)
    /\ a.tok.id \notin fsRevoked
    /\ active' = [active EXCEPT ![c] = a]
    /\ UNCHANGED <<handles, fsRevoked, fsUp>>

\* A read or a list returns, or an open fails.
Complete(c) ==
    /\ active[c] # None
    /\ active' = [active EXCEPT ![c] = None]
    /\ UNCHANGED <<handles, fsRevoked, fsUp>>

OpenDone(c, h) ==
    /\ active[c] # None /\ active[c].op = "open"
    /\ handles[h] = None
    /\ handles' = [handles EXCEPT ![h] = [cap |-> active[c].tok.id, path |-> active[c].path]]
    /\ active' = [active EXCEPT ![c] = None]
    /\ UNCHANGED <<fsRevoked, fsUp>>

Revoke(k) ==
    /\ fsUp
    /\ fsRevoked' = fsRevoked \cup {k}
    /\ UNCHANGED <<active, handles, fsUp>>

CloseAll ==
    /\ fsUp
    /\ handles' = [h \in HandleIds |-> None]
    /\ UNCHANGED <<active, fsRevoked, fsUp>>

\* fs stops, by a crash or at the end of its shutdown: every access in
\* flight is cut off and the in-memory state is gone.
Stop ==
    /\ fsUp
    /\ fsUp' = FALSE
    /\ active' = [c \in Clients |-> None]
    /\ handles' = [h \in HandleIds |-> None]
    /\ fsRevoked' = {}

Start ==
    /\ ~fsUp
    /\ fsUp' = TRUE
    /\ UNCHANGED <<active, handles, fsRevoked>>

Init ==
    /\ active = [c \in Clients |-> None]
    /\ handles = [h \in HandleIds |-> None]
    /\ fsRevoked = {}
    /\ fsUp = TRUE

Next ==
    \/ \E c \in Clients :
          \/ \E a \in Access : Begin(c, a)
          \/ Complete(c)
          \/ \E h \in HandleIds : OpenDone(c, h)
    \/ \E k \in CapIds : Revoke(k)
    \/ CloseAll \/ Stop \/ Start

Spec == Init /\ [][Next]_<<active, handles, fsRevoked, fsUp>>

=============================================================================
