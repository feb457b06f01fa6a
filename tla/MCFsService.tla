---------------------------- MODULE MCFsService ----------------------------
(* Model values and data for checking FsService with TLC. *)
EXTENDS FsService, TLC

CONSTANTS a, b, c1, c2, c3

MCClients == {a, b}
MCCapIds == {c1, c2, c3}
MCCwd == <<"tmp">>

Tmp == [abs |-> TRUE, segs |-> <<"tmp">>]
NoPrefix == [abs |-> FALSE, segs |-> << >>]
AllRights == {<<"fs", "open">>, <<"fs", "read">>, <<"fs", "list">>}

\* c1: rights-style token confined to /tmp (scenario A of the spec).
T1 == [id |-> c1, sig |-> "ok", expired |-> FALSE, service |-> "fs",
       actions |-> {}, rights |-> AllRights, prefix |-> Tmp]
\* The same token after its expires_at.
T1Expired == [T1 EXCEPT !.expired = TRUE]
\* c2: legacy actions-only token without a prefix and without "list".
T2 == [id |-> c2, sig |-> "ok", expired |-> FALSE, service |-> "fs",
       actions |-> {"open", "read"}, rights |-> {}, prefix |-> NoPrefix]
\* A forgery claiming id c1 with no prefix: its signature does not verify.
TForged == [T1 EXCEPT !.sig = "bad", !.prefix = NoPrefix]
\* c3: a token scoped to another service carrying matching bare actions.
TOther == [id |-> c3, sig |-> "ok", expired |-> FALSE, service |-> "identity",
           actions |-> {"open", "read", "list"}, rights |-> {}, prefix |-> NoPrefix]
MCTokens == {T1, T2, TForged, TOther}

\* "/tmp/x", "/tmpevil", "/tmp/../tmpevil".
MCPaths == {[abs |-> TRUE, segs |-> <<"tmp", "x">>],
            [abs |-> TRUE, segs |-> <<"tmpevil">>],
            [abs |-> TRUE, segs |-> <<"tmp", "..", "tmpevil">>]}

\* A smaller instance for the liveness check: one honest token, one path.
MCTokensLive == {T1}
MCPathsLive == {[abs |-> TRUE, segs |-> <<"tmp", "x">>]}
\* Revoking an id no token carries behaves as revoking one that a token
\* carries, minus the effect on the token: the live instance has only the
\* ids of its tokens.
MCCapIdsLive == {c1, c3}
\* The instance for the refinement check: an honest confined token and a
\* token of another service carrying the bare actions.
MCTokensRefine == {T1, TOther}
=============================================================================
