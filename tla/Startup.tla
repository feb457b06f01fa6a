------------------------------ MODULE Startup ------------------------------
(***************************************************************************)
(* Process lifecycle of a Strata node: the supervisor (cmd/supervisor)     *)
(* starts identity, waits for identity.sock, starts fs, waits for fs.sock, *)
(* opens its control socket, and on SIGINT/SIGTERM stops fs and then       *)
(* identity.  identity (src/unnamed/part_007) writes identity.pub and then *)
(* listens; fs (cmd/fs) polls identity.pub, loads it once and listens.     *)
(*                                                                         *)
(* The runtime directory may hold files left by an earlier run: after a   *)
(* clean stop only identity.pub (Server.Stop removes the sockets), after   *)
(* a crash also the sockets.  Keys are "old" (an earlier run's) and "new"  *)
(* (the key the running identity generated).                               *)
(*                                                                         *)
(* A process that receives SIGTERM before its signal.Notify call is       *)
(* terminated by the Go runtime at once, without running its Stop.        *)
(***************************************************************************)
EXTENDS Naturals

CONSTANTS
    Leftovers,   \* possible contents of the runtime directory at boot
    NoKey,       \* fs has not loaded a key
    MaxTries     \* attempts of fs's key polling loop (50 in the code)

ASSUME MaxTries \in Nat \ {0}

VARIABLES
    supPc,     \* supervisor main
    idPc,      \* identity main
    fsPc,      \* fs main
    idSock,    \* identity.sock: "none", "stale" or "live"
    fsSock,    \* fs.sock
    pub,       \* identity.pub: "none", "empty" (truncated), "old", "new"
    fsKey,     \* the public key fs loaded
    fsTries,   \* failed attempts of fs's polling loop
    sigId,     \* a SIGTERM has been sent to identity
    sigFs      \* a SIGTERM has been sent to fs

vars == <<supPc, idPc, fsPc, idSock, fsSock, pub, fsKey, fsTries, sigId, sigFs>>

Keys == {"old", "new"}
\* Child states in which the process no longer runs.
Down == {"notstarted", "exited", "fatal"}

TypeOK ==
    /\ supPc \in {"start", "wait_id", "start_fs", "wait_fs", "ctl", "running",
                  "stop_ctl", "stop_fs", "stop_id", "exited", "fatal"}
    /\ idPc \in Down \cup {"start", "write", "listen", "notify", "serving"}
    /\ fsPc \in Down \cup {"start", "listen", "notify", "serving"}
    /\ idSock \in {"none", "stale", "live"} /\ fsSock \in {"none", "stale", "live"}
    /\ pub \in {"none", "empty"} \cup Keys
    /\ fsKey \in Keys \cup {NoKey}
    /\ fsTries \in 0..MaxTries
    /\ sigId \in BOOLEAN /\ sigFs \in BOOLEAN

Init ==
    /\ \E l \in Leftovers : idSock = l.idSock /\ fsSock = l.fsSock /\ pub = l.pub
    /\ supPc = "start"
    /\ idPc = "notstarted" /\ fsPc = "notstarted"
    /\ fsKey = NoKey /\ fsTries = 0
    /\ sigId = FALSE /\ sigFs = FALSE

-----------------------------------------------------------------------------
(* Supervisor.                                                             *)
SupGoto(to) == supPc' = to

\* MkdirAll, findServiceBinary and startService for identity; each failure
\* is log.Fatalf.
SupStartIdentity ==
    /\ supPc = "start"
    /\ \/ SupGoto("wait_id") /\ idPc' = "start"
       \/ SupGoto("fatal") /\ UNCHANGED idPc
    /\ UNCHANGED <<fsPc, idSock, fsSock, pub, fsKey, fsTries, sigId, sigFs>>

\* Mutant: fs started without waiting for identity.sock.
SupWaitIdentitySkipped ==
    /\ supPc = "wait_id"
    /\ SupGoto("start_fs")
    /\ UNCHANGED <<idPc, fsPc, idSock, fsSock, pub, fsKey, fsTries, sigId, sigFs>>

\* waitForFile: os.Stat succeeds for any file at the path, live or stale.
SupWaitIdentity ==
    /\ supPc = "wait_id"
    /\ idSock # "none"
    /\ SupGoto("start_fs")
    /\ UNCHANGED <<idPc, fsPc, idSock, fsSock, pub, fsKey, fsTries, sigId, sigFs>>

SupStartFs ==
    /\ supPc = "start_fs"
    /\ \/ SupGoto("wait_fs") /\ fsPc' = "start"
       \/ SupGoto("fatal") /\ UNCHANGED fsPc
    /\ UNCHANGED <<idPc, idSock, fsSock, pub, fsKey, fsTries, sigId, sigFs>>

SupWaitFs ==
    /\ supPc = "wait_fs"
    /\ fsSock # "none"
    /\ SupGoto("ctl")
    /\ UNCHANGED <<idPc, fsPc, idSock, fsSock, pub, fsKey, fsTries, sigId, sigFs>>

\* The 5 s deadline of waitForFile passes with no file: log.Fatalf, which
\* exits the supervisor and leaves started children running.
SupWaitTimeout ==
    /\ \/ supPc = "wait_id" /\ idSock = "none"
       \/ supPc = "wait_fs" /\ fsSock = "none"
    /\ SupGoto("fatal")
    /\ UNCHANGED <<idPc, fsPc, idSock, fsSock, pub, fsKey, fsTries, sigId, sigFs>>

\* ctlSrv.Start, then <-sig.
SupCtlStart ==
    /\ supPc = "ctl"
    /\ SupGoto("running")
    /\ UNCHANGED <<idPc, fsPc, idSock, fsSock, pub, fsKey, fsTries, sigId, sigFs>>

\* SIGINT/SIGTERM reaches the supervisor; ctlSrv.Stop.
SupSignal ==
    /\ supPc = "running"
    /\ SupGoto("stop_ctl")
    /\ UNCHANGED <<idPc, fsPc, idSock, fsSock, pub, fsKey, fsTries, sigId, sigFs>>

\* Mutant: stopService that Waits without sending the signal.
SupStopFsNoSignal ==
    /\ supPc = "stop_ctl"
    /\ SupGoto("stop_fs")
    /\ UNCHANGED <<idPc, fsPc, idSock, fsSock, pub, fsKey, fsTries, sigId, sigFs>>

\* stopService(fsCmd): Signal(SIGTERM), then Wait for the exit.
SupStopFs ==
    /\ supPc = "stop_ctl"
    /\ sigFs' = TRUE
    /\ SupGoto("stop_fs")
    /\ UNCHANGED <<idPc, fsPc, idSock, fsSock, pub, fsKey, fsTries, sigId>>

SupStopIdentity ==
    /\ supPc = "stop_fs"
    /\ fsPc \in Down
    /\ sigId' = TRUE
    /\ SupGoto("stop_id")
    /\ UNCHANGED <<idPc, fsPc, idSock, fsSock, pub, fsKey, fsTries, sigFs>>

SupExit ==
    /\ supPc = "stop_id"
    /\ idPc \in Down
    /\ SupGoto("exited")
    /\ UNCHANGED <<idPc, fsPc, idSock, fsSock, pub, fsKey, fsTries, sigId, sigFs>>

-----------------------------------------------------------------------------
(* identity.                                                               *)

\* GenerateKeyPair, then WritePublicKey: os.WriteFile first truncates the
\* file (a reader sees it empty) ...
IdTruncatePub ==
    /\ idPc = "start" /\ ~sigId
    /\ pub' = "empty"
    /\ idPc' = "write"
    /\ UNCHANGED <<supPc, fsPc, idSock, fsSock, fsKey, fsTries, sigId, sigFs>>

\* ... and then writes the new key.
IdWritePub ==
    /\ idPc = "write" /\ ~sigId
    /\ pub' = "new"
    /\ idPc' = "listen"
    /\ UNCHANGED <<supPc, fsPc, idSock, fsSock, fsKey, fsTries, sigId, sigFs>>

\* srv.Start: remove whatever is at the socket path, then listen.
IdListen ==
    /\ idPc = "listen" /\ ~sigId
    /\ idSock' = "live"
    /\ idPc' = "notify"
    /\ UNCHANGED <<supPc, fsPc, fsSock, pub, fsKey, fsTries, sigId, sigFs>>

\* signal.Notify(sig, SIGINT, SIGTERM), then <-sig.
IdNotify ==
    /\ idPc = "notify" /\ ~sigId
    /\ idPc' = "serving"
    /\ UNCHANGED <<supPc, fsPc, idSock, fsSock, pub, fsKey, fsTries, sigId, sigFs>>

\* SIGTERM: once notified, srv.Stop removes the socket and main returns;
\* before signal.Notify the runtime kills the process where it stands.
IdTerm ==
    /\ sigId /\ idPc \notin Down
    /\ idSock' = IF idPc = "serving" THEN "none" ELSE idSock
    /\ idPc' = "exited"
    /\ UNCHANGED <<supPc, fsPc, fsSock, pub, fsKey, fsTries, sigId, sigFs>>

-----------------------------------------------------------------------------
(* fs.                                                                     *)

\* Mutant: the loop bound tested one attempt late.
FsLoadKeyLate ==
    /\ fsPc = "start" /\ ~sigFs
    /\ IF pub \in Keys
         THEN fsKey' = pub /\ fsPc' = "listen" /\ UNCHANGED fsTries
         ELSE /\ fsTries' = fsTries + 1
              /\ fsPc' = IF fsTries > MaxTries THEN "fatal" ELSE "start"
              /\ UNCHANGED fsKey
    /\ UNCHANGED <<supPc, idPc, idSock, fsSock, pub, sigId, sigFs>>

\* One attempt of the polling loop: LoadPublicKey succeeds on a file that
\* decodes to 32 bytes, an old key included; after MaxTries failures,
\* log.Fatalf.
FsLoadKey ==
    /\ fsPc = "start" /\ ~sigFs
    /\ IF pub \in Keys
         THEN fsKey' = pub /\ fsPc' = "listen" /\ UNCHANGED fsTries
         ELSE /\ fsTries' = fsTries + 1
              /\ fsPc' = IF fsTries + 1 = MaxTries THEN "fatal" ELSE "start"
              /\ UNCHANGED fsKey
    /\ UNCHANGED <<supPc, idPc, idSock, fsSock, pub, sigId, sigFs>>

\* newHandleTable, the handlers, srv.Start.
FsListen ==
    /\ fsPc = "listen" /\ ~sigFs
    /\ fsSock' = "live"
    /\ fsPc' = "notify"
    /\ UNCHANGED <<supPc, idPc, idSock, pub, fsKey, fsTries, sigId, sigFs>>

FsNotify ==
    /\ fsPc = "notify" /\ ~sigFs
    /\ fsPc' = "serving"
    /\ UNCHANGED <<supPc, idPc, idSock, fsSock, pub, fsKey, fsTries, sigId, sigFs>>

\* SIGTERM: handles.CloseAll and srv.Stop once notified; killed otherwise.
FsTerm ==
    /\ sigFs /\ fsPc \notin Down
    /\ fsSock' = IF fsPc = "serving" THEN "none" ELSE fsSock
    /\ fsPc' = "exited"
    /\ UNCHANGED <<supPc, idPc, idSock, pub, fsKey, fsTries, sigId, sigFs>>

-----------------------------------------------------------------------------
SupStep ==
    \/ SupStartIdentity \/ SupWaitIdentity \/ SupStartFs \/ SupWaitFs
    \/ SupCtlStart \/ SupStopFs \/ SupStopIdentity \/ SupExit
IdStep == IdTruncatePub \/ IdWritePub \/ IdListen \/ IdNotify \/ IdTerm
FsStep == FsLoadKey \/ FsListen \/ FsNotify \/ FsTerm

Next == SupStep \/ SupWaitTimeout \/ SupSignal \/ IdStep \/ FsStep

\* The three processes are scheduled by the OS; the signal from outside and
\* the expiry of a waitForFile deadline are not obliged to happen.
Fairness == WF_vars(SupStep) /\ WF_vars(IdStep) /\ WF_vars(FsStep)

Spec == Init /\ [][Next]_vars /\ Fairness

-----------------------------------------------------------------------------
(* Spec 6, verification-key distribution: the key a resource service      *)
(* loads at startup is the one the running issuer published.  Once fs is  *)
(* listening, the key it verifies tokens with is identity's new key, so   *)
(* tokens signed by an earlier identity are not accepted.                 *)
KeyAgreement ==
    fsPc \in {"notify", "serving"} => fsKey = "new"

(* Shutdown through the supervisor terminates the whole node: once the    *)
(* supervisor has taken its signal, it eventually exits after both        *)
(* children have exited (stopService sends SIGTERM and Waits).            *)
ShutdownCompletes ==
    supPc = "stop_ctl" ~> (supPc = "exited" /\ idPc \in Down /\ fsPc \in Down)

=============================================================================
