----------------------------- MODULE MCStartup -----------------------------
(* Runtime-directory contents at boot for checking Startup with TLC. *)
EXTENDS Startup

\* An empty runtime directory (a fresh tmpfs, or systemd's RuntimeDirectory).
Fresh == [idSock |-> "none", fsSock |-> "none", pub |-> "none"]
\* After a clean stop: Server.Stop removed the sockets, identity.pub stays.
CleanStop == [idSock |-> "none", fsSock |-> "none", pub |-> "old"]
\* After a crash (kill -9, power loss without tmpfs): everything stays.
Crash == [idSock |-> "stale", fsSock |-> "stale", pub |-> "old"]

\* A node killed while a restarted identity was inside WritePublicKey: the
\* sockets of the run before and a truncated key file.
CrashInWrite == [idSock |-> "stale", fsSock |-> "stale", pub |-> "empty"]

MCLeftoversNoStaleKey == {Fresh, CleanStop, CrashInWrite}
MCLeftoversCrash == {Crash}
=============================================================================
