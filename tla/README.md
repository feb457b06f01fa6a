# TLA+ models of StrataOS

This directory holds TLA+ models of StrataOS's capability-based services, and the TLC configurations that check them. StrataOS has three kinds of parts:

- a supervisor;
- an identity service that issues and revokes PASETO capability tokens;
- resource services (today `fs`) that check tokens through `internal/policy`.

The models follow the Go source under `src/`. `PROJECT.json` lists the components, runs, mutants, source map, findings and hazards.

## The system and how its parts interact

| Part | Source | Role |
|------|--------|------|
| supervisor | `cmd/supervisor/main.go` | Starts identity, waits for `identity.sock`, then starts fs. It never restarts a child. |
| identity | `src/unnamed/part_007` (newer `cmd/identity/main.go`) | `identity.issue` mints a token. `identity.revoke` adds the id to its `RevocationList`, then sends `fs.revoke` synchronously and ignores a failure. |
| fs | `cmd/fs/main.go` | `fs.open`, `fs.read`, `fs.list` and `fs.revoke` over a `handleTable` (handles bound to capability ids, plus a revoked-id replica). |
| policy | `internal/policy` | `Authorize` checks the service, then rights or actions, then constraints: path prefix and a token-bucket rate limit. |
| ipc | `internal/ipc` | Frames JSON over Unix sockets. `handleConn` runs one goroutine per connection, one request at a time. `SendRequest` has no timeout. |
| auth | `src/unnamed/part_007` (paseto.go, keys.go), `internal/auth/revocation.go` | Token signing and verification, and the revocation list. |
| strata-ctl | `cmd/strata-ctl/main.go` | A CLI that sends single requests. |

Goroutines run concurrently in two places:
- the fs handlers of different connections, with each other;
- those handlers with `fs.revoke` notifications coming from identity.

All fs state is in memory. A crash of fs, for example a panic in a handler, loses the revoked replica.

## Modules

- **`Policy`** holds pure operators. `Authorize` follows `Authorize`/`hasRight`/`hasAction` in its decision order. `EnforcePathPrefix` follows `enforcePathPrefix`.
  - A path is a record `[abs, segs]`. `CleanSegs` (RECURSIVE) is `filepath.Clean`. `Abs` joins a relative path to `Cwd`.
  - `WithinPrefix` is the test `absPath == absPrefix || HasPrefix(absPath, absPrefix+"/")`. It keeps the root-prefix quirk: prefix `/` admits only `/`.
- **`RateLimiter`** has the variables `now` (ticks), `buckets` (`globalLimiter.buckets`), `calls` (a bound) and `admittedAt` (history).
  - `EnforceRateLimit(k)` is the whole locked section: lookup and creation, capped refill, the exhaustion test, and the decrement.
  - `EnforceNoLimit(k)` is the early return for an empty or unparseable rate.
  - Floats become integers: `Den` units per token and `TicksPerSec` ticks per second. An ASSUME checks that every refill of the chosen rates is exact.
- **`FsAccess`** is the abstract specification of what fs promises (spec section 8). An access begins in one atomic step that checks the token against the reference rule `Grants` and the revoked replica, and later completes. A successful open enters a handle bound to the capability. `Stop` loses all in-memory state. It models the spec, not code, and is not in the source map.
- **`FsService`** covers fs together with identity's revoke. Each client is one connection (`handleConn` goroutine). `pc[c]` is the step its request is at. Each step is one critical section or I/O call:
  - `PathOpAuth`: extractClaims, the path param check and `Authorize`;
  - `PathOpRevCheck`: `handles.IsRevoked`;
  - `OpenIO`: `os.Open` and `nextID.Add`;
  - `OpenInsert`: the locked insert;
  - `ListIO`: `os.ReadDir`;
  - `ReadAuth`: extractClaims, Authorize, the handle param check, `Get` and the binding test;
  - `ReadRevCheck`: `IsRevoked`;
  - `ReadIO`: `ReadAt`;
  - `ReadPanic`: `make` with a huge size, which kills fs (`FsExit`). The tables are emptied, every connection to fs is dropped, and a pending notification fails;
  - `FsRevoke`: the fs.revoke handler;
  - `IdRevoke`: `RevocationList.Revoke`, then dialling fs, or answering at once when fs is down;
  - `IdNotifyDelivered`: fs applies the notification and identity answers;
  - `FsCloseAll` and `FsStop`: fs's shutdown on SIGTERM, `handles.CloseAll()` and then `srv.Stop()`, which closes the listener and returns; the process exits (`FsExit`) with handlers possibly in flight. `closing` records the step between the two;
  - `FsRestart`: an operator restarts fs with empty tables. It is bounded by `MaxRestarts`.

  The other pieces of the module:
  - `Submit(c)` is a client sending any request with any token, path (the empty one included), handle or size from small sets.
  - `P == INSTANCE Policy` supplies the decision.
  - `Get`, `IsRevoked` and `Revoke` are the handle table's operations of the same names. `Init` is `newHandleTable`, and `FsCloseAll` is `CloseAll`.
  - Tokens are records. `sig` is "ok" or "bad" (for Verify) and `expired` stands for IsExpired. Claims have no rate limit in this module.
  - `idRevoked` is identity's `RevocationList` (`NewRevocationList`, `Revoke`). Identity never calls `IsRevoked`, so the list is only ever written.
  - `told` is auxiliary history: the pairs `<<k, r>>` such that `identity.revoke(k)` answered its caller while fs incarnation `r` was the latest.
  - `Abs == INSTANCE FsAccess WITH active <- ...` is the refinement mapping. A goroutine at I/O (or at the insert of an open) is an active access; every other variable maps to itself. The access begins, in the abstract, at the revocation check, the point the spec names.
- **`Startup`** is the process lifecycle on one node: the supervisor (`supPc`), identity (`idPc`) and fs (`fsPc`), and the runtime directory (`idSock`, `fsSock`, `pub`).
  - The supervisor starts identity, waits for `identity.sock` with `waitForFile`, starts fs, waits for `fs.sock`, serves its control socket, and on a signal stops fs and then identity (`SIGTERM`, `Wait`). `SupWaitTimeout` is `waitForFile`'s 5 s deadline passing, which is fatal.
  - identity writes `identity.pub` with `os.WriteFile` (truncate, then write: two steps), listens, and installs its signal handler.
  - fs polls for the key (the loop of 50 `auth.LoadPublicKey` attempts in fs `main`, main.go:134-144; `MaxTries` stands for the 50), listens and installs its handler.
  - A SIGTERM that arrives before `signal.Notify` kills the process by Go's default action: `Server.Stop` never runs and the socket file stays.
  - `Leftovers` is what an earlier run left in the runtime directory: nothing, a clean stop (the key file only), or a crash (stale sockets, an old or truncated key file).
- **`IpcConn`** is one IPC connection: a client and the `handleConn` goroutine serving it. Frames are `[len, msg]`, in scaled units with `MaxFrame` standing for 1 MiB.
  - `ClientSend`, `ClientRecv` and `ClientClose` are `SendRequest`'s write, read-and-decode, and deferred Close. `Pipeline` lets a client on a long-lived connection (spec section 6) have several requests outstanding. `Pipeline = 1` is `SendRequest`.
  - `ServeRequest` is one turn of the loop: `ReadRequest` fails on an oversized frame or undecodable JSON and the connection closes unanswered; a version other than 1 or an unknown method gets `ErrInvalidRequest`; any other request gets the handler's answer, written whatever its size. `ServeEOF` is `ReadRequest` meeting the end of the stream.
  - A request is abstracted to what `handleConn` tells apart: JSON or not, its version, a known method or not, its size, and the size of the handler's answer.
  - `Rpc == INSTANCE IpcRpc WITH sent <- sent, got <- got, cli <- cli` is the refinement mapping: the client's view of the connection is the abstract channel's state, and frames in flight and the server loop are hidden.
- **`IpcRpc`** is the abstract specification of a connection (spec sections 6 and 7). It is a request-response channel that answers the next request in order (`Reply`), or breaks at a request the framing cannot carry (`Fail`). A request with a bad version or an unknown method gets an input-shape error; any other gets its handler's result. `Reply` and `Fail` are weakly fair, so a waiting client is never left waiting. The module models the spec, not code, and is not in the source map.
- **`Paseto`** is one token's life, from `identity.issue` to fs's `extractClaims`, with the codec `pae` (RECURSIVE), `Sign` and `Verify` in between.
  - `Issue(p)` is the whole issue handler: the service check, the filter that keeps the string entries of `actions` and `rights`, the "actions or rights required" check, the 3600 s default ttl, `time.Duration(ttlSec)*time.Second`, `NewCapability`, `cap.Rights = rights`, `json.Marshal` and `Sign`.
  - `Lifetimes` models the Duration: it truncates to whole seconds, and the product wraps in `DurBits` bits. A float beyond int64 converts to the least int64 on amd64 and the greatest on arm64, so both are possible.
  - `Marshal` writes one byte per claim (two for the expiry), and the rights byte only when rights are non-empty (`omitempty`). So the token's length depends on the claims, as in Go. `Unmarshal` and `Parses` are `json.Unmarshal`.
  - `Tick` advances the clock, `Tamper` changes one character, and `VerifyToken` is `extractClaims`: `Verify`, then `IsExpired`.
  - `base64.RawURLEncoding` is modelled bit by bit, with 4-bit bytes and 3-bit characters, the same 8 : 6 ratio Go has. So a signed body that does not fill whole groups leaves spare bits, just as in Go.
  - Ed25519 is ideal: a signature verifies only for the pae encoding it was made over.
  - A behaviour issues one token, lets time pass, may change one character of the token, then verifies it.
- **`MCFsService`, `MCRateLimiter`, `MCStartup`, `MCIpcConn`, `MCPaseto`** supply model values and data for TLC.

## Runs

| Run | Checks | Result |
|-----|--------|--------|
| `fs_safety` (`MCFsService.cfg`) | `TypeOK`, `AccessAuthorized`, `RevocationHoldsUntilRestart` | pass, about 10.1M states |
| `fs_liveness` (`MCFsServiceLive.cfg`) | `AccessRefinesAtomic`, `RequestsComplete` | pass, about 0.37M states |
| `fs_revoke_toctou` (`MCFsServiceToctou.cfg`) | `RevokedNeverAccessed` | violation (finding 1) |
| `fs_shutdown_drain` (`MCFsServiceShutdown.cfg`) | `ShutdownDrainsHandlers` | violation (finding 3) |
| `rate_limit` (`MCRateLimiter.cfg`) | `TypeOK`, `WindowBound`, `WaitThenAdmitted` | pass |
| `rate_fractional` (`MCRateLimiterFractional.cfg`) | `WaitThenAdmitted` | violation (finding 2) |
| `startup` (`MCStartup.cfg`) | `TypeOK`, `KeyAgreement`, `ShutdownCompletes` | pass |
| `startup_stale` (`MCStartupStale.cfg`) | `KeyAgreement` | violation (finding 4) |
| `ipc_conn` (`MCIpcConn.cfg`) | `TypeOK`, `ConnRefinesRpc` | pass, about 8k states |
| `ipc_large_answer` (`MCIpcConnLarge.cfg`) | `WellFormedAnswered` | violation (finding 5) |
| `token_codec` (`MCPaseto.cfg`) | `RoundTrip`, `TamperDetected`, `NeverOutlivesTtl`, `AcceptedClaimsWellFormed` | pass, about 63k states |
| `token_malleable` (`MCPasetoUnaligned.cfg`) | `TamperDetected` | violation (finding 6) |

What each property says:

- **`AccessAuthorized`**: any goroutine about to call the file system holds a token that the spec's rule (`FsAccess!Grants`) grants for that operation and path. For a read, the path is the one the handle was opened with.
  - It is checked against forged, foreign-service, legacy-actions and path-confined tokens.
  - The paths include `/tmpevil`, `/tmp/../tmpevil` and the empty path.
- **`RevocationHoldsUntilRestart`** (spec 4.7 and 8.7, within the limit 4.7 admits): once `identity.revoke(k)` has answered its caller, no access with a token of `k` begins in the same fs incarnation. It holds both when the notification was delivered and when it failed; in the model it fails only because fs was down when it was sent or died while serving it, which is also when the caller's answer can come before fs applied it. A restarted fs has an empty replica and honours `k` again until the token expires; spec 4.7 admits that window. The property fails if identity answered before the notification was applied.
- **`AccessRefinesAtomic`**: `FsService` implements `FsAccess`. Every behaviour of the split handlers is a behaviour of the atomic specification under the mapping. In particular, no access begins unauthorized or after its capability is revoked, a handle is entered only by a successful open, and a crash loses everything at once.
- **`RequestsComplete`**: every request taken up is answered, including a revoke whose notification meets an fs crash.
- **`ShutdownDrainsHandlers`** (spec section 5, cancellation): when fs stops, no handler is still in flight.
- **`WindowBound`**: in any window the bucket admits at most rate × window + burst calls.
- **`WaitThenAdmitted`**: after 1/N seconds idle, the next call is admitted (spec 8.8).
- **`KeyAgreement`**: fs serves only with the public key identity signs with.
- **`ShutdownCompletes`**: after the supervisor's signal, every process exits.
- **`ConnRefinesRpc`**: `IpcConn` implements `IpcRpc`, fairness included. On one connection, the i-th answer is for the i-th request. It is `ErrInvalidRequest` exactly when that request had a bad version or method. Nothing is answered twice or skipped. The client's read fails only at a request `ReadRequest` cannot decode, after every answer before it. A client blocked reading eventually has its answer or that failure.
- **`WellFormedAnswered`** (checked by the violation run only; `ConnRefinesRpc` implies it when answers fit): a client that sends only decodable requests within 1 MiB never sees a read fail.
- **`RoundTrip`** (spec 8.9): an unchanged token gives fs exactly the claims identity signed. It is refused only after its expiry.
- **`TamperDetected`** (spec 8.9): a token with any one character changed is refused.
- **`NeverOutlivesTtl`** (spec 4.5): fs never accepts a token later than `ttl_seconds` (3600 s when absent) after it was issued. The Duration's truncation, its out-of-range conversion and its wrap can shorten a token's life but never lengthen it.
- **`AcceptedClaimsWellFormed`** (invariants I1 and I3): every token fs accepts names a service and carries an action or a right, even when the caller put numbers in the arrays.

Findings:

1. **Revocation TOCTOU.** `IsRevoked` and the I/O are separate critical sections (main.go:205/216, 165/169, 241/245). A revocation applied between them lets the access happen after the revocation point, against spec 8.7. TLC's trace:
   1. a's `fs.open` passes `IsRevoked`;
   2. b's `fs.revoke` is applied;
   3. a's `os.Open` runs.

   `AccessRefinesAtomic` still holds: the abstract spec places such an access at its check, which is what the spec allows for an in-flight call.
2. **Rates below 1 rps never admit.** The burst capacity equals the rate (constraints.go:114, 121). With "0.5rps" the tokens never reach 1.
3. **Shutdown does not drain in-flight handlers.** `srv.Stop()` closes the listener and returns, and `main` exits (main.go:286-289). A handler in flight is cut off, whether it is opening, reading or listing (the violation trace cuts off an open), against spec section 5: "in-flight handlers finish against already-accepted connections".
4. **A stale key after a crash.** `waitForFile` (supervisor main.go:40) only checks that `identity.sock` exists. If a crashed run left the socket behind, fs is started before the new identity has written its key, and it loads the old `identity.pub`. Every token the new identity issues is then rejected.
5. **Answers over 1 MiB are written but cannot be read.** `WriteFrame` (frame.go:21) does not check the limit that `ReadFrame` (frame.go:38) enforces. `fs.read` with a large `size`, or `fs.list` of a large directory, produces such an answer, and `SendRequest` fails with "frame too large".
6. **Tokens are malleable in their last character.** `RawURLEncoding` is not strict (part_007:54), so the spare bits of a final partial group are ignored. When `len(claims)+64` is not a multiple of 3, a changed last character still verifies.

Every property of a passing run has a mutant in `PROJECT.json`: a plausible bug in the mapped code that TLC shows the property catches.

## Bounds

**fs runs:**
- two clients, enough for one goroutine's check and I/O to be split by another's revoke;
- three capability ids;
- one handle (`MaxHandles = 1`), enough for a read through another capability's handle;
- one restart;
- tokens and paths that reach every branch of `Authorize` and `enforcePathPrefix`, including the `..` and sibling-prefix cases.

To keep the state graph small, the smaller runs use fewer tokens:
- the liveness-and-refinement run (`MCFsServiceLive.cfg`) uses the honest confined token `T1` and the foreign-service token `TOther` (`MCTokensRefine`), the three paths of `MCPaths`, and only the capability ids those tokens carry (`MCCapIdsLive`);
- the shutdown run uses one honest token and one path (`MCTokensLive`, `MCPathsLive`).

Neither liveness nor refinement depends on the decision's details, which `fs_safety` covers with all four tokens.

**Rate-limit runs:**
- `Den = 4` and `TicksPerSec = 2`, so 0.5 rps and 1 rps refills are exact;
- 3 ticks and 4 calls per capability, enough to exhaust a 2 rps burst, refill it, and spend a refill larger than the burst if the cap were missing;
- the fractional run needs 4 ticks to reach the 2 s wait.

**Startup:** every kind of leftover except the stale key (the violation run has that one), and `MaxTries = 3` in place of fs `main`'s 50 polls: three failed polls already show both outcomes, a key that appears in time and the fatal exit.

**IPC:** `MaxFrame = 2`, with requests and answers of exactly the limit and one over it. Four requests, with up to three outstanding, are enough for an error answer to be followed by others on the same connection.

**Paseto:** 60 issue requests: service present or empty; actions empty, a string, or a number; rights empty or a number; and ttl 0, 1, 2, 10 and 18 ticks. With `SecondTicks = 2` and `DurBits = 4`, these cover the default, truncation to 0 s, an exact ttl, an overflowing product and a value beyond the conversion's range. The clock runs to `MaxTime = 7`, past every expiry, and every single-character change is tried. Tokens without rights have a 5-byte message, which with the signature fills whole base64 groups. The violation run issues a token with a right: 6 bytes, ending in a partial group.

## Fairness

Handler goroutines of a live process are scheduled by the Go runtime, so each client's `HandlerStep` is weakly fair. So are the process steps of `Startup` (supervisor, identity and fs), `FsStop` (the shutdown `main` runs after `CloseAll`), and in `IpcConn` the server goroutine and a client blocked in its read. `IpcRpc`'s fairness on `Reply` and `Fail` is the promise those fair steps are checked to keep.

These are not fair:
- `Submit` and `ClientSend`, because clients need not send requests;
- `FsRestart`, because the supervisor never restarts a child, so a restart is an operator's choice;
- `SupSignal` and `FsCloseAll`, the arrival of an external signal;
- `SupWaitTimeout`, a timeout that may or may not strike first.

`CHECK_DEADLOCK FALSE` is set where the system really stops:
- `MCRateLimiter.cfg`, because the limiter is a passive library, and a state with the clock and call bounds exhausted is a legitimate end;
- `MCStartup*.cfg`, because every process exits in the end;
- `MCIpcConn*.cfg`, because a connection closed at both ends is finished;
- `MCPaseto*.cfg`, because each behaviour ends with one verification, or with the clock's bound after identity refused to issue.

## Not modelled

These are not modelled, with the reasons given in `PROJECT.json`:
- the Ed25519 cryptography (taken as ideal);
- the `path_prefix` and `rate_limit` params of `identity.issue`, which it copies unchanged into the claims, and the random `jti`;
- `acceptLoop`'s retry of a failed `Accept` without backoff, and `supervisor.status`, which answers "running" without looking at the children (both listed as hazards);
- the path-prefix rule's root case (prefix `/` admits only `/`), which `WithinPrefix` keeps and the spec's literal rule shares;
- strata-ctl: it parses its arguments, sends one request with `SendRequest`, prints the answer and exits 1 unless the answer is OK. The spec specifies the CLI only as an interface. Its one interaction is `SendRequest`, which is `IpcConn`'s client with `Pipeline = 1` and `FsService`'s `Submit`. What remains is string handling, which the models abstract;
- the older service versions in `part_008`/`part_009`;
- symlinks (the file system's link structure);
- the unbounded growth of the bucket map.

## Plan for later work

1. Compose `RateLimiter` into `FsService`'s Authorize, to show that denied requests drain the caller's bucket (authorize.go:72). This needs a smaller fs instance than `fs_safety`'s.
2. Compose `Paseto`'s issue into `FsService`, so that tokens carry the lifetimes `Lifetimes` produces.
