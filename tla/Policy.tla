------------------------------- MODULE Policy -------------------------------
(***************************************************************************)
(* The centralized authorization decision of internal/policy:             *)
(* Authorize (authorize.go) and the path-prefix constraint                *)
(* (constraints.go).  Pure operators, no variables.                       *)
(*                                                                         *)
(* A path string is abstracted to a record [abs, segs]: whether it starts  *)
(* with the separator, and its '/'-separated segments.  The empty string   *)
(* is [abs |-> FALSE, segs |-> << >>] and "/" is [abs |-> TRUE, segs |->  *)
(* << >>].  Segments never contain '/', so a string HasPrefix(q, p + "/")  *)
(* on cleaned paths is a segment-sequence question (WithinPrefix).         *)
(*                                                                         *)
(* A method string "svc.act" is the pair <<svc, act>> that SplitN yields;  *)
(* a right "svc.act" is the same pair.  The rate-limit constraint is the   *)
(* RateLimiter module; claims handled here carry no rate_limit, for which *)
(* enforceRateLimit returns before touching its state.                    *)
(***************************************************************************)
EXTENDS Sequences, SequencesExt

CONSTANTS
    Cwd,     \* the process working directory, a cleaned absolute segment sequence
    NoClaims \* the nil *Capability handed to Authorize when no token was sent

Path(isAbs, s) == [abs |-> isAbs, segs |-> s]
EmptyPath == Path(FALSE, << >>)

\* filepath.Clean on an absolute path: drop ".", pop on "..", and ".." at
\* the root stays at the root.
RECURSIVE CleanSegs(_, _)
CleanSegs(done, rest) ==
    IF rest = << >> THEN done
    ELSE LET s == Head(rest) IN
         CleanSegs(CASE s = "."  -> done
                     [] s = ".." -> IF done = << >> THEN done ELSE Front(done)
                     [] OTHER    -> Append(done, s),
                   Tail(rest))

\* filepath.Abs: join a relative path to the working directory, then Clean.
Abs(p) == CleanSegs(<< >>, IF p.abs THEN p.segs ELSE Cwd \o p.segs)

\* strings.Contains(path, ".."): only the segment ".." spells ".." in the
\* segment alphabets the models use.
ContainsDotDot(p) == \E i \in 1..Len(p.segs) : p.segs[i] = ".."

\* absPath == absPrefix || strings.HasPrefix(absPath, absPrefix + "/").
\* For absPrefix = "/" the second test asks for the prefix "//", which no
\* cleaned path has.
WithinPrefix(absPath, absPrefix) ==
    \/ absPath = absPrefix
    \/ absPrefix # << >> /\ IsStrictPrefix(absPrefix, absPath)

\* enforcePathPrefix(prefix, ctx["path"]).
EnforcePathPrefix(prefix, path) ==
    CASE prefix = EmptyPath                        -> "OK"
      [] path = EmptyPath                          -> "OK"
      [] ContainsDotDot(path)                      -> "PERMISSION_DENIED"
      [] ~WithinPrefix(Abs(path), Abs(prefix))     -> "PERMISSION_DENIED"
      [] OTHER                                     -> "OK"

\* Mutant: the service scoping check left out.
AuthorizeAnyService(claims, method, path) ==
    CASE claims = NoClaims                          -> "UNAUTHENTICATED"
      [] method \notin claims.rights
         /\ method[2] \notin claims.actions         -> "PERMISSION_DENIED"
      [] OTHER -> EnforcePathPrefix(claims.prefix, path)

\* Authorize(claims, method, ctx) for a well-formed method <<svc, act>>
\* and ctx["path"] = path (EmptyPath when the handler passes no context).
Authorize(claims, method, path) ==
    CASE claims = NoClaims                          -> "UNAUTHENTICATED"
      [] claims.service # method[1]                 -> "PERMISSION_DENIED"
      [] method \notin claims.rights
         /\ method[2] \notin claims.actions         -> "PERMISSION_DENIED"
      [] OTHER -> EnforcePathPrefix(claims.prefix, path)

=============================================================================
