--------------------------- MODULE MCRateLimiter ---------------------------
(* Rate strings and bounds for checking RateLimiter with TLC. *)
EXTENDS RateLimiter, TLC

CONSTANTS k1, k2, k3

MCCapIds == {k1, k2, k3}
\* k1 "2rps", k2 "1rps", k3 "50rpm" (unparseable: fails open).
MCRateOf == (k1 :> [num |-> <<2, 1>>, unit |-> "rps"])
            @@ (k2 :> [num |-> <<1, 1>>, unit |-> "rps"])
            @@ (k3 :> [num |-> <<50, 1>>, unit |-> "rpm"])
\* k1 "0.5rps": a positive rate below one request per second.
MCRateOfFractional == (k1 :> [num |-> <<1, 2>>, unit |-> "rps"])
                      @@ (k2 :> [num |-> <<1, 1>>, unit |-> "rps"])
                      @@ (k3 :> NoLimit)
=============================================================================
