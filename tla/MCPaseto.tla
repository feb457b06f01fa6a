----------------------------- MODULE MCPaseto -----------------------------
(* Scaled sizes for checking Paseto with TLC: 4-bit bytes and 3-bit       *)
(* characters (8 : 6), 2-byte pae lengths, a 1-byte signature; two ticks  *)
(* to a second and a 4-bit Duration, so that ttl_seconds can both         *)
(* overflow the product and lie beyond the float conversion's range.      *)
EXTENDS Paseto

CONSTANTS Num   \* a non-string entry of a JSON array (a number)

\* "v2.public." and the signature, as scaled bytes.
MCHeaderBytes == <<7>>
MCSigBytes == <<5>>

MCWords == <<"fs", "identity", "read", "fs.read">>

\* Requests without rights: json.Marshal writes five bytes, and with the
\* signature the body fills whole base64 groups.  ttl_seconds 0 (absent),
\* 1 (truncated to 0 s), 2, 10 (the product overflows) and 18 (beyond the
\* conversion's range), in ticks.
MCParams ==
    [service: {"fs", ""},
     actions: {<< >>, <<"read">>, <<Num>>},
     rights: {<< >>, <<Num>>},
     ttl: {0, 1, 2, 10, 18}]

\* A request with a right: six bytes, and a body ending in a partial
\* group whose spare bits the decoder ignores.
MCParamsUnaligned ==
    [service: {"fs"}, actions: {<<"read">>}, rights: {<<"fs.read">>}, ttl: {0}]
=============================================================================
