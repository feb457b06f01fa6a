CONSTANTS
    ByteBits = 4
    CharBits = 3
    LenBytes = 2
    SigSize = 1
    HeaderBytes <- MCHeaderBytes
    SigBytes <- MCSigBytes
    Hdr = Hdr
    Words <- MCWords
    Params <- MCParams
    SecondTicks = 2
    DurBits = 4
    DefaultTtl = 3
    MaxTime = 7
    NoParams = NoParams
    NoClaims = NoClaims
    Num = Num
SPECIFICATION Spec
\* Each behaviour ends with one verification, or with the clock's bound
\* after identity refused to issue.
CHECK_DEADLOCK FALSE
INVARIANTS
    RoundTrip
    TamperDetected
    NeverOutlivesTtl
    AcceptedClaimsWellFormed
