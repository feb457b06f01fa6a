CONSTANTS
    k1 = k1
    k2 = k2
    k3 = k3
    CapIds <- MCCapIds
    RateOf <- MCRateOf
    NoLimit = NoLimit
    None = None
    Den = 4
    TicksPerSec = 2
    MaxTime = 3
    MaxCalls = 4
SPECIFICATION Spec
CHECK_DEADLOCK FALSE
INVARIANTS
    TypeOK
    WindowBound
    WaitThenAdmitted
