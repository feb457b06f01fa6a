CONSTANTS
    k1 = k1
    k2 = k2
    k3 = k3
    CapIds <- MCCapIds
    RateOf <- MCRateOfFractional
    NoLimit = NoLimit
    None = None
    Den = 4
    TicksPerSec = 2
    MaxTime = 4
    MaxCalls = 3
SPECIFICATION Spec
CHECK_DEADLOCK FALSE
INVARIANTS
    WaitThenAdmitted
