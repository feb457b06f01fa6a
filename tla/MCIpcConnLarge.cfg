CONSTANTS
    Requests <- MCRequestsLarge
    MaxFrame <- MCMaxFrame
    MaxReqs = 1
    Pipeline = 1
SPECIFICATION Spec
CHECK_DEADLOCK FALSE
INVARIANTS
    WellFormedAnswered
