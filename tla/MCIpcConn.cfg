CONSTANTS
    Requests <- MCRequests
    MaxFrame <- MCMaxFrame
    MaxReqs = 4
    Pipeline = 3
SPECIFICATION Spec
\* A connection ends: once both ends have closed it nothing more happens.
CHECK_DEADLOCK FALSE
INVARIANTS
    TypeOK
PROPERTIES
    ConnRefinesRpc
