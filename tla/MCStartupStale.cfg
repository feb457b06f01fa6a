CONSTANTS
    Leftovers <- MCLeftoversCrash
    NoKey = NoKey
    MaxTries = 3
SPECIFICATION Spec
\* Every process exits in the end: the supervisor after a stop or a fatal
\* error; a node does not run forever in the model.
CHECK_DEADLOCK FALSE
INVARIANTS
    KeyAgreement
