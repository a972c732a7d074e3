SPECIFICATION Spec
CONSTANTS
    Inputs <- WithDeadOptions
    Lists <- MCLists
    Unchecked <- MCUnchecked
    Dead <- MCDead
CHECK_DEADLOCK FALSE
INVARIANTS
    EveryOptionHasAnEffect
