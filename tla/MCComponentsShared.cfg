SPECIFICATION Spec
CONSTANTS
    Inputs <- OldGerrit
    Lists <- MCLists
    Unchecked <- MCUnchecked
    Dead <- MCDead
CHECK_DEADLOCK FALSE
INVARIANTS
    RenderedAlike
