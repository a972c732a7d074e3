SPECIFICATION Spec
CONSTANTS
    Inputs <- AllButOldGerrit
    Lists <- MCLists
    Unchecked <- MCUnchecked
    Dead <- MCDead
CHECK_DEADLOCK FALSE
INVARIANTS
    RenderedAlike
    ElementOnce
    OnlyKnownOptionsAreDead
    WrongChoicesAreRefused
