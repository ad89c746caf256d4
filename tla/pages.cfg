CONSTANTS
    Room = 6
    MaxBytes = 6
    MaxPending = 2
    LogLimit = 4
    Limits = {0, 1, 2}
    ByteLimits = {1, 2, 3}
    Sources <- AllSources
SPECIFICATION Spec
INVARIANTS PagesJoin ContextsExact
PROPERTIES EndMeansAll PagesAdvance
CHECK_DEADLOCK FALSE
