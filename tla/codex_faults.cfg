SPECIFICATION Spec
CONSTANTS
    Tools = {t1, t2}
    MaxRuntimes = 1
    MaxSlots = 1
    Kinds = {"call", "exec"}
    Faults = {"timeout", "error", "save", "release", "restart"}
    Harness = {1}
    ThreadBound = 2
    RuntimeBound = 2
    GenBound = 1
SYMMETRY ToolSymmetry
INVARIANT CapacityHolds
INVARIANT FileAgrees
PROPERTY CallKeepsThread
