SPECIFICATION Spec
CONSTANTS
    Tools = {t1, t2}
    MaxRuntimes = 2
    MaxSlots = 2
    Kinds = {"list", "exec"}
    Faults = {"die", "mismatch"}
    Harness = {1}
    ThreadBound = 2
    RuntimeBound = 2
    GenBound = 2
SYMMETRY ToolSymmetry
INVARIANT BindingsSound
PROPERTY RequestKeepsThread
PROPERTY AnswerIsOfBinding
