SPECIFICATION Spec
CONSTANTS
    Callers = {c1, c2}
    Kids = {k1}
    Faults = {"pid_reuse", "server_crash"}
INVARIANTS
    TypeOK
    KillAttributed
    KillLeavesNothing
    StrangersSpared
PROPERTY KeepsContract
SYMMETRY CallerSymmetry
