SPECIFICATION Spec
CONSTANTS
    Callers = {c1}
    Kids = {k1}
    Faults = {"slow", "unresponsive", "sup_term", "io_error"}
INVARIANT VerdictTrue
PROPERTY VerdictStands
