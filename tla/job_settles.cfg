SPECIFICATION FairSpec
CONSTANTS
    Callers = {c1}
    Kids = {k1}
    Faults = {"sup_kill", "server_crash"}
PROPERTY EventuallySettled
