SPECIFICATION CSpec
CONSTANTS
    Servers     = {1, 2}
    Clients     = {c1, c2}
    ClientLimit = 1
    CodeTTL     = 1
    AccessTTL   = 0
    RefreshTTL  = 1
    Grace       = 0
    Retention   = 1
    Crashes     = TRUE
    MaxTime     = 2
    MaxIssued   = 1
    MaxSignals  = 2
    Faults      = {"boot", "crash", "early", "sup_kill"}
INVARIANTS
    ServedThroughout RequestsKept ServersKnown ClientsBounded
PROPERTIES
    SupervisorStops
\* Servers, signals and secrets are bounded, so the system comes to an end.
CHECK_DEADLOCK FALSE
