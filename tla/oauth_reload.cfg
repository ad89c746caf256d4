SPECIFICATION Spec
CONSTANTS
    Servers     = {s1, s2}
    Clients     = {c1}
    ClientLimit = 1
    CodeTTL     = 1
    AccessTTL   = 1
    RefreshTTL  = 3
    Grace       = 1
    Retention   = 2
    Crashes     = FALSE
    MaxTime     = 5
    MaxIssued   = 4
INVARIANT NeverReauthorizes
\* The clock and the secrets are bounded, so a run of requests comes to an end.
CHECK_DEADLOCK FALSE
