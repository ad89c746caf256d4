SPECIFICATION Spec
CONSTANTS
    Servers     = {s1}
    Clients     = {c1}
    ClientLimit = 1
    CodeTTL     = 1
    AccessTTL   = 1
    RefreshTTL  = 3
    Grace       = 1
    Retention   = 2
    Crashes     = TRUE
    MaxTime     = 4
    MaxIssued   = 5
INVARIANTS
    StoreSound CodeSpentOnce RevokedStaysDead GraceFromFirstUse
PROPERTIES
    WriteKeepsGrants
\* The clock and the secrets are bounded, so a run of requests comes to an end.
CHECK_DEADLOCK FALSE
