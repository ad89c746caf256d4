SPECIFICATION Spec
CONSTANTS
    Batches    <- TheBatches
    CaptureMax = 6
    MaxTokens  = 3
    MaxNeed    = 4
    Rounds     = 2
    SeamMax    = 1
    ReadChunk  = 2
INVARIANTS
    TypeOK TimeoutKillsGroup OutputExact BudgetKept
PROPERTIES
    RunsEnd
\* A call is answered once.
CHECK_DEADLOCK FALSE
