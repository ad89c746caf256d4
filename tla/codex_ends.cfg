SPECIFICATION FairSpec
CONSTANTS
    Tools = {t1, t2}
    MaxRuntimes = 1
    MaxSlots = 1
    Kinds = {"call", "exec"}
    Faults = {"timeout"}
    Harness = {}
    ThreadBound = 1
    RuntimeBound = 1
    GenBound = 1
PROPERTY AbandonedIsReleased
PROPERTY RequestsEnd
