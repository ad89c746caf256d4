SPECIFICATION FairSpec
CONSTANTS
  Files = {1, 2, 3}
  Callers = {c1, c2}
  Calls <- MCCalls
  FirstDisk <- MCFirstDisk
  Bad = Bad
  Mended = Mended
  NoLine = NoLine
  None = None
  MaxFaults = 1
INVARIANTS TypeOK AnswersTrue ChangesSeen PatchIsSequential
PROPERTIES CallsEnd
CHECK_DEADLOCK FALSE
