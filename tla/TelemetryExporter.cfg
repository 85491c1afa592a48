CONSTANTS
  RESET = RESET
  EXIT = EXIT
  STOP = STOP
  None = None
  Traces = {{s1, s2}, {s3}}
  Flushers = {f1}
  MaxBatch = 2
SPECIFICATION FairSpec
CHECK_DEADLOCK FALSE
INVARIANTS
  FlushDrains
  InOnePlace
