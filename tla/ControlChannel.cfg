CONSTANTS
  Conn = {c1, c2, c3}
  MaxStarts = 2
  LateAccept = FALSE
SPECIFICATION FairSpec
CHECK_DEADLOCK FALSE
INVARIANTS
  OneHolder
  LiveSessions
  HooksSound
PROPERTIES
  ImplementsLedger
  ShutdownEnds
