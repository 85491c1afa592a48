SPECIFICATION Spec
CONSTANTS
  CliRuns = {c1, c2}
  Teams = {"A", "B"}
  Commands <- SyncCommands
  Slugs = {s1}
  Rows <- SyncRows
  Changes = 1
  Sessions = {h1}
  Services = {}
  HealthTries = 1
  Overlapping = FALSE
  Tools = {t1, t2}
  Breakages = 4
  Reconnects = 3
  CdpCalls = 3
  RobotFrames = 4
  Robots = {r1, r2, r3}
  BatchSize = {2}
  ChunkRows = 2
  RobotSteps = 3
CHECK_DEADLOCK FALSE
INVARIANTS
  SyncedWhole
