SPECIFICATION Spec
CONSTANTS
  CliRuns = {c1, c2}
  Teams = {"A", "B"}
  Commands <- SyncCommands
  Slugs = {s1}
  Rows <- SyncRows
  Changes = 1
  Sessions = {h1, h2}
  Services = {db}
  HealthTries = 2
  Overlapping = FALSE
  Tools = {t1, t2}
  Breakages = 4
  Reconnects = 3
  CdpCalls = 3
  RobotFrames = 4
  Robots = {r1, r2, r3}
  BatchSize = {2}
  ChunkRows = 2
  RobotSteps = 3
CHECK_DEADLOCK FALSE
SYMMETRY CliSymmetry
INVARIANTS
  RulesSound
  SyncHonest
  HarborHonest
  ClientsSound
  BatchSound
