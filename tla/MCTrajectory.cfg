SPECIFICATION SpecAll
CONSTANTS
  MaxSteps = 2
  Kinds = {"claude", "openai", "compatible", "gemini"}
  Files = {f1, f2}
  MaxVersion = 2
  Requests = 1
  Slots = {1, 2}
  RecordSteps = 3
  MaxQueued = 1
  Envs = {e1, e2}
  Builds = {"a", "b"}
  MaxTicks = 4
  Session = {s1, s2, s3}
  NumEnvs = 2
  Attempts = 2
  MaxCuts = 1
  Faults = {"busy", "sim"}
CHECK_DEADLOCK FALSE
INVARIANTS
  LoopSound
  ShownIsPrevious
  EpisodesApart
  RepliesMatch
  SlotTracked
  SlotKept
PROPERTIES
  TrajectoryEnds
  ResetServed
