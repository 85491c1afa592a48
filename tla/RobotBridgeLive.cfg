CONSTANTS
  NumEnvs = 2
  Conn = {c1, c2}
  Link = {l1}
  Redial = FALSE
  SimMayFail = FALSE
  MaxBatch = 1
  MaxSteps = 1
SPECIFICATION FairSpec
CHECK_DEADLOCK FALSE
PROPERTIES
  AgentAnswered
