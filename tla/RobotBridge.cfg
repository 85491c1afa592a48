CONSTANTS
  NumEnvs = 2
  Conn = {c1, c2}
  Link = {l1}
  Redial = TRUE
  SimMayFail = TRUE
  MaxBatch = 2
  MaxSteps = 2
SPECIFICATION Spec
SYMMETRY ConnSymmetry
CHECK_DEADLOCK FALSE
INVARIANTS
  OwnEpisode
  ActsOnWhatItSaw
PROPERTIES
  ImplementsSlotBook
