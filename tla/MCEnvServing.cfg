CONSTANTS
  s1 = s1
  s2 = s2
  v1 = v1
  v2 = v2
  a1 = a1
  a2 = a2
  None = None
  Clients <- OneAndTwo
  Visitors <- Graders
  Acquisitions <- TwoRollouts
  Ports = TRUE
  MaxBoots = 2
  MaxDeaths = 1
  Faults = TRUE
SPECIFICATION SpecServing
SYMMETRY Sym
CHECK_DEADLOCK FALSE
INVARIANTS
  OneSandbox
  OwnRoutes
  ServedIsCurrent
