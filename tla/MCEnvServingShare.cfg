CONSTANTS
  s1 = s1
  s2 = s2
  v1 = v1
  v2 = v2
  a1 = a1
  a2 = a2
  None = None
  Clients <- TwoSessions
  Visitors <- Graders0
  Acquisitions <- OneRollout
  Ports = TRUE
  MaxBoots = 2
  MaxDeaths = 0
  Faults = FALSE
SPECIFICATION SpecServing
CHECK_DEADLOCK FALSE

INVARIANTS SessionsShareBoot
