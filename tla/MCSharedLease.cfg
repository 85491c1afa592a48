CONSTANTS
  A = A
  B = B
  a1 = a1
  a2 = a2
  b1 = b1
  None = None
  Calls <- MCCalls
  Rollouts <- MCRollouts
  CallOf <- MCCallOf
  Verified <- MCVerified
  Keys <- OneKey
  KeyOf <- Same
  Width = 1
  Cancels <- JustA
SPECIFICATION FairSpec
CHECK_DEADLOCK FALSE
INVARIANTS
  WidthRespected
  OneLive
  ScopeReleases
PROPERTIES
  LeaseServed
