CONSTANTS
  Verifiers = {"none", "shared", "separate"}
  Timeouts = {TRUE, FALSE}
  MayStall = TRUE
SPECIFICATION FairSpec
CHECK_DEADLOCK FALSE
INVARIANTS
  OutcomeHonest
  CleanedUp
PROPERTIES
  ReturnedIsFinal
  TimedRolloutEnds
