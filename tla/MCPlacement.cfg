SPECIFICATION SpecAll
CONSTANTS
  Leases = {l1, l2}
  Providers = {"docker_image", "docker_compose", "modal_image", "modal_compose", "daytona", "tunnel", "subprocess"}
  Cuts = 1
  LateCuts = FALSE
  Leader = Leader
  Child = Child
  Daemon = Daemon
  Traces = {t1, t2}
  Cap = 1
  MaxRetries = 1
  None = None
CHECK_DEADLOCK FALSE
INVARIANTS
  NoneForgotten
  PreparedOnce
  GroupEnded
  FoldIsVerdict
PROPERTIES
  AllEnd
