SPECIFICATION FairSpec
CONSTANTS
  Workers = {k1, k2}
  Workloads = {a, b}
  GPUCount <- OneEach
  Capacity = 1
  Deployments <- MCDeployments
  MaxStarts = 3
  None = None
  k1 = k1
  k2 = k2
  a = a
  b = b
INVARIANTS QueueRunsOnce RunHoldsDevices ClaimIsPursued
PROPERTIES TerminalIsFinal EveryScheduledEnds
CHECK_DEADLOCK FALSE
