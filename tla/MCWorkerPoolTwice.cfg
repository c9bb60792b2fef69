SPECIFICATION Spec
CONSTANTS
  Workers = {k1, k2}
  Workloads = {a, b}
  GPUCount <- OneEach
  Capacity = 1
  Deployments <- Polling
  MaxStarts = 2
  None = None
  k1 = k1
  k2 = k2
  a = a
  b = b
INVARIANTS RunsOnce
CHECK_DEADLOCK FALSE
