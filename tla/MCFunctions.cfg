CONSTANTS
  HardwareProfiles <- Known
  Kinds <- SupportedKinds
  Pools = {p1, p2}
  NodesPerPool = 2
  GPUsPerNode = 2
  MaxNeed = 4
  MaxMaxNodes = 2
  Tenants = {a, b, c}
  MaxLen = 4
  Weights = {0, 2}
  MaxDevices = 2
  MaxRoot = 8000
  MaxDuration = 1000
  Beyond <- LeastDuration
  TokenCounts = {1, 300000, 500000}
  Batches = {0, 2, 64}
  MaxAvailable = 2
SPECIFICATION Spec
CHECK_DEADLOCK FALSE
INVARIANTS
  PickRespectsLimits
  PlacementIsComplete
  SpreadIsBalanced
  LoopYieldsOrder
  RunLengthInRange
  MoreDevicesNeverSlower
  AcceptedIsValid
  AcceptedCanStart
  FitIsAllocatable
