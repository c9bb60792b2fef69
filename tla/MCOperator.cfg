SPECIFICATION Spec
CONSTANTS
  a = a
  b = b
  tenant = tenant
  None = None
  Profile = Profile
  HardwareProfiles = {Profile}
  Workloads = {a, b}
  WorkloadSpecs <- MCWorkloadSpecs
  Quotas <- NoQuotas
  PoolDevices = 1
  Deletable = {a}
  MaxRestarts = 1
  MaxBacklog = 2
INVARIANTS BucketsDisjoint RunningHoldsDevices GoneHoldsNoDevices NothingIsForgotten
PROPERTIES PhaseFollowsLifecycle
CHECK_DEADLOCK FALSE
