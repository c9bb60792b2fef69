SPECIFICATION Spec
CONSTANTS
  a = a
  b = b
  tenant = tenant
  None = None
  Profile = Profile
  HardwareProfiles = {Profile}
  Workloads = {a, b}
  WorkloadSpecs <- MCWorkloadSpecs
  Quotas <- MCQuotas
  PoolDevices = 1
  Deletable = {}
  MaxRestarts = 0
  MaxBacklog = 4
INVARIANTS WithinGPUCap
CHECK_DEADLOCK FALSE
