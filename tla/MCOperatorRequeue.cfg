SPECIFICATION FairSpec
CONSTANTS
  a = a
  b = b
  tenant = tenant
  None = None
  Profile = Profile
  HardwareProfiles = {Profile}
  Workloads = {a, b}
  WorkloadSpecs <- MCWorkloadSpecs
  Quotas <- NoQuotas
  PoolDevices = 1
  Deletable = {}
  MaxRestarts = 0
  MaxBacklog = 2
PROPERTIES PreemptedIsRequeued
CHECK_DEADLOCK FALSE
