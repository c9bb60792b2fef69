SPECIFICATION FairSpec
CONSTANTS
  NoFleet = NoFleet
  n1 = n1
  n2 = n2
  p1 = p1
  p2 = p2
  p3 = p3
  a = a
  b = b
  c = c
  bad = bad
  q1 = q1
  q2 = q2
  Pools = {p1, p2, p3}
  MaxSize = 2
  HardwareProfiles = {"h100"}
  Namespaces = {n1, n2}
  Workloads = {a, b, c, bad}
  Job <- MCJob
  PoolSpec <- MCPoolSpec
  Tenants = {"s", "t"}
  Quotas = {q1, q2}
  QuotaNs <- MCQuotaNs
  QuotaSpecs <- MCQuotaSpecs
  MaxAdmissionsPerCycle = 1
  Limits <- MCLimits
INVARIANTS StatusIsBacked FleetFollowsPools QuotasFollowObjects
PROPERTIES MirrorsConverge AdmissibleIsAdmitted
CHECK_DEADLOCK FALSE
