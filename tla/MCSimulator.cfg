CONSTANTS
  PoolKeys = {p1, p2}
  PoolSpecs <- MCPoolSpecs
  small = small
  large = large
  Workloads <- MCWorkloads
  Requests <- MCRequests
  Callers = {c1, c2}
  MaxRuns = 2
  None = None
SPECIFICATION FairSpec
INVARIANTS
  TypeOK
  DeviceExclusive
  RunningIsLatest
  UsageIsExact
PROPERTIES
  TerminalIsFinal
  ImplementsLedger
  RunFinishes
