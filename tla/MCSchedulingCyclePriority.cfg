CONSTANTS
  HardwareProfiles = {"h100", "a100"}
  Ids = {1, 2, 3, 4, 5}
  Tenants = {"a", "b"}
  Profiles = {"h100", "a100", "v1"}
  Inputs <- PreemptInputs
  MaxAdmissionsPerCycle = 1
  Now = 9
SPECIFICATION Spec
CHECK_DEADLOCK FALSE
PROPERTIES
  VictimsHaveLowerPriority
