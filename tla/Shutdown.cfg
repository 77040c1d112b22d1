CONSTANTS
  a = a
  b = b
  NoInstance = NoInstance
  Instances = {a}
  Priority <- MCPriority
  MaxRev = 2
  AcqSlots = {1}
  HbSlots = {1}
  VlSlots = {1}
  MaxRetries = 0
  MaxFailures = 1
  MaxInvalid = 1
  MaxHealthFailures = 1
  CasErrorClass = "permanent"
  Takeover = {}
  HealthChecked = {}
  Validated = {a}
  Stoppable = {a}
  Cancellable = {a}
  Monitored = {}
  Crashable = {}
  Faults <- MCFaults
  CommonFaults = {"stopTimeout", "failDelete", "failWatch", "expire"}
  FaultsOfA = {}
  FaultsOfB = {}
SPECIFICATION FairStopSpec
PROPERTIES
  ShutdownCompletes
CHECK_DEADLOCK FALSE
