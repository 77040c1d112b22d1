CONSTANTS
  a = a
  b = b
  NoInstance = NoInstance
  Instances = {a}
  Priority <- MCPriority
  MaxRev = 1
  AcqSlots = {1}
  HbSlots = {1}
  VlSlots = {1}
  MaxRetries = 0
  MaxFailures = 1
  MaxInvalid = 1
  MaxHealthFailures = 1
  CasErrorClass = "permanent"
  Takeover = {}
  HealthChecked = {a}
  Validated = {}
  Stoppable = {}
  Cancellable = {a}
  Crashable = {a}
  Monitored = {a}
  Callbacks = {}
  Closable = {a}
  VfSlots = {1}
  MaxFlaps = 1
  Faults <- MCFaults
  OtherFaults = {"expire", "timeout"}
SPECIFICATION MFairSpec
PROPERTIES
  ElectionImplemented
  PartitionedLeaderStepsDown
CHECK_DEADLOCK FALSE
