CONSTANTS
  a = a
  b = b
  NoInstance = NoInstance
  Instances = {a}
  Priority <- MCPriority
  MaxRev = 2
  AcqSlots = {1}
  HbSlots = {1}
  VlSlots = {}
  MaxRetries = 0
  MaxFailures = 1
  MaxInvalid = 1
  MaxHealthFailures = 1
  CasErrorClass = "permanent"
  Takeover = {}
  HealthChecked = {}
  Validated = {}
  Stoppable = {}
  Cancellable = {}
  Crashable = {}
  Monitored = {a}
  Callbacks = {a}
  Closable = {}
  VfSlots = {1}
  MaxFlaps = 1
  Faults <- MCFaults
  OtherFaults = {}
SPECIFICATION MSpec
PROPERTIES
  LossIsAnnounced
CHECK_DEADLOCK FALSE
