CONSTANTS
  a = a
  b = b
  NoInstance = NoInstance
  Instances = {a, b}
  Priority <- MCPriority
  MaxRev = 3
  AcqSlots = {1, 2}
  HbSlots = {1}
  VlSlots = {}
  MaxRetries = 0
  MaxFailures = 1
  MaxInvalid = 1
  MaxHealthFailures = 1
  CasErrorClass = "permanent"
  Takeover = {b}
  HealthChecked = {}
  Validated = {}
  Stoppable = {}
  Cancellable = {}
  Monitored = {}
  Crashable = {a, b}
  Faults <- MCFaults
  CommonFaults = {}
  FaultsOfA = {"timeout"}
  FaultsOfB = {"lostAck", "timeout"}
SPECIFICATION Spec
INVARIANTS
  TypeOK
  FencingTokenExclusive
PROPERTIES
  TakeoverOnlyStrictlyHigher
  LeaseRefined
