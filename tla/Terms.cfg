CONSTANTS
  a = a
  b = b
  NoInstance = NoInstance
  Instances = {a}
  Priority <- MCPriority
  MaxRev = 2
  AcqSlots = {1}
  HbSlots = {1, 2}
  VlSlots = {1, 2}
  MaxRetries = 0
  MaxFailures = 2
  MaxInvalid = 2
  MaxHealthFailures = 2
  CasErrorClass = "permanent"
  Takeover = {}
  HealthChecked = {a}
  Validated = {a}
  Stoppable = {}
  Cancellable = {}
  Monitored = {a}
  Crashable = {}
  Faults <- MCFaults
  CommonFaults = {"expire"}
  FaultsOfA = {}
  FaultsOfB = {}
SPECIFICATION Spec
INVARIANTS
  LeaderIsHeartbeating
  LeaderIsValidated
  RoleAgrees
