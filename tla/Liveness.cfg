CONSTANTS
  a = a
  b = b
  NoInstance = NoInstance
  Instances = {a, b}
  Priority <- MCPriority
  MaxRev = 2
  AcqSlots = {1}
  HbSlots = {1}
  VlSlots = {}
  MaxRetries = 0
  MaxFailures = 2
  MaxInvalid = 1
  MaxHealthFailures = 1
  CasErrorClass = "transient"
  Takeover = {}
  HealthChecked = {}
  Validated = {}
  Stoppable = {}
  Cancellable = {}
  Monitored = {}
  Crashable = {}
  Faults <- MCFaults
  CommonFaults = {"expire"}
  FaultsOfA = {}
  FaultsOfB = {}
SPECIFICATION FairSpec
INVARIANTS
  FollowerIsWatching
PROPERTIES
  StaleLeaderStepsDown
  KeyIsReclaimed
