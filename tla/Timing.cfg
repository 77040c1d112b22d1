CONSTANTS
  Configs <- MCConfigs
  Second = 2
  HealthTimeout = 1
  GetTimeout = 2
  Latency = 1
  MaxFailures = 3
SPECIFICATION TimingSpec
INVARIANTS
  TimingTypeOK
  RenewedOrDemoted
  OneMissIsSurvived
CHECK_DEADLOCK FALSE
