CONSTANTS
  limited = limited
  unlimited = unlimited
  direct = direct
  NoError = NoError
  NoCaller = NoCaller
  Callers = {limited, unlimited, direct}
  WithBreaker = {limited, unlimited}
  MaxAttempts <- MCMaxAttempts
  FailureThreshold = 2
  CooldownPeriod = 2
  Errors <- MCErrors
SPECIFICATION FairRetrySpec
INVARIANTS
  RetryTypeOK
  BreakerConsistent
PROPERTIES
  NoCallWhileTripped
  RetryReturns
