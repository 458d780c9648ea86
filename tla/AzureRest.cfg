SPECIFICATION Spec
CONSTANTS
  VM = {m1, m2}
  Lister = lister
  MaxFaults = 2
  MaxEpoch = 2
  RetryCount = 2
  IgnoreTimeoutErrorThreshold = 1
INVARIANTS AzureTypeOK ActionIsReal EndsTogether ExpiryHarmless
PROPERTIES ReportsEventually
CHECK_DEADLOCK FALSE
