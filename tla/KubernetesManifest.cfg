CONSTANTS
  App = {a1, a2}
  Percentage = 30
  MaxRelease = 3
  MaxFaults = 2
SYMMETRY AppSymmetry
SPECIFICATION Spec
INVARIANTS ManifestTypeOK ManifestResultIsReal TrafficServed GradualExposure
PROPERTIES StableUpdatedUnloaded ReturnedWhenVerified RemovedUnloaded
CHECK_DEADLOCK FALSE
