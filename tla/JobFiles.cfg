SPECIFICATION Spec
CONSTANTS
  Steps = 5
  MaxFaults = 2
  SshStep <- MCSshStep
  NpmStep <- MCNpmStep
  NpmFile = {f1, f2}
SYMMETRY FileSymmetry
INVARIANTS JobTypeOK HomeRestored SessionClean OriginalsKept NpmrcRestored
CHECK_DEADLOCK FALSE
