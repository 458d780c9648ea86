CONSTANTS
  Job <- ChainJob
  Root = "r"
  NoJob = NoJob
  Parent <- ChainParent
  Ident <- ChainIdent
  Id <- ChainId
  RootId = "r"
  Downstream <- ChainDownstream
  OldBuilds <- ChainOld
  Results = {"SUCCESS", "UNSTABLE", "FAILURE"}
  MaxForeign = 1
  OptionSet <- AllOptions
  Faults = {"initReset", "initFail", "pollReset", "pollError", "streamStatus", "unauthorized", "finishStatus", "locateStatus", "reportError", "logEndsEarly"}
  MaxFaults = 1
SPECIFICATION Spec
INVARIANTS TypeOK SearchReady TrackSound SuccessIsReal FailureIsReal
CHECK_DEADLOCK FALSE
