CONSTANTS
  Job <- FanJob
  Root = "r"
  NoJob = NoJob
  Parent <- FanParent
  Ident <- FanIdent
  Id <- DiamondId
  RootId = "r"
  Downstream <- FanDownstream
  OldBuilds <- DiamondOld
  Results = {"SUCCESS"}
  MaxForeign = 0
  OptionSet <- PipelineOption
  Faults = {}
  MaxFaults = 0
SPECIFICATION Spec
INVARIANTS FailureIsReal
CONSTRAINT FastServer
CHECK_DEADLOCK FALSE
