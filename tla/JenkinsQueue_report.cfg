CONSTANTS
  Job <- ChainJob
  Root = "r"
  NoJob = NoJob
  Parent <- ChainParent
  Ident <- ChainIdent
  Id <- ChainId
  RootId = "r"
  Downstream <- ChainDownstream
  OldBuilds <- ChainOld
  Results = {"SUCCESS", "FAILURE"}
  MaxForeign = 0
  OptionSet <- PipelineOption
  Faults = {"reportStatus"}
  MaxFaults = 1
SPECIFICATION Spec
INVARIANTS SuccessIsReal
CHECK_DEADLOCK FALSE
