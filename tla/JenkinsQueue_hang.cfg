CONSTANTS
  Job <- ChainJob
  Root = "r"
  NoJob = NoJob
  Parent <- ChainParent
  Ident <- ChainIdent
  Id <- ChainId
  RootId = "r"
  Downstream <- ChainDownstream
  OldBuilds <- ChainOld
  Results = {"SUCCESS"}
  MaxForeign = 0
  OptionSet <- PipelineOption
  Faults = {"initReset"}
  MaxFaults = 1
SPECIFICATION FairSpec
PROPERTIES Terminates
CHECK_DEADLOCK FALSE
