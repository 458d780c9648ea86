CONSTANTS
  Job <- DiamondJob
  Root = "r"
  NoJob = NoJob
  Parent <- DiamondParent
  Ident <- DiamondIdent
  Id <- DiamondId
  RootId = "r"
  Downstream <- DiamondDownstream
  OldBuilds <- DiamondOld
  Results = {"SUCCESS"}
  MaxForeign = 0
  OptionSet <- PipelineOption
  Faults = {"pollReset", "reportStatus"}
  MaxFaults = 1
SPECIFICATION FairSpec
PROPERTIES Terminates
CHECK_DEADLOCK FALSE
