CONSTANTS
  Job <- KiteJob
  Root = "r"
  NoJob = NoJob
  Parent <- KiteParent
  Ident <- KiteIdent
  Id <- KiteId
  RootId = "r"
  Downstream <- KiteDownstream
  OldBuilds <- KiteOld
  Results = {"SUCCESS"}
  MaxForeign = 0
  OptionSet <- PipelineOption
  Faults = {}
  MaxFaults = 0
SPECIFICATION Spec
INVARIANTS JoinSound OneFollower CutBelow ConsoleExclusive LogsFlushed NeverThrows SuccessIsReal
PROPERTIES ImplementsTracking
CHECK_DEADLOCK FALSE
