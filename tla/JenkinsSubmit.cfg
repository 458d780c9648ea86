CONSTANTS
  Faults = {"reset", "error", "badBody"}
  MaxFaults = 3
SPECIFICATION FairSpec
INVARIANTS SubmitTypeOK OrphansUnheard RootExecuting
PROPERTIES SubmitEnds
CHECK_DEADLOCK FALSE
