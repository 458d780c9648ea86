CONSTANTS
  Machine = {m1, m2}
  NoMachine = NoMachine
  Location <- TwoNames
  MaxConnects = 2
  MaxRetrievals = 2
  MaxReconnects = 2
  Faults = {"connect", "invoke", "getJob", "reconnect", "break"}
  MaxFaults = 2
  MaxDrops = 2
SPECIFICATION FairSpec
INVARIANTS RemoteTypeOK FinishedCollected SuccessIsComplete EveryJobHeard
PROPERTIES CollectionEnds
CHECK_DEADLOCK FALSE
