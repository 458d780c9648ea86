CONSTANTS
  Machine = {m1, m2}
  NoMachine = NoMachine
  Location <- OneName
  MaxConnects = 2
  MaxRetrievals = 2
  MaxReconnects = 2
  Faults = {}
  MaxFaults = 0
  MaxDrops = 0
SPECIFICATION Spec
INVARIANTS EveryJobHeard
CHECK_DEADLOCK FALSE
