CONSTANTS
  N = 2
  Item = {a, b}
  Raw = Raw
  MaxPush = 5
SPECIFICATION Spec
INVARIANTS NoDataRace LifetimesRespected NoLeak
PROPERTY ImplementsBoundedFifo
CHECK_DEADLOCK FALSE
