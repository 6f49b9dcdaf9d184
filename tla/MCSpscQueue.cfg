CONSTANTS
  N = 2
  Item = {a, b}
  Moved = Moved
  MaxPush = 4
SPECIFICATION FairSpec
INVARIANT NoDataRace
PROPERTIES ImplementsBoundedFifo FailsOnlyWhenFull EventuallyDelivered
