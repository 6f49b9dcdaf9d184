CONSTANTS
  Thread = {t1, t2}
  Block = {b1}
  Null = Null
  MaxShared = 2
  MaxWeak = 2
  Aliased = FALSE
  TrackOrder = TRUE
SPECIFICATION Spec
INVARIANT NoDataRace
CHECK_DEADLOCK FALSE
