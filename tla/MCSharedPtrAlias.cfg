CONSTANTS
  Thread = {t1}
  Block = {b1, b2}
  Null = Null
  MaxShared = 2
  MaxWeak = 2
  Aliased = TRUE
  TrackOrder = FALSE
SPECIFICATION Spec
INVARIANT HeldObjectsAlive
CHECK_DEADLOCK FALSE
