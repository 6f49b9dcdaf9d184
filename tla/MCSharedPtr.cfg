CONSTANTS
  Thread = {t1, t2}
  Block = {b1, b2}
  Null = Null
  MaxShared = 3
  MaxWeak = 2
  Aliased = FALSE
  TrackOrder = FALSE
SPECIFICATION Spec
INVARIANTS HeldObjectsAlive NoUseAfterFree NoLeak CountsExact
PROPERTY NoResurrection
CHECK_DEADLOCK FALSE
