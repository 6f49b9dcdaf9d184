CONSTANTS
  Worker = {w1, w2, w3}
  Times = 5
  BufferSize = 2
  MaxStarts = 2
  MaxTasks = 5
SPECIFICATION Spec
INVARIANT ServedInOrder
PROPERTIES TakesTurns Terminates
CHECK_DEADLOCK FALSE
