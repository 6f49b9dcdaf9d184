CONSTANTS
  Prices = {1, 2}
  QtyMod = 4
  IdMod = 4
  ReuseIds = FALSE
  Reserve = 4
  MaxAdds = 4
SPECIFICATION Spec
INVARIANTS NotCrossed RecordInserts ListsWellFormed BestLevelsAgree
PROPERTIES PriceTimePriority ImplementsReferenceBook
