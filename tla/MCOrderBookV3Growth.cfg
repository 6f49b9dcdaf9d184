CONSTANTS
  Prices = {1, 2}
  QtyMod = 4
  IdMod = 4
  Reserve = 1
  MaxAdds = 4
SPECIFICATION Spec
INVARIANT BestLevelsAgree
