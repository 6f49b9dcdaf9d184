CONSTANTS
  Vec = {v, w}
  Item = {a, d}
  Default = d
  Moved = Moved
  Raw = Raw
  Null = Null
  Buf = Buf
  Lost = Lost
  Data = Data
  Absent = Absent
  MaxCapacity = 4
  InlineSize = 3
  Blocks = 3
  Capacity = 7
  Bases = {8, 12}
  Alignments = {1, 2, 8}
  MaxObjects = 3
  MaxObservers = 4
  MaxEmits = 3
  Unguarded = FALSE
SPECIFICATION Spec
INVARIANT StorageOwned
INVARIANT BlocksAccounted
INVARIANT EmitsRegistered
PROPERTY ImplementsElementSequences
VIEW View
SYMMETRY Symmetry
