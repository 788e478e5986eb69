SPECIFICATION Spec
CONSTANTS
  Name = {a, b}
  MaxDepth = 2
  BlockSize = 2
  Lengths = {1, 2, 4}
  Writes <- MCWrites
  LinkTarget <- MCLinkTarget
  MaxCalls = 3
SYMMETRY Symmetry
INVARIANTS TypeOK NoOrphanBlocks BlocksMatchSize KeepsTheTree
PROPERTIES ImplementsFileStore
CHECK_DEADLOCK FALSE
