\* Six keys in any order, eight in ascending order; nodes of at most three pairs
\* once an operation is over.
CONSTANTS
  Instances <- AnyAndAscending
  btree_order = 3
  MaxPage = 14
  Garbage = {0}
  Faults = {}
SPECIFICATION Spec
INVARIANTS TreeShape LeavesInOrder BoundsOfFoundKeys ScanCovers
PROPERTY ImplementsIndexMap
