\* Keys below the first separator may be inserted.
CONSTANTS
  Instances <- AnyOrder
  btree_order = 3
  MaxPage = 13
  Garbage = {0}
  Faults = {"small"}
SPECIFICATION Spec
PROPERTY ImplementsIndexMap
