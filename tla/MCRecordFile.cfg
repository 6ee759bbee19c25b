\* Two record pages of two slots and every kind of call.  MaxCount leaves room for a
\* record that is counted twice or written behind the slots.
CONSTANTS
  N = 2
  MaxPages = 3
  MaxCount = 3
  Value = {a, b}
  Zero = Zero
  Rollback = TRUE
SYMMETRY Contents
SPECIFICATION Spec
INVARIANTS FreeListInFile ScanComplete ScanForward
PROPERTY InsertTakesFreeSlot
