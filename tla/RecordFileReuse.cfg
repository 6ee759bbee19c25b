\* One record page is enough: it is emptied twice, then filled.
CONSTANTS
  N = 2
  MaxPages = 3
  MaxCount = 4
  Value = {a}
  Zero = Zero
  Rollback = FALSE
SPECIFICATION Spec
PROPERTY ImplementsRecordStore
