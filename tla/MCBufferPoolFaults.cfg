\* The same pool on one file of three pages with everything that can go wrong.
CONSTANTS
  PoolSize = 2
  Fd = {fd1}
  MaxPages = 3
  InitPages = 2
  Client = {c1}
  Value = {v1}
  Zero = zero
  Absent = absent
  NoPage = nopage
  Faults = {"clean_new", "write_error", "refetch_deleted"}
SYMMETRY Symmetry
SPECIFICATION Spec
INVARIANTS TypeOK TableMatchesFrames OnlyUnpinnedEvictable
