\* Two frames for four pages in two files, two of them created on the way:
\* pages are evicted, come back, share a frame and are pinned by both clients.
CONSTANTS
  PoolSize = 2
  Fd = {fd1, fd2}
  MaxPages = 2
  InitPages = 1
  Client = {c1, c2}
  Value = {v1}
  Zero = zero
  Absent = absent
  NoPage = nopage
  Faults = {}
SYMMETRY Symmetry
SPECIFICATION Spec
INVARIANTS HeldPageStays PinCountsHolds NullOnlyWhenAllPinned CleanMatchesDisk AllocatedReadable
PROPERTY ImplementsPageStore
