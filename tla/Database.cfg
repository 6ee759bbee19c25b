\* Two paths, two descriptors, three files in turn; files are destroyed while open
\* and opening fails.  It may stop: descriptors of files without header are never
\* closed, and there are two.
CONSTANTS
  Path = {p1, p2}
  MaxFd = 2
  MaxInode = 3
  MaxPages = 3
  Faults = {"destroy_open", "open_fails"}
SPECIFICATION SpecDatabase
INVARIANTS TablesHaveFiles HandlesOfTables OneDescriptorPerFile PagesNumberedOnce
CHECK_DEADLOCK FALSE
