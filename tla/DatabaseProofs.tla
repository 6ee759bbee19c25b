--------------------------- MODULE DatabaseProofs ---------------------------
(***************************************************************************)
(* The invariants of the file table and of the tables over it, for any     *)
(* paths and bounds and with every fault.                                  *)
(***************************************************************************)
EXTENDS Database, FiniteSetTheorems, WellFoundedInduction, TLAPS

\* What Restrict leaves of a map.
LEMMA RestrictLemma ==
  ASSUME NEW f, NEW S
  PROVE  DOMAIN Restrict(f, S) = S /\ \A y \in S : Restrict(f, S)[y] = f[y]
  BY DEF Restrict

\* A set of numbers that is not empty has a least one.
LEMMA MinLemma ==
  ASSUME NEW S \in SUBSET Nat, S # {}
  PROVE  Min(S) \in S
<1> DEFINE R == {ss \in Nat \X Nat : ss[1] < ss[2]}
<1>1. IsWellFoundedOn(R, Nat)
  BY NatLessThanWellFounded, Zenon DEF OpToRel
<1>2. PICK x \in S : \A y \in S : <<y, x>> \notin R
  <2> HIDE DEF R
  <2> QED
    BY <1>1, WFMin, ZenonT(30)
<1>3. ASSUME NEW y \in S PROVE x =< y
  <2>1. <<y, x>> \in Nat \X Nat /\ <<y, x>>[1] = y /\ <<y, x>>[2] = x
    OBVIOUS
  <2>2. ~ (y < x)
    BY <1>2, <2>1
  <2> QED
    BY <2>2
<1> QED
  BY <1>3, ZenonT(30) DEF Min

\* open(2) gives a descriptor that is not in use.
LEMMA LowestFdLemma ==
  ASSUME FreeFds # {}
  PROVE  LowestFd \in Fd /\ LowestFd \notin DOMAIN opened
<1>1. FreeFds \in SUBSET Nat
  BY FileTableAssumption DEF FreeFds, Fd
<1>2. LowestFd \in FreeFds
  BY <1>1, MinLemma DEF LowestFd
<1> QED
  BY <1>2 DEF FreeFds
-----------------------------------------------------------------------------
\* The files: those there have ever been are numbered 1, 2, ...; a name or a
\* descriptor stands for one of them.
FilesInv ==
  /\ \E n \in Nat : DOMAIN disk_pages = 1..n
  /\ \A path \in DOMAIN directory : directory[path] \in DOMAIN disk_pages
  /\ \A fd \in DOMAIN opened : fd \in Fd /\ opened[fd] \in DOMAIN disk_pages
  /\ DOMAIN fd2path_ = DOMAIN opened
  /\ \A p1, p2 \in DOMAIN directory : directory[p1] = directory[p2] => p1 = p2

\* A file that still has its name is open under that name: without it a file whose
\* path was removed from path2fd_ could be opened a second time.
OpenedByName ==
  \A fd \in DOMAIN opened : \A path \in DOMAIN directory :
    directory[path] = opened[fd] => fd2path_[fd] = path

FileTableInv == FilesInv /\ OpenedByName /\ TablesInverse /\ OneDescriptorPerFile

\* The number a new file gets is new.
LEMMA NewInodeLemma ==
  ASSUME FilesInv
  PROVE  NewInode \notin DOMAIN disk_pages
         /\ \E n \in Nat : DOMAIN disk_pages \cup {NewInode} = 1..n
<1>1. PICK n \in Nat : DOMAIN disk_pages = 1..n
  BY DEF FilesInv
<1>2. Cardinality(1..n) = n
  BY <1>1, FS_Interval
<1>3. NewInode = n + 1
  BY <1>1, <1>2 DEF NewInode
<1>4. 1..n \cup {n + 1} = 1..(n + 1) /\ n + 1 \in Nat
  OBVIOUS
<1> QED
  BY <1>1, <1>3, <1>4

LEMMA CreatedKeeps ==
  ASSUME FileTableInv, NEW path, NEW header, ~ is_file(path), Created(path, header)
  PROVE  FileTableInv'
<1> USE DEF FileTableInv
<1>1. /\ NewInode \notin DOMAIN disk_pages
      /\ \E n \in Nat : DOMAIN disk_pages \cup {NewInode} = 1..n
  BY NewInodeLemma
<1>2. /\ DOMAIN directory' = DOMAIN directory \cup {path} /\ directory'[path] = NewInode
      /\ \A p \in DOMAIN directory : directory'[p] = directory[p]
      /\ DOMAIN disk_pages' = DOMAIN disk_pages \cup {NewInode}
  BY DEF Created, is_file, Put
<1>3. UNCHANGED <<opened, path2fd_, fd2path_>>
  BY DEF Created
<1>4. FilesInv'
  BY <1>1, <1>2, <1>3 DEF FilesInv
<1>5. OpenedByName'
  BY <1>1, <1>2, <1>3 DEF OpenedByName, FilesInv
<1>6. TablesInverse' /\ OneDescriptorPerFile'
  BY <1>3 DEF TablesInverse, OneDescriptorPerFile
<1> QED
  BY <1>4, <1>5, <1>6

LEMMA OpenKeeps ==
  ASSUME FileTableInv, NEW path, open_file(path)
  PROVE  FileTableInv'
<1> DEFINE fd == LowestFd
           i == directory[path]
<1> USE DEF FileTableInv
<1>1. fd \in Fd /\ fd \notin DOMAIN opened
  BY LowestFdLemma DEF open_file
<1>2. path \in DOMAIN directory /\ path \notin DOMAIN path2fd_
  BY DEF open_file, CanOpen, is_file
<1>3. /\ opened' = Put(opened, fd, i) /\ path2fd_' = Put(path2fd_, path, fd)
      /\ fd2path_' = Put(fd2path_, fd, path) /\ UNCHANGED <<directory, disk_pages>>
  BY DEF open_file
<1> HIDE DEF fd, i
<1>4. /\ DOMAIN opened' = DOMAIN opened \cup {fd} /\ opened'[fd] = i
      /\ \A d \in DOMAIN opened : opened'[d] = opened[d]
  BY <1>1, <1>3 DEF Put
<1>5. /\ DOMAIN path2fd_' = DOMAIN path2fd_ \cup {path} /\ path2fd_'[path] = fd
      /\ \A p \in DOMAIN path2fd_ : path2fd_'[p] = path2fd_[p]
  BY <1>2, <1>3 DEF Put
<1>6. /\ DOMAIN fd2path_' = DOMAIN fd2path_ \cup {fd} /\ fd2path_'[fd] = path
      /\ \A d \in DOMAIN fd2path_ : fd2path_'[d] = fd2path_[d]
  BY <1>1, <1>3 DEF FilesInv, Put
<1>7. \A d \in DOMAIN opened : opened[d] # i
  BY <1>2 DEF OpenedByName, TablesInverse, FilesInv, i
<1>8. FilesInv'
  BY <1>1, <1>2, <1>3, <1>4, <1>6 DEF FilesInv, i
<1>9. OpenedByName'
  BY <1>2, <1>3, <1>4, <1>6 DEF OpenedByName, FilesInv, i
<1>10. TablesInverse'
  BY <1>1, <1>2, <1>5, <1>6 DEF TablesInverse, FilesInv
<1>11. OneDescriptorPerFile'
  BY <1>4, <1>7 DEF OneDescriptorPerFile
<1> QED
  BY <1>8, <1>9, <1>10, <1>11

LEMMA CloseKeeps ==
  ASSUME FileTableInv, NEW fd \in DOMAIN opened, close_file(fd)
  PROVE  FileTableInv'
<1> USE DEF FileTableInv
<1>1. /\ DOMAIN opened' = DOMAIN opened \ {fd}
      /\ \A d \in DOMAIN opened' : opened'[d] = opened[d]
  BY RestrictLemma DEF close_file
<1>2. /\ DOMAIN path2fd_' = DOMAIN path2fd_ \ {fd2path_[fd]}
      /\ \A p \in DOMAIN path2fd_' : path2fd_'[p] = path2fd_[p]
  BY RestrictLemma DEF close_file, PathsAfterClose
<1>3. /\ DOMAIN fd2path_' = DOMAIN fd2path_ \ {fd}
      /\ \A d \in DOMAIN fd2path_' : fd2path_'[d] = fd2path_[d]
  BY RestrictLemma DEF close_file, FdsAfterClose
<1>4. directory' = directory /\ DOMAIN disk_pages' = DOMAIN disk_pages
  BY DEF close_file
<1>5. FilesInv'
  BY <1>1, <1>3, <1>4 DEF FilesInv
<1>6. OpenedByName' /\ OneDescriptorPerFile'
  BY <1>1, <1>3, <1>4 DEF OpenedByName, OneDescriptorPerFile, FilesInv
<1>7. TablesInverse'
  BY <1>2, <1>3 DEF TablesInverse, FilesInv
<1> QED
  BY <1>5, <1>6, <1>7

LEMMA DestroyKeeps ==
  ASSUME FileTableInv, NEW path, destroy_file(path)
  PROVE  FileTableInv'
<1> USE DEF FileTableInv
<1>1. /\ DOMAIN directory' = DOMAIN directory \ {path}
      /\ \A p \in DOMAIN directory' : directory'[p] = directory[p]
  BY RestrictLemma DEF destroy_file
<1>2. UNCHANGED <<opened, path2fd_, fd2path_, disk_pages>>
  BY DEF destroy_file
<1> QED
  BY <1>1, <1>2 DEF FilesInv, OpenedByName, TablesInverse, OneDescriptorPerFile

LEMMA PagesKeep ==
  ASSUME FileTableInv, UNCHANGED <<directory, opened, path2fd_, fd2path_, disk_pages>>
  PROVE  FileTableInv'
  BY DEF FileTableInv, FilesInv, OpenedByName, TablesInverse, OneDescriptorPerFile

\* Every step of the database keeps the file table in order.
LEMMA StepKeepsFiles ==
  ASSUME FileTableInv, [NextDatabase]_allvars
  PROVE  FileTableInv'
<1>1. ASSUME NEW path, create_file(path) PROVE FileTableInv'
  BY <1>1, CreatedKeeps DEF create_file
<1>2. ASSUME NEW tab, create_table(tab) PROVE FileTableInv'
  BY <1>1, <1>2, CreatedKeeps DEF create_table
<1>3. ASSUME NEW tab, open_table(tab) PROVE FileTableInv'
  BY <1>3, OpenKeeps, PagesKeep DEF open_table, OpenThrows, vars
<1>4. ASSUME NEW fd, NewPage(fd) \/ \E p \in 1..MaxPages : FetchPage(fd, p) PROVE FileTableInv'
  BY <1>4, PagesKeep DEF NewPage, FetchPage
<1>5. ASSUME NEW c, Evict(c) PROVE FileTableInv'
  BY <1>5, PagesKeep DEF Evict
<1>6. CASE OtherFiles
  BY <1>1, <1>4, <1>5, <1>6, OpenKeeps, CloseKeeps, DestroyKeeps DEF OtherFiles
<1>7. CASE UNCHANGED allvars
  BY <1>7, PagesKeep DEF allvars, vars
<1> QED
  BY <1>2, <1>3, <1>6, <1>7 DEF NextDatabase

LEMMA InitFiles == InitDatabase => FileTableInv
<1> SUFFICES ASSUME InitDatabase PROVE FileTableInv
  OBVIOUS
<1>1. /\ DOMAIN directory = {} /\ DOMAIN opened = {} /\ DOMAIN path2fd_ = {}
      /\ DOMAIN fd2path_ = {} /\ DOMAIN disk_pages = {}
  BY DEF InitDatabase, Init, Empty
<1>2. {} = 1..0
  OBVIOUS
<1> QED
  BY <1>1, <1>2 DEF FileTableInv, FilesInv, OpenedByName, TablesInverse, OneDescriptorPerFile

\* Whatever is destroyed while it is open, created again, or fails to open:
\* path2fd_ and fd2path_ stay inverse, and no file is open under two descriptors.
THEOREM FilesOpenOnce == SpecDatabase => [](TablesInverse /\ OneDescriptorPerFile)
<1>1. FileTableInv /\ [NextDatabase]_allvars => FileTableInv'
  BY StepKeepsFiles
<1>2. FileTableInv => TablesInverse /\ OneDescriptorPerFile
  BY DEF FileTableInv
<1> QED
  BY InitFiles, <1>1, <1>2, PTL DEF SpecDatabase
-----------------------------------------------------------------------------
\* The table in create_table has its file, with a header.
CreatingHasFile == \A tab \in creating : is_file(tab) /\ disk_pages[directory[tab]] # 0

TablesInv == TablesHaveFiles /\ HandlesOfTables /\ CreatingHasFile

\* A new file leaves the files there are alone.
LEMMA CreatedFacts ==
  ASSUME FileTableInv, NEW path, NEW header, ~ is_file(path), Created(path, header)
  PROVE  /\ DOMAIN directory' = DOMAIN directory \cup {path}
         /\ \A p \in DOMAIN directory :
              directory'[p] = directory[p] /\ disk_pages'[directory'[p]] = disk_pages[directory[p]]
         /\ disk_pages'[directory'[path]] = header
         /\ UNCHANGED <<opened, fd2path_>>
<1>1. NewInode \notin DOMAIN disk_pages
  BY NewInodeLemma DEF FileTableInv
<1>2. /\ DOMAIN directory' = DOMAIN directory \cup {path} /\ directory'[path] = NewInode
      /\ \A p \in DOMAIN directory : directory'[p] = directory[p]
  BY DEF Created, is_file, Put
<1>3. /\ disk_pages'[NewInode] = header
      /\ \A i \in DOMAIN disk_pages : disk_pages'[i] = disk_pages[i]
  BY <1>1 DEF Created, Put
<1> QED
  BY <1>2, <1>3 DEF Created, FileTableInv, FilesInv

LEMMA CreatedKeepsTables ==
  ASSUME FileTableInv, TablesInv, NEW path, NEW header, ~ is_file(path), Created(path, header),
         UNCHANGED <<tabs_, fhs_>>,
         \A tab \in creating' : tab \in creating \/ (tab = path /\ header # 0)
  PROVE  TablesInv'
<1>1. /\ DOMAIN directory' = DOMAIN directory \cup {path}
      /\ \A p \in DOMAIN directory :
           directory'[p] = directory[p] /\ disk_pages'[directory'[p]] = disk_pages[directory[p]]
      /\ disk_pages'[directory'[path]] = header
      /\ UNCHANGED <<opened, fd2path_>>
  BY CreatedFacts, SMTT(30)
<1>2. TablesHaveFiles'
  BY <1>1 DEF TablesInv, TablesHaveFiles, is_file
<1>3. CreatingHasFile'
  BY <1>1 DEF TablesInv, CreatingHasFile, is_file
<1>4. HandlesOfTables'
  BY <1>1 DEF TablesInv, TablesHaveFiles, HandlesOfTables, is_file
<1> QED
  BY <1>2, <1>3, <1>4 DEF TablesInv

\* Opening adds a descriptor and leaves the open ones alone.
LEMMA OpenFacts ==
  ASSUME FileTableInv, NEW path, open_file(path)
  PROVE  /\ LowestFd \in DOMAIN opened' /\ opened'[LowestFd] = directory[path]
         /\ fd2path_'[LowestFd] = path
         /\ \A d \in DOMAIN opened :
              d \in DOMAIN opened' /\ opened'[d] = opened[d] /\ fd2path_'[d] = fd2path_[d]
         /\ UNCHANGED <<directory, disk_pages>>
<1>1. LowestFd \notin DOMAIN opened
  BY LowestFdLemma DEF open_file
<1>2. DOMAIN fd2path_ = DOMAIN opened
  BY DEF FileTableInv, FilesInv
<1> QED
  BY <1>1, <1>2 DEF open_file, Put

LEMMA OpenTableKeepsTables ==
  ASSUME FileTableInv, TablesInv, NEW tab, open_table(tab)
  PROVE  TablesInv'
<1>1. is_file(tab) /\ disk_pages[directory[tab]] # 0 /\ tab \in tabs_' /\ tabs_' = tabs_ \cup {tab}
      /\ creating' = {}
  BY DEF open_table, TablesInv, CreatingHasFile
<1>2. CASE OpenThrows(tab)
  BY <1>1, <1>2 DEF OpenThrows, vars, TablesInv, TablesHaveFiles, HandlesOfTables,
                   CreatingHasFile, is_file
<1>3. CASE open_file(tab) /\ fhs_' = Put(fhs_, tab, LowestFd)
  <2>1. /\ DOMAIN fhs_' = DOMAIN fhs_ \cup {tab} /\ fhs_'[tab] = LowestFd
        /\ \A t \in DOMAIN fhs_ : t # tab => fhs_'[t] = fhs_[t]
    BY <1>3 DEF Put
  <2>2. UNCHANGED <<directory, disk_pages>>
    BY <1>3, OpenFacts
  <2>3. TablesHaveFiles' /\ CreatingHasFile'
    BY <1>1, <2>2 DEF TablesInv, TablesHaveFiles, CreatingHasFile, is_file
  <2>4. HandlesOfTables'
    BY <1>1, <1>3, <2>1, OpenFacts DEF TablesInv, HandlesOfTables
  <2> QED
    BY <2>3, <2>4 DEF TablesInv
<1> QED
  BY <1>2, <1>3 DEF open_table

LEMMA OpenOtherKeepsTables ==
  ASSUME FileTableInv, TablesInv, NEW path, open_file(path), UNCHANGED smvars
  PROVE  TablesInv'
  BY OpenFacts DEF smvars, TablesInv, TablesHaveFiles, HandlesOfTables, CreatingHasFile, is_file

LEMMA CloseKeepsTables ==
  ASSUME FileTableInv, TablesInv, NEW fd \in DOMAIN opened, fd2path_[fd] \notin tabs_,
         close_file(fd), UNCHANGED smvars
  PROVE  TablesInv'
<1>1. /\ DOMAIN opened' = DOMAIN opened \ {fd}
      /\ \A d \in DOMAIN opened' : opened'[d] = opened[d] /\ fd2path_'[d] = fd2path_[d]
  BY DEF close_file, FdsAfterClose, Restrict, FileTableInv, FilesInv
<1>2. directory' = directory
  BY DEF close_file
<1>3. \A i \in DOMAIN disk_pages : disk_pages[i] # 0 => disk_pages'[i] # 0
  BY DEF close_file
<1>4. TablesHaveFiles' /\ CreatingHasFile'
  BY <1>2, <1>3 DEF smvars, TablesInv, TablesHaveFiles, CreatingHasFile, is_file,
                    FileTableInv, FilesInv
<1>5. HandlesOfTables'
  BY <1>1, <1>2 DEF smvars, TablesInv, HandlesOfTables
<1> QED
  BY <1>4, <1>5 DEF TablesInv

LEMMA DestroyKeepsTables ==
  ASSUME TablesInv, NEW path, path \notin tabs_, creating = {}, destroy_file(path),
         UNCHANGED smvars
  PROVE  TablesInv'
<1>1. /\ DOMAIN directory' = DOMAIN directory \ {path}
      /\ \A p \in DOMAIN directory' : directory'[p] = directory[p]
      /\ UNCHANGED <<opened, fd2path_, disk_pages>>
  BY DEF destroy_file, Restrict
<1>2. TablesHaveFiles' /\ CreatingHasFile'
  BY <1>1 DEF smvars, TablesInv, TablesHaveFiles, CreatingHasFile, is_file
<1>3. HandlesOfTables'
  BY <1>1 DEF smvars, TablesInv, TablesHaveFiles, HandlesOfTables, is_file
<1> QED
  BY <1>2, <1>3 DEF TablesInv

LEMMA SameFilesKeepTables ==
  ASSUME TablesInv, UNCHANGED <<directory, opened, fd2path_, disk_pages>>, UNCHANGED smvars
  PROVE  TablesInv'
  BY DEF smvars, TablesInv, TablesHaveFiles, HandlesOfTables, CreatingHasFile, is_file

\* A table that is listed has its file, and a handle is open on the file of its table,
\* whatever failed while it or another was created: SmManager never uses the
\* descriptor of one table for another.
THEOREM TablesUsable == SpecDatabase => [](TablesHaveFiles /\ HandlesOfTables)
<1>1. InitDatabase => TablesInv
  BY DEF InitDatabase, Empty, TablesInv, TablesHaveFiles, HandlesOfTables, CreatingHasFile
<1>2. FileTableInv /\ TablesInv /\ [NextDatabase]_allvars => TablesInv'
  <2> SUFFICES ASSUME FileTableInv, TablesInv, [NextDatabase]_allvars PROVE TablesInv'
    OBVIOUS
  <2>1. ASSUME NEW tab, create_table(tab) PROVE TablesInv'
    <3>1. CASE create_file(tab) /\ AfterCreateFile(tab)
      <4> DEFINE header == IF CanOpenNew(tab) THEN 1 ELSE 0
      <4>1. ~ is_file(tab) /\ Created(tab, header) /\ UNCHANGED <<tabs_, fhs_>>
        BY <3>1 DEF create_file, AfterCreateFile
      <4>2. \A t \in creating' : t = tab /\ header # 0
        BY <3>1 DEF AfterCreateFile
      <4> HIDE DEF header
      <4> QED
        BY <4>1, <4>2, CreatedKeepsTables
    <3>2. CASE ~ is_file(tab) /\ Created(tab, 0) /\ UNCHANGED smvars
      <4> DEFINE header == 0
      <4>1. ~ is_file(tab) /\ Created(tab, header) /\ UNCHANGED <<tabs_, fhs_>>
        BY <3>2 DEF smvars
      <4>2. \A t \in creating' : t \in creating \/ (t = tab /\ header # 0)
        BY <3>2 DEF smvars
      <4> HIDE DEF header
      <4> QED
        BY <4>1, <4>2, CreatedKeepsTables
    <3> QED
      BY <2>1, <3>1, <3>2 DEF create_table
  <2>2. CASE OtherFiles
    <3>1. UNCHANGED smvars /\ creating = {}
      BY <2>2 DEF OtherFiles
    <3>2. ASSUME NEW path, create_file(path) PROVE TablesInv'
      <4> DEFINE header == IF CanOpenNew(path) THEN 1 ELSE 0
      <4>1. ~ is_file(path) /\ Created(path, header) /\ UNCHANGED <<tabs_, fhs_>>
        BY <3>1, <3>2 DEF create_file, smvars
      <4>2. \A t \in creating' : t \in creating \/ (t = path /\ header # 0)
        BY <3>1 DEF smvars
      <4> HIDE DEF header
      <4> QED
        BY <4>1, <4>2, CreatedKeepsTables
    <3>3. ASSUME NEW fd, NewPage(fd) \/ \E p \in 1..MaxPages : FetchPage(fd, p) PROVE TablesInv'
      BY <3>1, <3>3, SameFilesKeepTables DEF NewPage, FetchPage
    <3>4. ASSUME NEW c, Evict(c) PROVE TablesInv'
      BY <3>1, <3>4, SameFilesKeepTables DEF Evict
    <3> QED
      BY <2>2, <3>1, <3>2, <3>3, <3>4, OpenOtherKeepsTables, CloseKeepsTables,
         DestroyKeepsTables DEF OtherFiles
  <2>3. CASE UNCHANGED allvars
    BY <2>3, SameFilesKeepTables DEF allvars, vars
  <2> QED
    BY <2>1, <2>2, <2>3, OpenTableKeepsTables DEF NextDatabase
<1>3. FileTableInv /\ [NextDatabase]_allvars => FileTableInv'
  BY StepKeepsFiles
<1>4. TablesInv => TablesHaveFiles /\ HandlesOfTables
  BY DEF TablesInv
<1> QED
  BY InitFiles, <1>1, <1>2, <1>3, <1>4, PTL DEF SpecDatabase

\* A handle is open on the file of its table.
THEOREM HandlesRight == SpecDatabase => []HandlesOfTables
  BY TablesUsable, PTL

\* A table that is listed has its file.
THEOREM FilesOfTables == SpecDatabase => []TablesHaveFiles
  BY TablesUsable, PTL
-----------------------------------------------------------------------------
\* Page counts are numbers, one for each descriptor and for each file.
PagesInv ==
  /\ num_pages \in [Fd -> Nat] /\ fd2pageno_ \in [Fd -> Nat]
  /\ DOMAIN allocated = DOMAIN disk_pages
  /\ \A i \in DOMAIN disk_pages : disk_pages[i] \in Nat
  /\ PagesNumberedOnce

LEMMA CreatedKeepsPages ==
  ASSUME FileTableInv, PagesInv, NEW path, NEW header \in {0, 1}, Created(path, header)
  PROVE  PagesInv'
<1>1. NewInode \notin DOMAIN disk_pages
  BY NewInodeLemma DEF FileTableInv
<1>2. /\ DOMAIN disk_pages' = DOMAIN disk_pages \cup {NewInode}
      /\ disk_pages'[NewInode] = header
      /\ \A i \in DOMAIN disk_pages : disk_pages'[i] = disk_pages[i]
  BY <1>1 DEF Created, Put
<1>3. /\ DOMAIN allocated' = DOMAIN disk_pages' /\ allocated'[NewInode] = {}
      /\ \A i \in DOMAIN disk_pages : allocated'[i] = allocated[i]
  BY <1>1, <1>2 DEF Created, Put, PagesInv
<1>4. UNCHANGED <<opened, num_pages, fd2pageno_>>
  BY DEF Created
<1>5. {} = 1..(header - 1)
  OBVIOUS
<1>6. ASSUME NEW fd \in DOMAIN opened', num_pages'[fd] # 0
      PROVE  allocated'[opened'[fd]] = 1..(num_pages'[fd] - 1) /\ fd2pageno_'[fd] = num_pages'[fd]
  <2>1. opened[fd] \in DOMAIN disk_pages
    BY <1>4, <1>6 DEF FileTableInv, FilesInv
  <2> QED
    BY <1>3, <1>4, <1>6, <2>1 DEF PagesInv, PagesNumberedOnce
<1>7. ASSUME NEW i \in DOMAIN disk_pages' \ Range(opened')
      PROVE  allocated'[i] = 1..(disk_pages'[i] - 1)
  <2>1. CASE i = NewInode
    BY <1>2, <1>3, <1>5, <2>1, ZenonT(30)
  <2>2. CASE i # NewInode
    BY <1>2, <1>3, <1>4, <1>7, <2>2 DEF PagesInv, PagesNumberedOnce
  <2> QED
    BY <2>1, <2>2
<1>8. PagesNumberedOnce'
  BY <1>6, <1>7 DEF PagesNumberedOnce
<1> QED
  BY <1>2, <1>3, <1>4, <1>8 DEF PagesInv

LEMMA OpenKeepsPages ==
  ASSUME FileTableInv, PagesInv, NEW path, open_file(path)
  PROVE  PagesInv'
<1> DEFINE fd == LowestFd
           i == directory[path]
<1>1. fd \in Fd /\ fd \notin DOMAIN opened
  BY LowestFdLemma DEF open_file
<1>2. path \in DOMAIN directory /\ path \notin DOMAIN path2fd_
  BY DEF open_file, CanOpen, is_file
<1>3. /\ opened' = Put(opened, fd, i) /\ num_pages' = [num_pages EXCEPT ![fd] = disk_pages[i]]
      /\ fd2pageno_' = PageNumbers(fd, i) /\ UNCHANGED <<disk_pages, allocated>>
  BY DEF open_file
<1>4. \A d \in DOMAIN opened : opened[d] # i
  BY <1>2 DEF FileTableInv, OpenedByName, TablesInverse, FilesInv
<1>5. i \in DOMAIN disk_pages /\ disk_pages[i] \in Nat
  BY <1>2 DEF FileTableInv, FilesInv, PagesInv
<1> HIDE DEF fd, i
<1>6. /\ DOMAIN opened' = DOMAIN opened \cup {fd} /\ opened'[fd] = i
      /\ \A d \in DOMAIN opened : opened'[d] = opened[d]
  BY <1>1, <1>3 DEF Put
<1>7. /\ num_pages' \in [Fd -> Nat] /\ num_pages'[fd] = disk_pages[i]
      /\ \A d \in Fd \ {fd} : num_pages'[d] = num_pages[d]
  BY <1>1, <1>3, <1>5 DEF PagesInv
<1>8. /\ fd2pageno_' \in [Fd -> Nat]
      /\ disk_pages[i] # 0 => fd2pageno_'[fd] = disk_pages[i]
      /\ \A d \in Fd \ {fd} : fd2pageno_'[d] = fd2pageno_[d]
  BY <1>1, <1>3, <1>5 DEF PagesInv, PageNumbers
<1>9. allocated[i] = 1..(disk_pages[i] - 1)
  BY <1>4, <1>5 DEF PagesInv, PagesNumberedOnce, Range
<1>10. ASSUME NEW d \in DOMAIN opened', num_pages'[d] # 0
       PROVE  allocated'[opened'[d]] = 1..(num_pages'[d] - 1) /\ fd2pageno_'[d] = num_pages'[d]
  <2>1. CASE d = fd
    BY <1>3, <1>6, <1>7, <1>8, <1>9, <1>10, <2>1
  <2>2. CASE d # fd
    <3>1. d \in DOMAIN opened /\ d \in Fd
      BY <1>6, <1>10, <2>2 DEF FileTableInv, FilesInv
    <3> QED
      BY <1>3, <1>6, <1>7, <1>8, <1>10, <2>2, <3>1 DEF PagesInv, PagesNumberedOnce
  <2> QED
    BY <2>1, <2>2
<1>11. Range(opened) \subseteq Range(opened')
  BY <1>6, SMTT(30) DEF Range
<1>12. PagesNumberedOnce'
  BY <1>3, <1>10, <1>11 DEF PagesInv, PagesNumberedOnce
<1> QED
  BY <1>3, <1>7, <1>8, <1>12 DEF PagesInv

LEMMA CloseKeepsPages ==
  ASSUME FileTableInv, PagesInv, NEW fd \in DOMAIN opened, close_file(fd)
  PROVE  PagesInv'
<1> DEFINE i == opened[fd]
<1>1. fd \in Fd /\ i \in DOMAIN disk_pages /\ num_pages[fd] # 0 /\ num_pages[fd] \in Nat
  BY DEF close_file, FileTableInv, FilesInv, PagesInv
<1>2. /\ DOMAIN opened' = DOMAIN opened \ {fd}
      /\ \A d \in DOMAIN opened' : opened'[d] = opened[d]
  BY DEF close_file, Restrict
<1>3. /\ DOMAIN disk_pages' = DOMAIN disk_pages /\ disk_pages'[i] = num_pages[fd]
      /\ \A j \in DOMAIN disk_pages \ {i} : disk_pages'[j] = disk_pages[j]
      /\ UNCHANGED <<allocated, fd2pageno_>>
  BY <1>1 DEF close_file
<1>4. /\ num_pages' \in [Fd -> Nat]
      /\ \A d \in Fd \ {fd} : num_pages'[d] = num_pages[d]
  BY <1>1 DEF close_file, PagesInv
<1>5. allocated[i] = 1..(num_pages[fd] - 1)
  BY <1>1 DEF PagesInv, PagesNumberedOnce
<1>6. ASSUME NEW d \in DOMAIN opened', num_pages'[d] # 0
      PROVE  allocated'[opened'[d]] = 1..(num_pages'[d] - 1) /\ fd2pageno_'[d] = num_pages'[d]
  <2>1. d \in DOMAIN opened /\ d \in Fd \ {fd}
    BY <1>2, <1>6 DEF FileTableInv, FilesInv
  <2> QED
    BY <1>2, <1>3, <1>4, <1>6, <2>1 DEF PagesInv, PagesNumberedOnce
<1>7. ASSUME NEW j \in DOMAIN disk_pages' \ Range(opened')
      PROVE  allocated'[j] = 1..(disk_pages'[j] - 1)
  <2>1. CASE j = i
    BY <1>3, <1>5, <2>1
  <2>2. CASE j # i
    <3>1. j \notin Range(opened)
      BY <1>2, <1>7, <2>2 DEF Range
    <3> QED
      BY <1>3, <1>7, <2>2, <3>1, SMTT(30) DEF PagesInv, PagesNumberedOnce
  <2> QED
    BY <2>1, <2>2
<1>8. PagesNumberedOnce'
  BY <1>6, <1>7 DEF PagesNumberedOnce
<1>9. \A j \in DOMAIN disk_pages' : disk_pages'[j] \in Nat
  BY <1>1, <1>3 DEF PagesInv
<1> QED
  BY <1>3, <1>4, <1>8, <1>9 DEF PagesInv

LEMMA NewPageKeepsPages ==
  ASSUME FileTableInv, PagesInv, NEW fd \in DOMAIN opened, NewPage(fd)
  PROVE  PagesInv'
<1> DEFINE i == opened[fd]
           n == num_pages[fd]
<1>1. /\ fd \in Fd /\ i \in DOMAIN disk_pages /\ n \in Nat /\ n # 0 /\ fd2pageno_[fd] = n
      /\ allocated[i] = 1..(n - 1)
  BY FileTableAssumption DEF NewPage, FileTableInv, FilesInv, PagesInv, PagesNumberedOnce
<1>2. /\ num_pages' \in [Fd -> Nat] /\ num_pages'[fd] = n + 1
      /\ fd2pageno_' \in [Fd -> Nat] /\ fd2pageno_'[fd] = n + 1
      /\ \A d \in Fd \ {fd} : num_pages'[d] = num_pages[d] /\ fd2pageno_'[d] = fd2pageno_[d]
      /\ UNCHANGED <<opened, disk_pages>>
  BY <1>1 DEF NewPage, PagesInv
<1>3. /\ DOMAIN allocated' = DOMAIN allocated /\ allocated'[i] = 1..(n - 1) \cup {n}
      /\ \A j \in DOMAIN allocated \ {i} : allocated'[j] = allocated[j]
  BY <1>1 DEF NewPage, PagesInv
<1>4. 1..(n - 1) \cup {n} = 1..n
  BY <1>1
<1> HIDE DEF i, n
<1>5. ASSUME NEW d \in DOMAIN opened', num_pages'[d] # 0
      PROVE  allocated'[opened'[d]] = 1..(num_pages'[d] - 1) /\ fd2pageno_'[d] = num_pages'[d]
  <2>1. CASE d = fd
    <3>1. opened'[d] = i /\ num_pages'[d] - 1 = n
      BY <1>1, <1>2, <2>1 DEF i
    <3> QED
      BY <1>2, <1>3, <1>4, <2>1, <3>1, ZenonT(30)
  <2>2. CASE d # fd
    <3>1. d \in DOMAIN opened /\ d \in Fd \ {fd} /\ opened[d] \in DOMAIN allocated \ {i}
      BY <1>2, <1>5, <2>2 DEF FileTableInv, FilesInv, OneDescriptorPerFile, PagesInv, i
    <3> QED
      BY <1>2, <1>3, <1>5, <3>1 DEF PagesInv, PagesNumberedOnce
  <2> QED
    BY <2>1, <2>2
<1>6. i \in Range(opened)
  BY SMTT(30) DEF Range, i
<1>7. PagesNumberedOnce'
  BY <1>2, <1>3, <1>5, <1>6 DEF PagesInv, PagesNumberedOnce
<1> QED
  BY <1>2, <1>3, <1>7 DEF PagesInv

LEMMA SameKeepsPages ==
  ASSUME PagesInv, UNCHANGED <<opened, fd2pageno_, disk_pages, num_pages, allocated>>
  PROVE  PagesInv'
  BY DEF PagesInv, PagesNumberedOnce, Range

\* The pages of a file are numbered 1, 2, 3, ... with none left out and none given out
\* twice, through closing, reopening under any descriptor, and every failure.
THEOREM NumbersGivenOnce == SpecDatabase => []PagesNumberedOnce
<1>1. InitDatabase => PagesInv
  <2> SUFFICES ASSUME InitDatabase PROVE PagesInv
    OBVIOUS
  <2>1. DOMAIN opened = {} /\ DOMAIN disk_pages = {} /\ DOMAIN allocated = {}
    BY DEF InitDatabase, Init, Empty
  <2> QED
    BY <2>1 DEF InitDatabase, Init, PagesInv, PagesNumberedOnce
<1>2. FileTableInv /\ PagesInv /\ [NextDatabase]_allvars => PagesInv'
  <2> SUFFICES ASSUME FileTableInv, PagesInv, [NextDatabase]_allvars PROVE PagesInv'
    OBVIOUS
  <2>1. ASSUME NEW path, create_file(path) PROVE PagesInv'
    <3> DEFINE header == IF CanOpenNew(path) THEN 1 ELSE 0
    <3>1. header \in {0, 1} /\ Created(path, header)
      BY <2>1 DEF create_file
    <3> HIDE DEF header
    <3> QED
      BY <3>1, CreatedKeepsPages
  <2>2. ASSUME NEW tab, create_table(tab) PROVE PagesInv'
    <3>1. 0 \in {0, 1}
      OBVIOUS
    <3> QED
      BY <2>1, <2>2, <3>1, CreatedKeepsPages DEF create_table
  <2>3. ASSUME NEW tab, open_table(tab) PROVE PagesInv'
    BY <2>3, OpenKeepsPages, SameKeepsPages DEF open_table, OpenThrows, vars
  <2>4. ASSUME NEW fd, NEW p, FetchPage(fd, p) PROVE PagesInv'
    BY <2>4, SameKeepsPages DEF FetchPage
  <2>5. ASSUME NEW c, Evict(c) PROVE PagesInv'
    BY <2>5, SameKeepsPages DEF Evict
  <2>6. ASSUME NEW path, destroy_file(path) PROVE PagesInv'
    BY <2>6, SameKeepsPages DEF destroy_file
  <2>7. CASE OtherFiles
    BY <2>1, <2>4, <2>5, <2>6, <2>7, OpenKeepsPages, CloseKeepsPages, NewPageKeepsPages
       DEF OtherFiles
  <2>8. CASE UNCHANGED allvars
    BY <2>8, SameKeepsPages DEF allvars, vars
  <2> QED
    BY <2>2, <2>3, <2>7, <2>8 DEF NextDatabase
<1>3. FileTableInv /\ [NextDatabase]_allvars => FileTableInv'
  BY StepKeepsFiles
<1>4. PagesInv => PagesNumberedOnce
  BY DEF PagesInv
<1> QED
  BY InitFiles, <1>1, <1>2, <1>3, <1>4, PTL DEF SpecDatabase
=============================================================================
