------------------------------ MODULE Database ------------------------------
(***************************************************************************)
(* SmManager (src/src/system) over the file table: the tables of a         *)
(* database, their record files and the handles through which they are     *)
(* used, next to other files of the process (the log, index files).        *)
(*                                                                         *)
(* create_table is two steps, each a call of RmManager, because the table  *)
(* is entered between them and either can throw.  The statements about     *)
(* indexes end in TabMeta::get_col, which returns an iterator to nowhere   *)
(* (lab3 task1), and drop_table, create_db and close_db are empty: none of *)
(* them is a step here.                                                    *)
(***************************************************************************)
EXTENDS FileTable

VARIABLES
  tabs_,       \* the tables in DbMeta
  fhs_,        \* table -> descriptor of its RmFileHandle
  creating     \* the table in create_table, {} if none

smvars == <<tabs_, fhs_, creating>>
allvars == <<vars, smvars>>

InitDatabase == Init /\ tabs_ = {} /\ fhs_ = Empty /\ creating = {}

\* DbMeta::is_table
is_table(tab) == tab \in tabs_

\* Variant: the table is entered before its file is there.
EnteredFirst(tab) ==
  /\ tabs_' = tabs_ \cup {tab}
  /\ creating' = IF CanOpenNew(tab) THEN {tab} ELSE {}
  /\ UNCHANGED fhs_

\* What create_table has done when RmManager::create_file has returned or thrown.
AfterCreateFile(tab) ==
  /\ creating' = IF CanOpenNew(tab) THEN {tab} ELSE {}
  /\ UNCHANGED <<tabs_, fhs_>>

\* create_table as far as create_file.
create_table(tab) ==
  /\ creating = {} /\ ~ is_table(tab)
  /\ \/ create_file(tab) /\ AfterCreateFile(tab)
     \/ /\ "open_fails" \in Faults
        /\ ~ is_file(tab) /\ NewInode \in Inode
        /\ Created(tab, 0)
        /\ UNCHANGED smvars

\* Variant: nobody looks whether open(2) failed.
HandleAnyway(tab) == fhs_' = Put(fhs_, tab, LowestFd) /\ UNCHANGED vars

\* open_file throws: the table has been entered and has no handle.
OpenThrows(tab) == UNCHANGED <<vars, fhs_>>

\* The rest of create_table: the table is entered, its file opened.
open_table(tab) ==
  /\ tab \in creating
  /\ creating' = {}
  /\ tabs_' = tabs_ \cup {tab}
  /\ \/ open_file(tab) /\ fhs_' = Put(fhs_, tab, LowestFd)
     \/ "open_fails" \in Faults /\ FreeFds # {} /\ OpenThrows(tab)
     \/ FreeFds = {} /\ OpenThrows(tab)

\* What goes on besides, in files that are no tables and in the pages of all.
OtherFiles ==
  /\ creating = {}
  /\ \/ \E path \in Path \ tabs_ : create_file(path) \/ open_file(path) \/ destroy_file(path)
     \/ \E fd \in DOMAIN opened :
          \/ fd2path_[fd] \notin tabs_ /\ close_file(fd)
          \/ NewPage(fd)
          \/ \E p \in 1..MaxPages : FetchPage(fd, p)
     \/ \E c \in cached : Evict(c)
  /\ UNCHANGED smvars

NextDatabase ==
  \/ \E tab \in Path : create_table(tab) \/ open_table(tab)
  \/ OtherFiles

SpecDatabase == InitDatabase /\ [][NextDatabase]_allvars
-----------------------------------------------------------------------------
\* A table that is listed has a file of its name with a header on disk, whatever
\* failed while it was created: open_db could open it.
TablesHaveFiles ==
  \A tab \in tabs_ : is_file(tab) /\ disk_pages[directory[tab]] # 0

\* A handle of a table is a descriptor that is open, on the file of that table and
\* on no other: never one that a failed open left behind, or that another file got.
HandlesOfTables ==
  \A tab \in DOMAIN fhs_ :
    /\ tab \in tabs_
    /\ fhs_[tab] \in DOMAIN opened
    /\ fd2path_[fhs_[tab]] = tab
    /\ opened[fhs_[tab]] = directory[tab]

\* After create_table the table can be used.  (README: an open that fails leaves a
\* table that cannot be used, created again or dropped.)
NoHalfTables == creating = {} => tabs_ = DOMAIN fhs_
=============================================================================
