----------------------------- MODULE FileTable ------------------------------
(***************************************************************************)
(* DiskManager (src/src/storage) as RmManager (src/src/record) uses it:    *)
(* creating, opening, closing and destroying the files of tables, and the  *)
(* numbers their pages get.  The buffer pool is there as far as it depends *)
(* on descriptors: its pages are named by descriptor and page number.      *)
(*                                                                         *)
(* A file on disk is an inode: it outlives its name while it is open.      *)
(*                                                                         *)
(* Faults lets more happen:                                                *)
(*   "destroy_open"  the caller destroys a file that is open               *)
(*   "reuse"         the caller opens a file under a descriptor of which   *)
(*                   the pool still holds pages                            *)
(*   "open_fails"    open(2) fails while a table is created (Database)     *)
(***************************************************************************)
EXTENDS Integers, FiniteSetsExt, Functions

CONSTANTS
  Path,
  MaxFd,       \* bound: descriptors 1..MaxFd
  MaxInode,    \* bound: files created
  MaxPages,    \* bound: pages of a file
  Faults

ASSUME FileTableAssumption ==
  /\ MaxFd \in Nat /\ MaxInode \in Nat /\ MaxPages \in Nat
  /\ Faults \subseteq {"destroy_open", "reuse", "open_fails"}

Fd == 1..MaxFd
Inode == 1..MaxInode

VARIABLES
  directory,          \* path -> inode: the files there are
  opened,             \* descriptor -> inode: the open files, as the system knows
  path2fd_, fd2path_, \* the open files, as the DiskManager knows
  fd2pageno_,         \* descriptor -> number of the next page
  disk_pages,         \* inode -> num_pages of the header on disk, 0 if none
  num_pages,          \* descriptor -> num_pages of its RmFileHandle, 0 if none
  allocated,          \* inode -> page numbers given out since it was created
  cached              \* <<descriptor, page number, inode>>: the pool's page table

vars == <<directory, opened, path2fd_, fd2path_, fd2pageno_, disk_pages,
          num_pages, allocated, cached>>

Empty == [x \in {} |-> x]

\* A map with one entry set, as operator[] and emplace do.
Put(f, x, v) == [y \in DOMAIN f \cup {x} |-> IF y = x THEN v ELSE f[y]]

\* DiskManager::DiskManager, in an empty directory.
Init ==
  /\ directory = Empty /\ opened = Empty
  /\ path2fd_ = Empty /\ fd2path_ = Empty
  /\ fd2pageno_ = [fd \in Fd |-> 0]
  /\ disk_pages = Empty /\ allocated = Empty
  /\ num_pages = [fd \in Fd |-> 0]
  /\ cached = {}
-----------------------------------------------------------------------------
is_file(path) == path \in DOMAIN directory

\* open(2) returns the lowest descriptor that is free.
FreeFds == Fd \ DOMAIN opened
LowestFd == Min(FreeFds)

NewInode == Cardinality(DOMAIN disk_pages) + 1

\* DiskManager::create_file and the header that follows, if any.
Created(path, header) ==
  /\ directory' = Put(directory, path, NewInode)
  /\ disk_pages' = Put(disk_pages, NewInode, header)
  /\ allocated' = Put(allocated, NewInode, {})
  /\ UNCHANGED <<opened, path2fd_, fd2path_, fd2pageno_, num_pages, cached>>

\* Opening the new file fails if its path is in path2fd_ (the file that had it was
\* destroyed while open).
CanOpenNew(path) == path \notin DOMAIN path2fd_

\* RmManager::create_file: the file is created, opened, given a header and closed.
\* If opening it fails, the call throws and the file stays without header.
create_file(path) ==
  /\ ~ is_file(path) /\ FreeFds # {} /\ NewInode \in Inode
  /\ Created(path, IF CanOpenNew(path) THEN 1 ELSE 0)

\* Variant: a file may be open twice.
CanOpenTwice(path) == is_file(path)

CanOpen(path) == is_file(path) /\ path \notin DOMAIN path2fd_

\* Variant: pages are numbered on from whatever had the descriptor before.
NumberedOn(fd, i) == fd2pageno_

\* The constructor of RmFileHandle: pages are numbered from num_pages on.  It
\* throws if there is no header.
PageNumbers(fd, i) ==
  IF disk_pages[i] = 0 THEN fd2pageno_ ELSE [fd2pageno_ EXCEPT ![fd] = disk_pages[i]]

\* RmManager::open_file.
open_file(path) ==
  LET fd == LowestFd
      i == directory[path]
  IN
  /\ CanOpen(path) /\ FreeFds # {}
  /\ (\E c \in cached : c[1] = fd /\ c[3] # i) => "reuse" \in Faults
  /\ opened' = Put(opened, fd, i)
  /\ path2fd_' = Put(path2fd_, path, fd)
  /\ fd2path_' = Put(fd2path_, fd, path)
  /\ fd2pageno_' = PageNumbers(fd, i)
  /\ num_pages' = [num_pages EXCEPT ![fd] = disk_pages[i]]
  /\ UNCHANGED <<directory, disk_pages, allocated, cached>>

FdsAfterClose(fd) == Restrict(fd2path_, DOMAIN fd2path_ \ {fd})
PathsAfterClose(fd) == Restrict(path2fd_, DOMAIN path2fd_ \ {fd2path_[fd]})

\* RmManager::close_file: the header is written, the pages are flushed and stay in
\* the pool, the descriptor is closed.
close_file(fd) ==
  /\ num_pages[fd] # 0
  /\ disk_pages' = [disk_pages EXCEPT ![opened[fd]] = num_pages[fd]]
  /\ num_pages' = [num_pages EXCEPT ![fd] = 0]
  /\ opened' = Restrict(opened, DOMAIN opened \ {fd})
  /\ path2fd_' = PathsAfterClose(fd)
  /\ fd2path_' = FdsAfterClose(fd)
  /\ UNCHANGED <<directory, fd2pageno_, allocated, cached>>

\* unlink(2): the name goes, an open file stays.
destroy_file(path) ==
  /\ is_file(path)
  /\ path \in DOMAIN path2fd_ => "destroy_open" \in Faults
  /\ directory' = Restrict(directory, DOMAIN directory \ {path})
  /\ UNCHANGED <<opened, path2fd_, fd2path_, fd2pageno_, disk_pages, num_pages,
                 allocated, cached>>

\* The page table after an insert: what it has under a name already, it keeps.
PageTable(fd, p) ==
  IF \E c \in cached : c[1] = fd /\ c[2] = p THEN cached
  ELSE cached \cup {<<fd, p, opened[fd]>>}

\* NewPage of the pool, with AllocatePage, and create_new_page_handle.
NewPage(fd) ==
  LET p == fd2pageno_[fd]
      i == opened[fd]
  IN
  /\ num_pages[fd] \in 1..(MaxPages - 1)
  /\ fd2pageno_' = [fd2pageno_ EXCEPT ![fd] = @ + 1]
  /\ num_pages' = [num_pages EXCEPT ![fd] = @ + 1]
  /\ allocated' = [allocated EXCEPT ![i] = @ \cup {p}]
  /\ cached' = PageTable(fd, p)
  /\ UNCHANGED <<directory, opened, path2fd_, fd2path_, disk_pages>>

\* A page that is in the pool under this descriptor and number is not read.
FetchPage(fd, p) ==
  /\ p \in 1..(num_pages[fd] - 1)
  /\ ~ \E c \in cached : c[1] = fd /\ c[2] = p
  /\ cached' = PageTable(fd, p)
  /\ UNCHANGED <<directory, opened, path2fd_, fd2path_, fd2pageno_, disk_pages,
                 num_pages, allocated>>

\* The pool uses the frame for another page.
Evict(c) ==
  /\ cached' = cached \ {c}
  /\ UNCHANGED <<directory, opened, path2fd_, fd2path_, fd2pageno_, disk_pages,
                 num_pages, allocated>>
-----------------------------------------------------------------------------
TypeOK ==
  /\ IsInjective(directory) /\ Range(directory) \subseteq DOMAIN disk_pages
  /\ DOMAIN fd2path_ = DOMAIN opened /\ Range(fd2path_) \subseteq Path
  /\ DOMAIN path2fd_ \subseteq Path /\ Range(path2fd_) \subseteq Fd
  /\ Range(opened) \subseteq DOMAIN disk_pages
  /\ DOMAIN allocated = DOMAIN disk_pages
  /\ \A i \in DOMAIN disk_pages : disk_pages[i] \in 0..MaxPages
  /\ \A fd \in Fd : fd2pageno_[fd] \in 0..MaxPages /\ num_pages[fd] \in 0..MaxPages

\* The two tables are inverse to each other, so close_file frees the path that
\* open_file took, even if the file was destroyed and created again meanwhile.
TablesInverse ==
  /\ \A path \in DOMAIN path2fd_ :
       path2fd_[path] \in DOMAIN fd2path_ /\ fd2path_[path2fd_[path]] = path
  /\ \A fd \in DOMAIN fd2path_ :
       fd2path_[fd] \in DOMAIN path2fd_ /\ path2fd_[fd2path_[fd]] = fd

\* No file is open under two descriptors: the pool would hold its pages twice and
\* two handles would each have a header of their own.
OneDescriptorPerFile ==
  \A fd1, fd2 \in DOMAIN opened : opened[fd1] = opened[fd2] => fd1 = fd2

\* The page numbers of a file are given out one after the other and once, across
\* closing and opening, and under whatever descriptor the file comes to have.
PagesNumberedOnce ==
  /\ \A fd \in DOMAIN opened :
       num_pages[fd] # 0 => /\ allocated[opened[fd]] = 1..(num_pages[fd] - 1)
                           /\ fd2pageno_[fd] = num_pages[fd]
  /\ \A i \in DOMAIN disk_pages \ Range(opened) :
       allocated[i] = 1..(disk_pages[i] - 1)

\* A PageId is "the unique identifier of a page" (page.h): what the pool has under
\* an open descriptor is a page of the file that is open there.
PageIdNamesOnePage ==
  \A c \in cached : c[1] \in DOMAIN opened => c[3] = opened[c[1]]

\* "A file that is not closed cannot be deleted" (disk_manager.cpp, destroy_file):
\* the name of an open file stays.
OpenFilesKeepTheirName ==
  \A fd \in DOMAIN opened :
    /\ fd2path_[fd] \in DOMAIN directory
    /\ directory[fd2path_[fd]] = opened[fd]
=============================================================================
