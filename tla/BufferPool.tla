----------------------------- MODULE BufferPool -----------------------------
(***************************************************************************)
(* BufferPoolManager (src/src/storage/buffer_pool_manager.cpp) over the    *)
(* files DiskManager reads and writes, with clients that hold pins and     *)
(* write through the Page pointers they were given.                        *)
(*                                                                         *)
(* Every public method locks latch_ on its first line, so a call is one    *)
(* step.  A client's write to a page it holds takes no latch and falls     *)
(* anywhere between calls.  A call that finds no frame (nullptr), or that  *)
(* returns false, changes nothing and is a stuttering step.                *)
(*                                                                         *)
(* What the clients do is the contract of the pool: unpin what you         *)
(* fetched, and say dirty if you wrote.  Three departures from fair        *)
(* weather, each seen in the repository, are switched on by Faults:        *)
(*   "clean_new"       a new page is unpinned as clean                     *)
(*   "write_error"     write_page throws UnixError                         *)
(*   "refetch_deleted" a page is fetched again after DeletePage            *)
(***************************************************************************)
EXTENDS LRUList

CONSTANTS
  PoolSize,    \* pool_size_
  Fd,          \* the open files
  MaxPages,    \* bound: a file has at most this many pages
  InitPages,   \* pages every file has when the pool starts
  Client,      \* the threads that use the pool
  Value,       \* what a client may write to a page
  Zero,        \* a page of zeros
  Absent,      \* no bytes: past the end of the file
  NoPage,      \* the id_ of a frame never used: page_no is INVALID_PAGE_ID
  Faults       \* see above

Frame == 0..(PoolSize - 1)
NoFrame == -1
PageNo == 0..(MaxPages - 1)
PageId == Fd \X PageNo
Content == Value \cup {Zero}

ASSUME BufferPoolAssumption ==
  /\ PoolSize \in Nat \ {0}
  /\ MaxPages \in Nat /\ InitPages \in 0..MaxPages
  /\ IsFiniteSet(Fd) /\ IsFiniteSet(Client)
  /\ Absent \notin Content /\ NoPage \notin PageId
  /\ Faults \subseteq {"clean_new", "write_error", "refetch_deleted"}

VARIABLES
  id_, data_, is_dirty_, pin_count_,   \* the fields of pages_[frame]
  page_table_,    \* page -> frame, NoFrame for a page that has no entry
  free_list_,
  lru,            \* *replacer_
  disk,           \* page -> what the file holds there
  fd2pageno_,     \* the next page number DiskManager hands out, by file
  holds,          \* the pointers clients have and will still unpin
  wrote,          \* the holds whose client owes the pool a dirty unpin
  dead            \* the pages DeletePage has deleted

frameVars == <<id_, data_, is_dirty_, pin_count_>>
clientVars == <<holds, wrote, dead>>
vars == <<id_, data_, is_dirty_, pin_count_, page_table_, free_list_, lru,
          disk, fd2pageno_, holds, wrote, dead>>

Hold == [client : Client, page : PageId, frame : Frame]

Init ==
  /\ id_ = [f \in Frame |-> NoPage]
  /\ data_ = [f \in Frame |-> Zero]
  /\ is_dirty_ = [f \in Frame |-> FALSE]
  /\ pin_count_ = [f \in Frame |-> 0]
  /\ page_table_ = [p \in PageId |-> NoFrame]
  /\ free_list_ = [i \in 1..PoolSize |-> i - 1]
  /\ lru = EmptyLRU
  /\ disk = [p \in PageId |-> IF p[2] < InitPages THEN Zero ELSE Absent]
  /\ fd2pageno_ = [fd \in Fd |-> InitPages]
  /\ holds = {} /\ wrote = {} /\ dead = {}
-----------------------------------------------------------------------------
(* DiskManager: a write past the end of a file leaves a hole of zeros.     *)

write_page(d, p, v) ==
  [q \in PageId |->
     IF q = p THEN v
     ELSE IF q[1] = p[1] /\ q[2] < p[2] /\ d[q] = Absent THEN Zero
     ELSE d[q]]

(* std::unordered_map: erase by key, and insert, which never overwrites.   *)

Erase(table, p) == [q \in PageId |-> IF q = p THEN NoFrame ELSE table[q]]

Insert(table, p, f) == IF table[p] = NoFrame THEN [table EXCEPT ![p] = f] ELSE table

(* FindVictimPage: a free frame first, else the replacer's victim, whose   *)
(* page leaves the page table at once.                                     *)

CanTake == free_list_ # <<>> \/ HasVictim(lru)
TakesFree == free_list_ # <<>>
Taken == IF TakesFree THEN Head(free_list_) ELSE VictimOf(lru)
\* Variant: the frame is not popped from the free list.
FreeNotPopped == free_list_
FreeAfterTake == IF TakesFree THEN Tail(free_list_) ELSE free_list_
LruAfterTake == IF TakesFree THEN lru ELSE AfterVictim(lru)
\* Variant: the victim's page stays in the page table.
VictimStaysMapped == page_table_
TableAfterTake == IF TakesFree THEN page_table_ ELSE Erase(page_table_, id_[Taken])

(* UpdatePage on the frame just taken, for new page p.                     *)

\* Variants: a dirty page is dropped; a dirty page is zeroed before its write.
DirtyDropped == disk
ZeroedThenWritten ==
  IF is_dirty_[Taken] THEN write_page(disk, id_[Taken], Zero) ELSE disk

DiskAfterUpdate ==
  IF is_dirty_[Taken] THEN write_page(disk, id_[Taken], data_[Taken]) ELSE disk
TableAfterUpdate(p) == Insert(Erase(TableAfterTake, id_[Taken]), p, Taken)
-----------------------------------------------------------------------------
(* FetchPage.  A client holds a page at most once (bound), and it asks for *)
(* pages that were allocated and not deleted.                              *)

MayFetch(c, p) ==
  /\ ~ \E h \in holds : h.client = c /\ h.page = p
  /\ p[2] < fd2pageno_[p[1]]
  /\ p \notin dead \/ "refetch_deleted" \in Faults

\* Variant: a hit is not counted.
FetchHitUncounted(c, p) ==
  /\ MayFetch(c, p)
  /\ page_table_[p] # NoFrame
  /\ lru' = AfterPin(lru, page_table_[p])
  /\ holds' = holds \cup {[client |-> c, page |-> p, frame |-> page_table_[p]]}
  /\ UNCHANGED <<frameVars, page_table_, free_list_, disk, fd2pageno_, wrote, dead>>

FetchHit(c, p) ==
  LET f == page_table_[p] IN
  /\ MayFetch(c, p)
  /\ f # NoFrame
  /\ lru' = AfterPin(lru, f)
  /\ pin_count_' = [pin_count_ EXCEPT ![f] = @ + 1]
  /\ holds' = holds \cup {[client |-> c, page |-> p, frame |-> f]}
  /\ UNCHANGED <<id_, data_, is_dirty_, page_table_, free_list_, disk, fd2pageno_, wrote, dead>>

\* UpdatePage runs only when the frame is dirty; a clean frame just gets the
\* new id.  The page table gets its entry again after the read.
TableBeforeRead(p) == IF is_dirty_[Taken] THEN TableAfterUpdate(p) ELSE TableAfterTake

\* Variant: read_page does not look at the number of bytes it got.
ShortReadUnnoticed(p) == FALSE

\* read_page finds fewer bytes than a page and throws.
ShortRead(p) == DiskAfterUpdate[p] = Absent

FetchMiss(c, p) ==
  /\ MayFetch(c, p)
  /\ page_table_[p] = NoFrame
  /\ CanTake
  /\ ~ ShortRead(p)
  /\ id_' = [id_ EXCEPT ![Taken] = p]
  /\ data_' = [data_ EXCEPT ![Taken] = DiskAfterUpdate[p]]
  /\ is_dirty_' = [is_dirty_ EXCEPT ![Taken] = FALSE]
  /\ pin_count_' = [pin_count_ EXCEPT ![Taken] = @ + 1]
  /\ page_table_' = Insert(TableBeforeRead(p), p, Taken)
  /\ free_list_' = FreeAfterTake
  /\ lru' = AfterPin(LruAfterTake, Taken)
  /\ disk' = DiskAfterUpdate
  /\ holds' = holds \cup {[client |-> c, page |-> p, frame |-> Taken]}
  /\ UNCHANGED <<fd2pageno_, wrote, dead>>

\* What was done before read_page throws stays done: the frame is neither free
\* nor evictable, carries the new id, and after UpdatePage it is also zeroed
\* and in the page table.
FetchShortRead(c, p) ==
  /\ MayFetch(c, p)
  /\ page_table_[p] = NoFrame
  /\ CanTake
  /\ ShortRead(p)
  /\ id_' = [id_ EXCEPT ![Taken] = p]
  /\ data_' = [data_ EXCEPT ![Taken] = IF is_dirty_[Taken] THEN Zero ELSE @]
  /\ is_dirty_' = [is_dirty_ EXCEPT ![Taken] = FALSE]
  /\ page_table_' = TableBeforeRead(p)
  /\ free_list_' = FreeAfterTake
  /\ lru' = LruAfterTake
  /\ disk' = DiskAfterUpdate
  /\ UNCHANGED <<pin_count_, fd2pageno_, holds, wrote, dead>>

\* write_page throws inside UpdatePage: the dirty flag is already cleared and
\* the frame already taken, its page already out of the page table.
WriteBackThrows ==
  /\ "write_error" \in Faults
  /\ CanTake
  /\ is_dirty_[Taken]
  /\ is_dirty_' = [is_dirty_ EXCEPT ![Taken] = FALSE]
  /\ page_table_' = TableAfterTake
  /\ free_list_' = FreeAfterTake
  /\ lru' = LruAfterTake
  /\ UNCHANGED <<id_, data_, pin_count_, disk, clientVars>>

FetchWriteError(c, p) ==
  /\ MayFetch(c, p)
  /\ page_table_[p] = NoFrame
  /\ WriteBackThrows
  /\ UNCHANGED fd2pageno_

FetchPage(c, p) ==
  \/ FetchHit(c, p) \/ FetchMiss(c, p)
  \/ FetchShortRead(c, p) \/ FetchWriteError(c, p)
-----------------------------------------------------------------------------
(* NewPage.  AllocatePage has counted before UpdatePage can throw.         *)

NewPage(c, fd) ==
  LET p == <<fd, fd2pageno_[fd]>>
      h == [client |-> c, page |-> p, frame |-> Taken]
  IN
  /\ fd2pageno_[fd] < MaxPages
  /\ CanTake
  /\ fd2pageno_' = [fd2pageno_ EXCEPT ![fd] = @ + 1]
  /\ \/ /\ id_' = [id_ EXCEPT ![Taken] = p]
        /\ data_' = [data_ EXCEPT ![Taken] = Zero]
        /\ is_dirty_' = [is_dirty_ EXCEPT ![Taken] = FALSE]
        /\ pin_count_' = [pin_count_ EXCEPT ![Taken] = 1]
        /\ page_table_' = TableAfterUpdate(p)
        /\ free_list_' = FreeAfterTake
        /\ lru' = AfterPin(LruAfterTake, Taken)
        /\ disk' = DiskAfterUpdate
        /\ holds' = holds \cup {h}
        /\ wrote' = IF "clean_new" \in Faults THEN wrote ELSE wrote \cup {h}
        /\ UNCHANGED dead
     \/ WriteBackThrows

(* A client writes through its pointer.                                    *)

WriteData(h, v) ==
  /\ data_' = [data_ EXCEPT ![h.frame] = v]
  /\ wrote' = wrote \cup {h}
  /\ UNCHANGED <<id_, is_dirty_, pin_count_, page_table_, free_list_, lru, disk, fd2pageno_, holds, dead>>

(* UnpinPage looks the frame up by page id; the pointer plays no part.     *)
(* False is returned for a page that is absent or not pinned.              *)

UnpinPage(h, dirty) ==
  LET f == page_table_[h.page]
      found == f # NoFrame /\ pin_count_[f] > 0
  IN
  /\ h \in wrote => dirty
  /\ holds' = holds \ {h}
  /\ wrote' = wrote \ {h}
  /\ \/ /\ found
        /\ pin_count_' = [pin_count_ EXCEPT ![f] = @ - 1]
        /\ is_dirty_' = [is_dirty_ EXCEPT ![f] = @ \/ dirty]
        /\ lru' = IF pin_count_[f] = 1 THEN AfterUnpin(lru, f) ELSE lru
     \/ /\ ~ found
        /\ UNCHANGED <<pin_count_, is_dirty_, lru>>
  /\ UNCHANGED <<id_, data_, page_table_, free_list_, disk, fd2pageno_, dead>>
-----------------------------------------------------------------------------
(* FlushPage writes under the frame's own id.  If write_page throws,       *)
(* nothing has changed.                                                    *)

FlushPage(p) ==
  LET f == page_table_[p] IN
  /\ f # NoFrame
  /\ disk' = write_page(disk, id_[f], data_[f])
  /\ is_dirty_' = [is_dirty_ EXCEPT ![f] = FALSE]
  /\ wrote' = {h \in wrote : h.frame # f}
  /\ UNCHANGED <<id_, data_, pin_count_, page_table_, free_list_, lru, fd2pageno_, holds, dead>>

(* FlushAllPages goes through the frames in order and writes every one     *)
(* whose id is in the file, in the page table or not.  It ends after the   *)
(* last frame, or at the frame whose write throws.                         *)

InFile(fd, f) == id_[f] # NoPage /\ id_[f][1] = fd

\* Variant: the dirty flags are cleared, nothing is written.
FlushWritesNothing(S) == disk

DiskAfterFlush(S) ==
  [q \in PageId |->
     LET own == {f \in S : id_[f] = q}
     IN IF own # {} THEN data_[CHOOSE f \in own : \A g \in own : g <= f]
        ELSE IF disk[q] = Absent /\ \E f \in S : id_[f][1] = q[1] /\ id_[f][2] > q[2] THEN Zero
        ELSE disk[q]]

FlushAllPages(fd, end) ==
  LET S == {f \in Frame : f < end /\ InFile(fd, f)} IN
  /\ end = PoolSize \/ ("write_error" \in Faults /\ end \in Frame /\ InFile(fd, end))
  /\ disk' = DiskAfterFlush(S)
  /\ is_dirty_' = [f \in Frame |-> is_dirty_[f] /\ f \notin S]
  /\ wrote' = {h \in wrote : h.frame \notin S}
  /\ UNCHANGED <<id_, data_, pin_count_, page_table_, free_list_, lru, fd2pageno_, holds, dead>>

(* DeletePage.  DeallocatePage does nothing; a page that is not in the     *)
(* pool is reported deleted; a pinned one is refused (no step).  The frame *)
(* keeps its id_, its is_dirty_ and its place in the replacer.             *)

DeletePage(p) ==
  LET f == page_table_[p] IN
  /\ p \notin dead /\ p[2] < fd2pageno_[p[1]]
  /\ \/ /\ f = NoFrame
        /\ UNCHANGED <<page_table_, data_, free_list_>>
     \/ /\ f # NoFrame
        /\ pin_count_[f] <= 0
        /\ page_table_' = Erase(page_table_, p)
        /\ data_' = [data_ EXCEPT ![f] = Zero]
        /\ free_list_' = Append(free_list_, f)
  /\ dead' = dead \cup {p}
  /\ UNCHANGED <<id_, is_dirty_, pin_count_, lru, disk, fd2pageno_, holds, wrote>>
-----------------------------------------------------------------------------
Next ==
  \/ \E c \in Client, p \in PageId : FetchPage(c, p)
  \/ \E c \in Client, fd \in Fd : NewPage(c, fd)
  \/ \E h \in holds, v \in Value : WriteData(h, v)
  \/ \E h \in holds, dirty \in BOOLEAN : UnpinPage(h, dirty)
  \/ \E p \in PageId : FlushPage(p)
  \/ \E fd \in Fd, end \in 0..PoolSize : FlushAllPages(fd, end)
  \/ \E p \in PageId : DeletePage(p)

Spec == Init /\ [][Next]_vars
-----------------------------------------------------------------------------
Mapped(f) == \E p \in PageId : page_table_[p] = f

TypeOK ==
  /\ id_ \in [Frame -> PageId \cup {NoPage}]
  /\ data_ \in [Frame -> Content]
  /\ is_dirty_ \in [Frame -> BOOLEAN]
  /\ pin_count_ \in [Frame -> Nat]
  /\ page_table_ \in [PageId -> Frame \cup {NoFrame}]
  /\ free_list_ \in Seq(Frame)
  /\ lru \in LRU(Frame)
  /\ disk \in [PageId -> Content \cup {Absent}]
  /\ fd2pageno_ \in [Fd -> 0..MaxPages]
  /\ holds \subseteq Hold /\ wrote \subseteq holds
  /\ dead \subseteq PageId

\* No two pages share a frame and every entry of the page table names a frame
\* that carries that page's id: UnpinPage, FlushPage and DeletePage go from id
\* to frame and write back under the frame's id.  Holds whatever throws.
TableMatchesFrames ==
  \A p \in PageId : page_table_[p] # NoFrame => id_[page_table_[p]] = p

\* A frame the replacer can hand out is pinned by nobody, although frames that
\* DeletePage put on the free list stay in the replacer, and a frame on the
\* free list is in no page-table entry and is there once.  Holds whatever
\* throws.
OnlyUnpinnedEvictable ==
  /\ \A f \in lru.hash : pin_count_[f] = 0
  /\ \A f \in Range(free_list_) : pin_count_[f] = 0 /\ ~ Mapped(f)
  /\ Distinct(free_list_)

\* The pointer FetchPage or NewPage returned stays the page's frame until the
\* client unpins it: nobody evicts, remaps or deletes a page in use.
HeldPageStays ==
  \A h \in holds : page_table_[h.page] = h.frame /\ id_[h.frame] = h.page

\* pin_count_ is the number of pointers out there, so a page becomes evictable
\* when the last client, and not an earlier one, unpins it.
PinCountsHolds ==
  \A f \in Frame : pin_count_[f] = Cardinality({h \in holds : h.frame = f})

\* NewPage and FetchPage come back empty-handed only when every frame is
\* pinned: no sequence of calls loses a frame.
NullOnlyWhenAllPinned ==
  (\E f \in Frame : pin_count_[f] = 0) => CanTake

\* A clean page nobody owes a dirty unpin for has the bytes the file has, so
\* evicting it without a write loses nothing.
CleanMatchesDisk ==
  \A p \in PageId :
    LET f == page_table_[p] IN
    (f # NoFrame /\ ~ is_dirty_[f] /\ ~ \E h \in wrote : h.frame = f)
      => data_[f] = disk[p]

\* Every page handed out and not deleted can be fetched: it is in the pool or
\* its bytes are in the file, so read_page cannot come up short.
AllocatedReadable ==
  \A p \in PageId :
    (p[2] < fd2pageno_[p[1]] /\ p \notin dead)
      => page_table_[p] # NoFrame \/ disk[p] # Absent

\* A dirty page leaves the pool only with its bytes in the file.  The lab text
\* asks this of every function that evicts (Lab 1, task 1.3: a dirty page is
\* written to disk before it is evicted).
DirtyWrittenBeforeEvicted ==
  [][\A p \in PageId \ dead' :
       LET f == page_table_[p] IN
       (f # NoFrame /\ is_dirty_[f] /\ page_table_'[p] = NoFrame)
         => disk'[p] = data_[f]]_vars
-----------------------------------------------------------------------------
(* What a client sees in a page, wherever the page is.                     *)

Seen(p) ==
  IF page_table_[p] # NoFrame THEN data_[page_table_[p]]
  ELSE IF disk[p] = Absent THEN Zero ELSE disk[p]

Store == INSTANCE PageStore WITH
           store <- [p \in PageId \ dead |-> Seen(p)],
           held <- {<<h.client, h.page>> : h \in holds}

\* The pool is invisible: fetching, evicting, flushing and unpinning in any
\* order never change what a page holds, only a client's write does, and only
\* to the page that client holds.
ImplementsPageStore == Store!Spec
=============================================================================
