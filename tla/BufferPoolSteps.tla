--------------------------- MODULE BufferPoolSteps ---------------------------
(***************************************************************************)
(* The steps of BufferPool that move a page or a pin, for every pool size, *)
(* set of files, set of clients and number of pages: what they keep        *)
(* whatever the clients forget and whatever throws (RobustInv), and what   *)
(* they keep as long as the clients keep to the contract and the disk does *)
(* not fail (PoolInv).  Both are inductive; BufferPoolProofs has the steps *)
(* that leave the pages where they are, and the theorems.                  *)
(***************************************************************************)
EXTENDS BufferPool, LRUListProofs, FiniteSetTheorems

\* Most leaves are first-order; the others name the prover they need.
USE Zenon

\* The properties that survive every fault, and a replacer that is consistent.
RobustInv ==
  TypeOK /\ Consistent(lru) /\ TableMatchesFrames /\ OnlyUnpinnedEvictable

-----------------------------------------------------------------------------
\* NoFrame is no frame.
LEMMA NoFrameLemma == NoFrame \notin Frame
BY BufferPoolAssumption, SMTT(30) DEF NoFrame, Frame

\* Inserting a page into the page table keeps an entry that is there already.
LEMMA InsertLemma ==
  ASSUME NEW t \in [PageId -> Frame \cup {NoFrame}], NEW p \in PageId, NEW f \in Frame
  PROVE  /\ Insert(t, p, f) \in [PageId -> Frame \cup {NoFrame}]
         /\ \A q \in PageId :
              Insert(t, p, f)[q] = IF q = p /\ t[p] = NoFrame THEN f ELSE t[q]
BY DEF Insert

\* The replacer and the free list are well formed.
LEMMA ListTypes ==
  ASSUME RobustInv
  PROVE  /\ lru \in LRU(Frame) /\ Consistent(lru)
         /\ free_list_ \in Seq(Frame) /\ Distinct(free_list_)
BY DEF RobustInv, TypeOK, OnlyUnpinnedEvictable

\* A frame in the page table is a frame, and it holds something.
LEMMA FrameTypes ==
  ASSUME RobustInv
  PROVE  /\ \A p \in PageId : page_table_[p] # NoFrame => page_table_[p] \in Frame
         /\ \A f \in Frame : pin_count_[f] \in Nat
         /\ \A f \in Frame : data_[f] # Absent
<1>1. data_ \in [Frame -> Content] /\ Absent \notin Content
  BY BufferPoolAssumption DEF RobustInv, TypeOK
<1>2. page_table_ \in [PageId -> Frame \cup {NoFrame}] /\ pin_count_ \in [Frame -> Nat]
  BY DEF RobustInv, TypeOK
<1> QED
  BY <1>1, <1>2

\* A pinned frame is neither evictable nor free.
LEMMA FreeFrameLemma ==
  ASSUME RobustInv, NEW f, pin_count_[f] > 0
  PROVE  f \notin lru.hash /\ f \notin Range(free_list_)
<1>1. pin_count_[f] # 0
  BY SMTT(30)
<1> QED
  BY <1>1 DEF RobustInv, OnlyUnpinnedEvictable

\* What FindVictimPage leaves behind: an unpinned frame that is neither free
\* nor mapped, and a free list, a replacer and a page table that lost nothing
\* but that frame and the page whose id the frame carries.
LEMMA TakeLemma ==
  ASSUME RobustInv, CanTake
  PROVE  /\ Taken \in Frame /\ pin_count_[Taken] = 0
         /\ FreeAfterTake \in Seq(Frame) /\ Distinct(FreeAfterTake)
         /\ Range(FreeAfterTake) = Range(free_list_) \ {Taken}
         /\ LruAfterTake \in LRU(Frame) /\ Consistent(LruAfterTake)
         /\ LruAfterTake.hash \subseteq lru.hash
         /\ lru.hash \subseteq LruAfterTake.hash \cup {Taken}
         /\ TableAfterTake \in [PageId -> Frame \cup {NoFrame}]
         /\ \A p \in PageId : /\ TableAfterTake[p] # Taken
                              /\ TableAfterTake[p] # page_table_[p]
                                   => TableAfterTake[p] = NoFrame /\ p = id_[Taken]
<1> USE NoFrameLemma
<1>1. CASE TakesFree
  <2>1. /\ Taken = Head(free_list_) /\ FreeAfterTake = Tail(free_list_)
        /\ LruAfterTake = lru /\ TableAfterTake = page_table_
    BY <1>1 DEF Taken, FreeAfterTake, LruAfterTake, TableAfterTake
  <2>2. /\ Taken \in Frame /\ Taken \in Range(free_list_)
        /\ FreeAfterTake \in Seq(Frame) /\ Distinct(FreeAfterTake)
        /\ Range(FreeAfterTake) = Range(free_list_) \ {Taken}
    BY <1>1, <2>1, PopFrontLemma DEF RobustInv, TypeOK, OnlyUnpinnedEvictable, TakesFree
  <2>3. pin_count_[Taken] = 0 /\ ~ Mapped(Taken)
    BY <2>2 DEF RobustInv, OnlyUnpinnedEvictable
  <2> QED
    BY <2>1, <2>2, <2>3 DEF RobustInv, TypeOK, Mapped
<1>2. CASE ~ TakesFree
  <2>1. /\ Taken = VictimOf(lru) /\ FreeAfterTake = free_list_ /\ free_list_ = <<>>
        /\ LruAfterTake = AfterVictim(lru)
        /\ TableAfterTake = Erase(page_table_, id_[Taken])
        /\ HasVictim(lru)
    BY <1>2 DEF Taken, FreeAfterTake, LruAfterTake, TableAfterTake, TakesFree, CanTake
  <2>2. /\ Taken \in lru.hash /\ LruAfterTake \in LRU(Frame) /\ Consistent(LruAfterTake)
        /\ LruAfterTake.hash = lru.hash \ {Taken}
    BY <2>1, AfterVictimLemma DEF RobustInv, TypeOK
  <2>3. Taken \in Frame /\ pin_count_[Taken] = 0
    BY <2>2 DEF RobustInv, TypeOK, OnlyUnpinnedEvictable, LRU
  <2>4. Range(free_list_) = {}
    BY <2>1, SMTT(30) DEF Range
  <2>5. /\ TableAfterTake \in [PageId -> Frame \cup {NoFrame}]
        /\ \A q \in PageId :
             TableAfterTake[q] = IF q = id_[Taken] THEN NoFrame ELSE page_table_[q]
    BY <2>1 DEF Erase, RobustInv, TypeOK
  <2>6. \A p \in PageId : page_table_[p] = Taken => p = id_[Taken]
    BY <2>3 DEF RobustInv, TableMatchesFrames
  <2> QED
    BY <2>1, <2>2, <2>3, <2>4, <2>5, <2>6, SMTT(30) DEF RobustInv, TypeOK, OnlyUnpinnedEvictable
<1> QED
  BY <1>1, <1>2

\* Pinning the frame just taken keeps the replacer consistent and the frame out.
LEMMA PinTakenLemma ==
  ASSUME RobustInv, CanTake
  PROVE  LET l == AfterPin(LruAfterTake, Taken) IN
         /\ l \in LRU(Frame) /\ Consistent(l)
         /\ l.hash \subseteq lru.hash /\ Taken \notin l.hash
<1>1. /\ Taken \in Frame /\ LruAfterTake \in LRU(Frame) /\ Consistent(LruAfterTake)
      /\ LruAfterTake.hash \subseteq lru.hash
  BY TakeLemma
<1> QED
  BY <1>1, AfterPinLemma, SMTT(30)

\* After UpdatePage the frame taken is mapped, if at all, by the new page only.
LEMMA UpdateTableLemma ==
  ASSUME RobustInv, CanTake, NEW p \in PageId
  PROVE  /\ TableAfterUpdate(p) \in [PageId -> Frame \cup {NoFrame}]
         /\ TableBeforeRead(p) \in [PageId -> Frame \cup {NoFrame}]
         /\ \A q \in PageId :
              /\ TableAfterUpdate(p)[q] \in {NoFrame, page_table_[q]}
                   \/ TableAfterUpdate(p)[q] = Taken
              /\ TableAfterUpdate(p)[q] = Taken => q = p
              /\ TableBeforeRead(p)[q] \in {NoFrame, page_table_[q]}
                   \/ TableBeforeRead(p)[q] = Taken
              /\ TableBeforeRead(p)[q] = Taken => q = p
<1> DEFINE e == Erase(TableAfterTake, id_[Taken])
<1>1. /\ e \in [PageId -> Frame \cup {NoFrame}]
      /\ \A q \in PageId : e[q] \in {NoFrame, TableAfterTake[q]}
  BY TakeLemma DEF Erase
<1> HIDE DEF e
<1>2. /\ Insert(e, p, Taken) \in [PageId -> Frame \cup {NoFrame}]
      /\ \A q \in PageId :
           Insert(e, p, Taken)[q] = IF q = p /\ e[p] = NoFrame THEN Taken ELSE e[q]
  BY <1>1, TakeLemma DEF Insert
<1>3. TableAfterUpdate(p) = Insert(e, p, Taken)
  BY DEF TableAfterUpdate, e
<1> QED
  BY <1>1, <1>2, <1>3, TakeLemma, NoFrameLemma, SMTT(30) DEF TableBeforeRead
-----------------------------------------------------------------------------
(* RobustInv is inductive for any Faults.                                  *)

\* A step that takes a frame and maps it, if at all, to the page whose id it
\* now carries keeps frames, table, free list and replacer in order.
LEMMA TakeStep ==
  ASSUME RobustInv, CanTake,
         \A q \in PageId : page_table_'[q] \in {NoFrame, page_table_[q], Taken},
         \A q \in PageId : page_table_'[q] = Taken => id_'[Taken] = q,
         \A f \in Frame \ {Taken} : id_'[f] = id_[f] /\ pin_count_'[f] = pin_count_[f],
         free_list_' = FreeAfterTake,
         lru'.hash \subseteq lru.hash,
         Taken \in lru'.hash => pin_count_'[Taken] = 0
  PROVE  TableMatchesFrames' /\ OnlyUnpinnedEvictable'
<1> USE NoFrameLemma
<1>1. /\ Taken \in Frame
      /\ Distinct(free_list_') /\ Range(free_list_') = Range(free_list_) \ {Taken}
  BY TakeLemma
<1>2. lru.hash \subseteq Frame /\ page_table_ \in [PageId -> Frame \cup {NoFrame}]
  BY DEF RobustInv, TypeOK, LRU
<1>3. Range(free_list_) \subseteq Frame
  BY SMTT(30) DEF RobustInv, TypeOK, Range
<1>4. TableMatchesFrames'
  BY <1>1, <1>2, SMTT(30) DEF RobustInv, TableMatchesFrames
<1>5. \A f \in lru'.hash : pin_count_'[f] = 0
  BY <1>2 DEF RobustInv, OnlyUnpinnedEvictable
<1>6. ASSUME NEW f \in Range(free_list_') PROVE pin_count_'[f] = 0 /\ ~ Mapped(f)'
  BY <1>1, <1>2, <1>3, <1>6, SMTT(30) DEF RobustInv, OnlyUnpinnedEvictable, Mapped
<1> QED
  BY <1>1, <1>4, <1>5, <1>6 DEF OnlyUnpinnedEvictable

\* Writing a page to the file leaves contents where contents belong.
LEMMA DiskTypes ==
  ASSUME TypeOK
  PROVE  /\ \A p \in PageId \cup {NoPage}, v \in Content :
              write_page(disk, p, v) \in [PageId -> Content \cup {Absent}]
         /\ RobustInv /\ CanTake => DiskAfterUpdate \in [PageId -> Content \cup {Absent}]
<1>1. ASSUME NEW p \in PageId \cup {NoPage}, NEW v \in Content
      PROVE  write_page(disk, p, v) \in [PageId -> Content \cup {Absent}]
  BY DEF TypeOK, write_page, Content
<1>2. ASSUME RobustInv, CanTake
      PROVE  DiskAfterUpdate \in [PageId -> Content \cup {Absent}]
  BY <1>1, <1>2, TakeLemma DEF TypeOK, DiskAfterUpdate
<1> QED
  BY <1>1, <1>2

\* A hit pins a mapped frame and takes it from the replacer.
LEMMA FetchHitRobust ==
  ASSUME RobustInv, NEW c \in Client, NEW p \in PageId, FetchHit(c, p)
  PROVE  RobustInv'
<1> DEFINE f == page_table_[p]
<1>1. f \in Frame
  BY DEF FetchHit, RobustInv, TypeOK
<1>2. lru' \in LRU(Frame) /\ lru'.hash = lru.hash \ {f} /\ Consistent(lru')
  <2>1. lru' = AfterPin(lru, f)
    BY DEF FetchHit
  <2> QED
    BY <1>1, <2>1, ListTypes, AfterPinLemma, SMTT(30)
<1>3. f \notin Range(free_list_)
  BY <1>1 DEF RobustInv, OnlyUnpinnedEvictable, Mapped
<1>4. [client |-> c, page |-> p, frame |-> f] \in Hold
  BY <1>1 DEF Hold
<1>5. TypeOK'
  <2>1. pin_count_' \in [Frame -> Nat]
    BY <1>1, SMTT(30) DEF FetchHit, RobustInv, TypeOK
  <2>2. holds' \subseteq Hold /\ wrote' \subseteq holds'
    BY <1>4 DEF FetchHit, RobustInv, TypeOK
  <2>3. UNCHANGED <<id_, data_, is_dirty_, page_table_, free_list_, disk, fd2pageno_, dead>>
    BY DEF FetchHit
  <2> QED
    BY <1>2, <2>1, <2>2, <2>3 DEF RobustInv, TypeOK
<1>6. OnlyUnpinnedEvictable'
  <2>1. \A g \in Range(free_list_) : g \in Frame
    BY SMTT(30) DEF RobustInv, TypeOK, Range
  <2>2. \A g \in Frame : g # f => pin_count_'[g] = pin_count_[g]
    BY <1>1 DEF FetchHit, RobustInv, TypeOK
  <2>3. lru.hash \subseteq Frame
    BY DEF RobustInv, TypeOK, LRU
  <2> QED
    BY <1>2, <1>3, <2>1, <2>2, <2>3 DEF FetchHit, RobustInv, OnlyUnpinnedEvictable, Mapped
<1> QED
  BY <1>2, <1>5, <1>6 DEF FetchHit, RobustInv, TableMatchesFrames

\* A miss takes a frame, maps it to the page and pins it.
LEMMA FetchMissRobust ==
  ASSUME RobustInv, NEW c \in Client, NEW p \in PageId, FetchMiss(c, p)
  PROVE  RobustInv'
<1>1. CanTake /\ Taken \in Frame
  BY TakeLemma DEF FetchMiss
<1>2. /\ lru' \in LRU(Frame) /\ Consistent(lru')
      /\ lru'.hash \subseteq lru.hash /\ Taken \notin lru'.hash
  <2>1. lru' = AfterPin(LruAfterTake, Taken)
    BY DEF FetchMiss
  <2> QED
    BY <1>1, <2>1, PinTakenLemma
<1>3. /\ page_table_' \in [PageId -> Frame \cup {NoFrame}]
      /\ \A q \in PageId : page_table_'[q] \in {NoFrame, page_table_[q], Taken}
      /\ \A q \in PageId : page_table_'[q] = Taken => q = p
  <2> DEFINE t == TableBeforeRead(p)
  <2>1. /\ t \in [PageId -> Frame \cup {NoFrame}]
        /\ \A q \in PageId : t[q] \in {NoFrame, page_table_[q], Taken}
        /\ \A q \in PageId : t[q] = Taken => q = p
    BY <1>1, UpdateTableLemma
  <2>2. page_table_' = Insert(t, p, Taken)
    BY DEF FetchMiss
  <2> HIDE DEF t
  <2> QED
    BY <1>1, <2>1, <2>2, InsertLemma, SMTT(30)
<1>4. /\ id_' = [id_ EXCEPT ![Taken] = p]
      /\ pin_count_' = [pin_count_ EXCEPT ![Taken] = @ + 1]
      /\ free_list_' = FreeAfterTake
  BY DEF FetchMiss
<1>5. TableMatchesFrames' /\ OnlyUnpinnedEvictable'
  <2>1. id_'[Taken] = p
    BY <1>1, <1>4 DEF RobustInv, TypeOK
  <2>2. \A f \in Frame \ {Taken} : id_'[f] = id_[f] /\ pin_count_'[f] = pin_count_[f]
    BY <1>1, <1>4 DEF RobustInv, TypeOK
  <2> QED
    BY <1>1, <1>2, <1>3, <1>4, <2>1, <2>2, TakeStep
<1>6. TypeOK'
  <2>1. DiskAfterUpdate \in [PageId -> Content \cup {Absent}]
    BY <1>1, DiskTypes DEF RobustInv
  <2>2. DiskAfterUpdate[p] \in Content
    BY <2>1 DEF FetchMiss, ShortRead
  <2>3. [client |-> c, page |-> p, frame |-> Taken] \in Hold
    BY <1>1 DEF Hold
  <2>4. free_list_' \in Seq(Frame)
    BY <1>1, <1>4, TakeLemma
  <2>5. id_' \in [Frame -> PageId \cup {NoPage}] /\ pin_count_' \in [Frame -> Nat]
    BY <1>1, <1>4, SMTT(30) DEF RobustInv, TypeOK
  <2>6. data_' \in [Frame -> Content] /\ is_dirty_' \in [Frame -> BOOLEAN]
    BY <1>1, <2>2 DEF FetchMiss, RobustInv, TypeOK
  <2>7. holds' \subseteq Hold /\ wrote' \subseteq holds' /\ dead' \subseteq PageId
    BY <2>3 DEF FetchMiss, RobustInv, TypeOK
  <2>8. disk' = DiskAfterUpdate /\ fd2pageno_' \in [Fd -> 0..MaxPages]
    BY DEF FetchMiss, RobustInv, TypeOK
  <2> QED
    BY <1>2, <1>3, <2>1, <2>4, <2>5, <2>6, <2>7, <2>8 DEF TypeOK
<1> QED
  BY <1>2, <1>5, <1>6 DEF RobustInv

\* A short read leaves a frame that is nowhere, or mapped and unpinned.
LEMMA FetchShortReadRobust ==
  ASSUME RobustInv, NEW c \in Client, NEW p \in PageId, FetchShortRead(c, p)
  PROVE  RobustInv'
<1>1. CanTake /\ Taken \in Frame /\ pin_count_[Taken] = 0
  BY TakeLemma DEF FetchShortRead
<1>2. lru' \in LRU(Frame) /\ Consistent(lru') /\ lru'.hash \subseteq lru.hash
  BY <1>1, TakeLemma DEF FetchShortRead
<1>3. /\ page_table_' \in [PageId -> Frame \cup {NoFrame}]
      /\ \A q \in PageId : page_table_'[q] \in {NoFrame, page_table_[q], Taken}
      /\ \A q \in PageId : page_table_'[q] = Taken => q = p
  BY <1>1, UpdateTableLemma DEF FetchShortRead
<1>4. /\ id_' = [id_ EXCEPT ![Taken] = p]
      /\ pin_count_' = pin_count_
      /\ free_list_' = FreeAfterTake
  BY DEF FetchShortRead
<1>5. TableMatchesFrames' /\ OnlyUnpinnedEvictable'
  <2>1. id_'[Taken] = p /\ \A f \in Frame \ {Taken} : id_'[f] = id_[f]
    BY <1>1, <1>4 DEF RobustInv, TypeOK
  <2> QED
    BY <1>1, <1>2, <1>3, <1>4, <2>1, TakeStep
<1>6. TypeOK'
  <2>1. disk' \in [PageId -> Content \cup {Absent}]
    BY <1>1, DiskTypes DEF FetchShortRead, RobustInv
  <2>2. free_list_' \in Seq(Frame)
    BY <1>1, <1>4, TakeLemma
  <2>3. id_' \in [Frame -> PageId \cup {NoPage}] /\ pin_count_' \in [Frame -> Nat]
    BY <1>1, <1>4 DEF RobustInv, TypeOK
  <2>4. data_' \in [Frame -> Content] /\ is_dirty_' \in [Frame -> BOOLEAN]
    BY <1>1 DEF FetchShortRead, RobustInv, TypeOK, Content
  <2>5. /\ holds' \subseteq Hold /\ wrote' \subseteq holds' /\ dead' \subseteq PageId
        /\ fd2pageno_' \in [Fd -> 0..MaxPages]
    BY DEF FetchShortRead, RobustInv, TypeOK
  <2> QED
    BY <1>2, <1>3, <2>1, <2>2, <2>3, <2>4, <2>5 DEF TypeOK
<1> QED
  BY <1>2, <1>5, <1>6 DEF RobustInv

\* A failed write-back leaves a frame that is nowhere.
LEMMA WriteBackThrowsRobust ==
  ASSUME RobustInv, WriteBackThrows, fd2pageno_' \in [Fd -> 0..MaxPages]
  PROVE  RobustInv'
<1>1. CanTake /\ Taken \in Frame /\ pin_count_[Taken] = 0
  BY TakeLemma DEF WriteBackThrows
<1>2. lru' \in LRU(Frame) /\ Consistent(lru') /\ lru'.hash \subseteq lru.hash
  BY <1>1, TakeLemma DEF WriteBackThrows
<1>3. /\ page_table_' \in [PageId -> Frame \cup {NoFrame}]
      /\ \A q \in PageId : page_table_'[q] \in {NoFrame, page_table_[q]}
      /\ \A q \in PageId : page_table_'[q] # Taken
  BY <1>1, TakeLemma DEF WriteBackThrows
<1>4. id_' = id_ /\ pin_count_' = pin_count_ /\ free_list_' = FreeAfterTake
  BY DEF WriteBackThrows
<1>5. TableMatchesFrames' /\ OnlyUnpinnedEvictable'
  BY <1>1, <1>2, <1>3, <1>4, TakeStep
<1>6. TypeOK'
  <2>1. free_list_' \in Seq(Frame)
    BY <1>1, <1>4, TakeLemma
  <2>2. is_dirty_' \in [Frame -> BOOLEAN]
    BY <1>1 DEF WriteBackThrows, RobustInv, TypeOK
  <2>3. UNCHANGED <<id_, data_, pin_count_, disk, holds, wrote, dead>>
    BY DEF WriteBackThrows, clientVars
  <2> QED
    BY <1>2, <1>3, <2>1, <2>2, <2>3 DEF RobustInv, TypeOK
<1> QED
  BY <1>2, <1>5, <1>6 DEF RobustInv

\* A new page maps the frame it takes, or fails in the write-back.
LEMMA NewPageRobust ==
  ASSUME RobustInv, NEW c \in Client, NEW fd \in Fd, NewPage(c, fd)
  PROVE  RobustInv'
<1> DEFINE p == <<fd, fd2pageno_[fd]>>
           h == [client |-> c, page |-> p, frame |-> Taken]
<1>1. CanTake /\ Taken \in Frame /\ pin_count_[Taken] = 0
  BY TakeLemma DEF NewPage
<1>2. p \in PageId /\ fd2pageno_' \in [Fd -> 0..MaxPages]
  <2>1. fd2pageno_ \in [Fd -> 0..MaxPages] /\ fd2pageno_[fd] < MaxPages /\ MaxPages \in Nat
    BY BufferPoolAssumption DEF NewPage, RobustInv, TypeOK
  <2>2. fd2pageno_[fd] \in PageNo /\ fd2pageno_[fd] + 1 \in 0..MaxPages
    BY <2>1, SMTT(30) DEF PageNo
  <2>3. fd2pageno_' = [fd2pageno_ EXCEPT ![fd] = @ + 1]
    BY DEF NewPage
  <2> QED
    BY <2>1, <2>2, <2>3 DEF PageId
<1>3. CASE WriteBackThrows
  BY <1>2, <1>3, WriteBackThrowsRobust
<1>4. CASE ~ WriteBackThrows
  <2> HIDE DEF p
  <2>1. /\ id_' = [id_ EXCEPT ![Taken] = p]
        /\ data_' = [data_ EXCEPT ![Taken] = Zero]
        /\ is_dirty_' = [is_dirty_ EXCEPT ![Taken] = FALSE]
        /\ pin_count_' = [pin_count_ EXCEPT ![Taken] = 1]
        /\ page_table_' = TableAfterUpdate(p)
        /\ free_list_' = FreeAfterTake
        /\ lru' = AfterPin(LruAfterTake, Taken)
        /\ disk' = DiskAfterUpdate
        /\ holds' = holds \cup {h}
        /\ wrote' \subseteq wrote \cup {h}
        /\ dead' = dead
    BY <1>4 DEF NewPage, p
  <2>2. /\ lru' \in LRU(Frame) /\ Consistent(lru')
        /\ lru'.hash \subseteq lru.hash /\ Taken \notin lru'.hash
    BY <1>1, <2>1, PinTakenLemma
  <2>3. /\ page_table_' \in [PageId -> Frame \cup {NoFrame}]
        /\ \A q \in PageId : page_table_'[q] \in {NoFrame, page_table_[q], Taken}
        /\ \A q \in PageId : page_table_'[q] = Taken => q = p
    BY <1>1, <1>2, <2>1, UpdateTableLemma
  <2>4. TableMatchesFrames' /\ OnlyUnpinnedEvictable'
    <3>1. /\ id_'[Taken] = p
          /\ \A f \in Frame \ {Taken} : id_'[f] = id_[f] /\ pin_count_'[f] = pin_count_[f]
      BY <1>1, <2>1 DEF RobustInv, TypeOK
    <3> QED
      BY <1>1, <2>1, <2>2, <2>3, <3>1, TakeStep
  <2>5. TypeOK'
    <3>1. disk' \in [PageId -> Content \cup {Absent}] /\ free_list_' \in Seq(Frame)
      BY <1>1, <2>1, DiskTypes, TakeLemma DEF RobustInv
    <3>2. h \in Hold
      BY <1>1, <1>2 DEF Hold
    <3>3. id_' \in [Frame -> PageId \cup {NoPage}] /\ pin_count_' \in [Frame -> Nat]
      BY <1>1, <1>2, <2>1 DEF RobustInv, TypeOK
    <3>4. data_' \in [Frame -> Content] /\ is_dirty_' \in [Frame -> BOOLEAN]
      BY <1>1, <2>1 DEF RobustInv, TypeOK, Content
    <3>5. holds' \subseteq Hold /\ wrote' \subseteq holds' /\ dead' \subseteq PageId
      BY <2>1, <3>2 DEF RobustInv, TypeOK
    <3> QED
      BY <1>2, <2>2, <2>3, <3>1, <3>3, <3>4, <3>5 DEF TypeOK
  <2> QED
    BY <2>2, <2>4, <2>5 DEF RobustInv
<1> QED
  BY <1>3, <1>4

\* Only the last unpin hands a frame to the replacer.
LEMMA UnpinPageRobust ==
  ASSUME RobustInv, NEW h \in holds, NEW dirty \in BOOLEAN, UnpinPage(h, dirty)
  PROVE  RobustInv'
<1> DEFINE f == page_table_[h.page]
<1>1. /\ UNCHANGED <<id_, data_, page_table_, free_list_, disk, fd2pageno_, dead>>
      /\ holds' \subseteq holds /\ wrote' \subseteq holds'
  BY DEF UnpinPage, RobustInv, TypeOK
<1>2. CASE UNCHANGED <<pin_count_, is_dirty_, lru>>
  BY <1>1, <1>2 DEF RobustInv, TypeOK, TableMatchesFrames, OnlyUnpinnedEvictable, Mapped
<1>3. CASE /\ f # NoFrame /\ pin_count_[f] > 0
           /\ pin_count_' = [pin_count_ EXCEPT ![f] = @ - 1]
           /\ is_dirty_' = [is_dirty_ EXCEPT ![f] = @ \/ dirty]
           /\ lru' = IF pin_count_[f] = 1 THEN AfterUnpin(lru, f) ELSE lru
  <2>1. h.page \in PageId /\ f \in Frame
    BY <1>3 DEF RobustInv, TypeOK, Hold
  <2>2. f \notin lru.hash /\ f \notin Range(free_list_)
    BY <1>3, FreeFrameLemma
  <2>3. /\ lru' \in LRU(Frame) /\ Consistent(lru')
        /\ \A g \in lru'.hash : g \in lru.hash \/ (g = f /\ pin_count_[f] = 1)
    <3>1. CASE pin_count_[f] = 1
      <4>1. lru' = AfterUnpin(lru, f)
        BY <1>3, <3>1
      <4>2. /\ AfterUnpin(lru, f) \in LRU(Frame) /\ Consistent(AfterUnpin(lru, f))
            /\ AfterUnpin(lru, f).hash = lru.hash \cup {f}
        BY <2>1, ListTypes, AfterUnpinLemma, SMTT(30)
      <4> QED
        BY <3>1, <4>1, <4>2
    <3>2. CASE pin_count_[f] # 1
      BY <1>3, <3>2, ListTypes
    <3> QED
      BY <3>1, <3>2
  <2>4. pin_count_' \in [Frame -> Nat] /\ is_dirty_' \in [Frame -> BOOLEAN]
    BY <1>3, <2>1, SMTT(30) DEF RobustInv, TypeOK
  <2>5. pin_count_'[f] = pin_count_[f] - 1 /\ \A g \in Frame \ {f} : pin_count_'[g] = pin_count_[g]
    BY <1>3, <2>1 DEF RobustInv, TypeOK
  <2>6. TypeOK'
    BY <1>1, <2>3, <2>4 DEF RobustInv, TypeOK
  <2>7. OnlyUnpinnedEvictable'
    <3>1. lru.hash \subseteq Frame /\ Range(free_list_) \subseteq Frame
      BY ListTypes, SMTT(30) DEF LRU, Range
    <3> HIDE DEF f
    <3>2. \A g \in lru'.hash : pin_count_'[g] = 0
      BY <2>1, <2>2, <2>3, <2>5, <3>1, SMTT(30) DEF RobustInv, OnlyUnpinnedEvictable
    <3>3. \A g \in Range(free_list_') : pin_count_'[g] = 0 /\ ~ Mapped(g)'
      BY <1>1, <2>2, <2>5, <3>1 DEF RobustInv, OnlyUnpinnedEvictable, Mapped
    <3> QED
      BY <1>1, <3>2, <3>3 DEF RobustInv, OnlyUnpinnedEvictable
  <2> QED
    BY <1>1, <2>3, <2>6, <2>7 DEF RobustInv, TableMatchesFrames
<1> QED
  BY <1>2, <1>3 DEF UnpinPage

\* A deleted page's frame is unmapped before it is free.
LEMMA DeletePageRobust ==
  ASSUME RobustInv, NEW p \in PageId, DeletePage(p)
  PROVE  RobustInv'
<1> DEFINE f == page_table_[p]
<1>1. /\ UNCHANGED <<id_, is_dirty_, pin_count_, lru, disk, fd2pageno_, holds, wrote>>
      /\ dead' \subseteq PageId
  BY DEF DeletePage, RobustInv, TypeOK
<1>2. CASE UNCHANGED <<page_table_, data_, free_list_>>
  BY <1>1, <1>2 DEF RobustInv, TypeOK, TableMatchesFrames, OnlyUnpinnedEvictable, Mapped
<1>3. CASE /\ f # NoFrame
           /\ pin_count_[f] <= 0
           /\ page_table_' = Erase(page_table_, p)
           /\ data_' = [data_ EXCEPT ![f] = Zero]
           /\ free_list_' = Append(free_list_, f)
  <2>1. f \in Frame /\ pin_count_[f] = 0
    BY <1>3, SMTT(30) DEF RobustInv, TypeOK
  <2>2. f \notin Range(free_list_)
    BY <2>1 DEF RobustInv, OnlyUnpinnedEvictable, Mapped
  <2>3. /\ free_list_' \in Seq(Frame) /\ Distinct(free_list_')
        /\ Range(free_list_') = Range(free_list_) \cup {f}
    BY <1>3, <2>1, <2>2, ListTypes, PushBackLemma, SMTT(30)
  <2>4. /\ page_table_' \in [PageId -> Frame \cup {NoFrame}]
        /\ \A q \in PageId : page_table_'[q] = IF q = p THEN NoFrame ELSE page_table_[q]
    BY <1>3 DEF Erase, RobustInv, TypeOK
  <2>5. TypeOK'
    BY <1>1, <1>3, <2>1, <2>3, <2>4 DEF RobustInv, TypeOK, Content
  <2>6. TableMatchesFrames'
    BY <1>1, <2>4 DEF RobustInv, TableMatchesFrames
  <2>7. \A q \in PageId : page_table_'[q] # f
    BY <2>1, <2>4, NoFrameLemma DEF RobustInv, TableMatchesFrames
  <2>8. \A g \in Range(free_list_') : pin_count_'[g] = 0 /\ ~ Mapped(g)'
    <3> SUFFICES ASSUME NEW g \in Range(free_list_')
                 PROVE  pin_count_[g] = 0 /\ \A q \in PageId : page_table_'[q] # g
      BY <1>1 DEF Mapped
    <3>1. CASE g = f
      BY <2>1, <2>7, <3>1
    <3>2. CASE g \in Range(free_list_)
      <4>1. g \in Frame
        BY <3>2, SMTT(30) DEF RobustInv, TypeOK, Range
      <4> QED
        BY <2>4, <3>2, <4>1, NoFrameLemma DEF RobustInv, OnlyUnpinnedEvictable, Mapped
    <3> QED
      BY <2>3, <3>1, <3>2
  <2> QED
    BY <1>1, <2>3, <2>5, <2>6, <2>8 DEF RobustInv, OnlyUnpinnedEvictable
<1> QED
  BY <1>2, <1>3 DEF DeletePage

\* The constructor leaves every frame free, once, and nothing mapped.
LEMMA InitRobust ==
  ASSUME Init
  PROVE  RobustInv
<1>1. lru \in LRU(Frame) /\ Consistent(lru) /\ lru.hash = {}
  BY EmptyLRULemma DEF Init, EmptyLRU
<1>2. free_list_ = [i \in 1..PoolSize |-> i - 1] /\ PoolSize \in Nat
  BY BufferPoolAssumption DEF Init
<1>3. free_list_ \in Seq(Frame) /\ Len(free_list_) = PoolSize
  BY <1>2, SMTT(30) DEF Frame
<1>4. Distinct(free_list_)
  BY <1>2, <1>3, SMTT(30) DEF Distinct
<1>5. Range(free_list_) \subseteq Frame
  BY <1>3, SMTT(30) DEF Range
<1>6. TypeOK
  BY <1>1, <1>3, BufferPoolAssumption DEF Init, TypeOK, Content
<1>7. \A p \in PageId : page_table_[p] = NoFrame
  BY DEF Init
<1>8. OnlyUnpinnedEvictable
  BY <1>1, <1>4, <1>5, <1>7, NoFrameLemma DEF Init, OnlyUnpinnedEvictable, Mapped
<1> QED
  BY <1>1, <1>6, <1>7, <1>8 DEF RobustInv, TableMatchesFrames
-----------------------------------------------------------------------------
Allocated == {p \in PageId : p[2] < fd2pageno_[p[1]]}

\* No frame is lost: each is free or mapped, and a mapped one that nobody pins
\* can be evicted.
FramesAccounted ==
  \A f \in Frame :
    /\ f \in Range(free_list_) \/ Mapped(f)
    /\ Mapped(f) /\ pin_count_[f] = 0 => f \in lru.hash

\* A frame's id_ is an allocated page that is mapped to this frame, or a
\* deleted page; deleted pages are allocated and mapped to no frame.
IdsCurrent ==
  /\ \A f \in Frame : id_[f] # NoPage =>
       id_[f] \in Allocated /\ (page_table_[id_[f]] = f \/ id_[f] \in dead)
  /\ \A p \in dead : p \in Allocated /\ page_table_[p] = NoFrame

PoolInv ==
  /\ RobustInv
  /\ FramesAccounted
  /\ IdsCurrent
  /\ HeldPageStays
  /\ IsFiniteSet(holds) /\ PinCountsHolds
  /\ CleanMatchesDisk
  /\ AllocatedReadable
-----------------------------------------------------------------------------
Holders(f) == {h \in holds : h.frame = f}

\* A frame nobody pins is nobody's, and the other way round.
LEMMA UnpinnedUnheld ==
  ASSUME PoolInv, NEW f \in Frame
  PROVE  /\ IsFiniteSet(Holders(f))
         /\ pin_count_[f] = Cardinality(Holders(f))
         /\ pin_count_[f] = 0 <=> \A h \in holds : h.frame # f
<1>1. IsFiniteSet(Holders(f))
  BY FS_Subset DEF PoolInv, Holders
<1>2. pin_count_[f] = Cardinality(Holders(f))
  BY DEF PoolInv, PinCountsHolds, Holders
<1> QED
  BY <1>1, <1>2, FS_EmptySet DEF Holders

\* The frame FindVictimPage hands out is held by nobody, its page is the only
\* one to leave the page table, and UpdatePage's own erase finds nothing more.
LEMMA ContractTake ==
  ASSUME PoolInv, CanTake
  PROVE  /\ \A h \in holds : h.frame # Taken
         /\ \A q \in PageId : TableAfterTake[q] =
                                IF page_table_[q] = Taken THEN NoFrame ELSE page_table_[q]
         /\ Erase(TableAfterTake, id_[Taken]) = TableAfterTake
<1>1. /\ Taken \in Frame /\ pin_count_[Taken] = 0
      /\ TableAfterTake \in [PageId -> Frame \cup {NoFrame}]
      /\ \A p \in PageId : /\ TableAfterTake[p] # Taken
                           /\ TableAfterTake[p] # page_table_[p]
                                => TableAfterTake[p] = NoFrame /\ p = id_[Taken]
  BY TakeLemma DEF PoolInv
<1>2. \A h \in holds : h.frame # Taken
  BY <1>1, UnpinnedUnheld
<1>3. \A q \in PageId : q = id_[Taken] => page_table_[q] = Taken \/ page_table_[q] = NoFrame
  BY <1>1, BufferPoolAssumption DEF PoolInv, IdsCurrent
<1>4. \A q \in PageId : TableAfterTake[q] =
                          IF page_table_[q] = Taken THEN NoFrame ELSE page_table_[q]
  BY <1>1, <1>3
<1>5. \A q \in PageId : q = id_[Taken] => TableAfterTake[q] = NoFrame
  BY <1>3, <1>4
<1>6. Erase(TableAfterTake, id_[Taken]) = TableAfterTake
  BY <1>1, <1>5 DEF Erase
<1> QED
  BY <1>2, <1>4, <1>6

\* After the write-back the file holds what the frame held, has lost nothing,
\* and pages in other frames that were in the file are there unchanged.
LEMMA ContractWriteBack ==
  ASSUME PoolInv, CanTake, NEW q \in PageId
  PROVE  /\ DiskAfterUpdate[q] = Absent => disk[q] = Absent
         /\ page_table_[q] \notin {NoFrame, Taken} /\ disk[q] # Absent
              => DiskAfterUpdate[q] = disk[q]
         /\ page_table_[q] = Taken => DiskAfterUpdate[q] = data_[Taken]
<1>1. Taken \in Frame /\ data_[Taken] \in Content /\ \A h \in wrote : h.frame # Taken
  BY TakeLemma, ContractTake DEF PoolInv, RobustInv, TypeOK
<1>2. page_table_[q] = Taken => id_[Taken] = q
  BY <1>1, NoFrameLemma DEF PoolInv, RobustInv, TableMatchesFrames
<1>3. page_table_[q] \notin {NoFrame, Taken} => id_[Taken] # q
  BY <1>1, BufferPoolAssumption DEF PoolInv, IdsCurrent
<1>4. CASE is_dirty_[Taken]
  <2>1. DiskAfterUpdate[q] =
          IF q = id_[Taken] THEN data_[Taken]
          ELSE IF q[1] = id_[Taken][1] /\ q[2] < id_[Taken][2] /\ disk[q] = Absent THEN Zero
          ELSE disk[q]
    BY <1>4 DEF DiskAfterUpdate, write_page
  <2> QED
    BY <1>1, <1>2, <1>3, <2>1, BufferPoolAssumption DEF Content
<1>5. CASE ~ is_dirty_[Taken]
  <2>1. DiskAfterUpdate = disk
    BY <1>5 DEF DiskAfterUpdate
  <2>2. page_table_[q] = Taken => disk[q] = data_[Taken]
    BY <1>1, <1>5, NoFrameLemma DEF PoolInv, CleanMatchesDisk
  <2> QED
    BY <2>1, <2>2
<1> QED
  BY <1>4, <1>5

\* A step that takes a frame for a page that was in none and gives it to one
\* client keeps the contract.
LEMMA ContractTakeStep ==
  ASSUME PoolInv, CanTake, RobustInv',
         NEW p \in PageId, page_table_[p] = NoFrame, p \notin dead,
         NEW c \in Client, NEW h, h = [client |-> c, page |-> p, frame |-> Taken],
         Allocated' = Allocated \cup {p},
         id_' = [id_ EXCEPT ![Taken] = p],
         \A f \in Frame \ {Taken} : data_'[f] = data_[f] /\ is_dirty_'[f] = is_dirty_[f],
         pin_count_' = [pin_count_ EXCEPT ![Taken] = 1],
         page_table_' = Insert(TableAfterTake, p, Taken),
         free_list_' = FreeAfterTake,
         lru' = AfterPin(LruAfterTake, Taken),
         disk' = DiskAfterUpdate,
         holds' = holds \cup {h}, wrote \subseteq wrote', dead' = dead,
         data_'[Taken] = disk'[p] \/ h \in wrote'
  PROVE  PoolInv'
<1> USE NoFrameLemma
<1>1. Taken \in Frame /\ pin_count_[Taken] = 0 /\ \A g \in holds : g.frame # Taken
  BY TakeLemma, ContractTake DEF PoolInv
<1>2. \A q \in PageId : page_table_'[q] =
        IF q = p THEN Taken ELSE IF page_table_[q] = Taken THEN NoFrame ELSE page_table_[q]
  <2>1. TableAfterTake \in [PageId -> Frame \cup {NoFrame}]
    BY TakeLemma DEF PoolInv
  <2>2. TableAfterTake[p] = NoFrame
    BY <1>1, ContractTake
  <2> QED
    BY <1>1, <2>1, <2>2, ContractTake DEF Insert
<1>3. /\ id_'[Taken] = p /\ pin_count_'[Taken] = 1
      /\ \A f \in Frame \ {Taken} : id_'[f] = id_[f] /\ pin_count_'[f] = pin_count_[f]
  BY <1>1 DEF PoolInv, RobustInv, TypeOK
<1>4. \A f \in Frame \ {Taken} : Mapped(f)' <=> Mapped(f)
  BY <1>1, <1>2 DEF Mapped
<1>5. page_table_'[p] = Taken
  BY <1>2
<1>6. Range(free_list_') = Range(free_list_) \ {Taken}
  BY TakeLemma DEF PoolInv
<1>7. lru'.hash = lru.hash \ {Taken}
  <2>1. lru'.hash = LruAfterTake.hash \ {Taken}
    BY <1>1, TakeLemma, AfterPinLemma, SMTT(30) DEF PoolInv
  <2> QED
    BY <2>1, TakeLemma DEF PoolInv
<1>8. FramesAccounted'
  <2> SUFFICES ASSUME NEW f \in Frame
               PROVE  /\ f \in Range(free_list_') \/ Mapped(f)'
                      /\ Mapped(f)' /\ pin_count_'[f] = 0 => f \in lru'.hash
    BY DEF FramesAccounted
  <2>1. CASE f = Taken
    BY <1>3, <1>5, <2>1, SMTT(30) DEF Mapped
  <2>2. CASE f # Taken
    BY <1>3, <1>4, <1>6, <1>7, <2>2 DEF PoolInv, FramesAccounted
  <2> QED
    BY <2>1, <2>2
<1>9. IdsCurrent'
  <2>1. ASSUME NEW f \in Frame, id_'[f] # NoPage
        PROVE  id_'[f] \in Allocated' /\ (page_table_'[id_'[f]] = f \/ id_'[f] \in dead')
    <3>1. CASE f = Taken
      BY <1>2, <1>3, <3>1, SMTT(30)
    <3>2. CASE f # Taken
      <4>1. id_'[f] = id_[f] /\ id_[f] # NoPage /\ id_[f] \in PageId
        BY <1>3, <2>1, <3>2 DEF PoolInv, RobustInv, TypeOK
      <4>2. id_[f] \in Allocated /\ (page_table_[id_[f]] = f \/ id_[f] \in dead)
        BY <4>1 DEF PoolInv, IdsCurrent
      <4> QED
        BY <1>2, <3>2, <4>1, <4>2, SMTT(30)
    <3> QED
      BY <3>1, <3>2
  <2>2. ASSUME NEW q \in dead' PROVE q \in Allocated' /\ page_table_'[q] = NoFrame
    <3>1. q \in PageId /\ q # p /\ q \in Allocated /\ page_table_[q] = NoFrame
      BY <2>2, SMTT(30) DEF PoolInv, IdsCurrent, RobustInv, TypeOK
    <3> QED
      BY <1>2, <3>1
  <2> QED
    BY <2>1, <2>2 DEF IdsCurrent
<1>10. HeldPageStays'
  <2>1. ASSUME NEW g \in holds PROVE page_table_'[g.page] = g.frame /\ id_'[g.frame] = g.page
    <3>1. g.page \in PageId /\ g.frame \in Frame /\ g.frame # Taken
      BY <1>1 DEF PoolInv, RobustInv, TypeOK, Hold
    <3>2. page_table_[g.page] = g.frame /\ id_[g.frame] = g.page
      BY DEF PoolInv, HeldPageStays
    <3>3. g.page # p
      BY <3>1, <3>2
    <3> QED
      BY <1>2, <1>3, <3>1, <3>2, <3>3
  <2>2. page_table_'[h.page] = h.frame /\ id_'[h.frame] = h.page
    BY <1>3, <1>5
  <2> QED
    BY <2>1, <2>2 DEF HeldPageStays
<1>11. IsFiniteSet(holds)' /\ PinCountsHolds'
  <2>1. IsFiniteSet(holds')
    BY FS_AddElement DEF PoolInv
  <2>2. ASSUME NEW f \in Frame PROVE pin_count_'[f] = Cardinality({g \in holds' : g.frame = f})
    <3>1. CASE f = Taken
      <4>1. h \in holds' /\ h.frame = f
        BY <3>1
      <4>2. \A g \in holds' : g = h \/ g.frame # f
        BY <1>1, <3>1
      <4>3. {g \in holds' : g.frame = f} = {h}
        BY <4>1, <4>2
      <4> QED
        <5>1. Cardinality({h}) = 1
          BY FS_Singleton
        <5> QED
          BY <1>3, <3>1, <4>3, <5>1
    <3>2. CASE f # Taken
      <4>1. {g \in holds' : g.frame = f} = {g \in holds : g.frame = f}
        BY <3>2, SMTT(30)
      <4> QED
        BY <1>3, <3>2, <4>1 DEF PoolInv, PinCountsHolds
    <3> QED
      BY <3>1, <3>2
  <2> QED
    BY <2>1, <2>2 DEF PinCountsHolds
<1>12. CleanMatchesDisk'
  <2> SUFFICES ASSUME NEW q \in PageId, page_table_'[q] # NoFrame,
                      ~ is_dirty_'[page_table_'[q]],
                      ~ \E g \in wrote' : g.frame = page_table_'[q]
               PROVE  data_'[page_table_'[q]] = disk'[q]
    BY DEF CleanMatchesDisk
  <2>1. CASE q = p
    BY <1>2, <2>1
  <2>2. CASE q # p
    <3>1. page_table_'[q] = page_table_[q] /\ page_table_[q] \in Frame \ {Taken}
      BY <1>2, <2>2 DEF PoolInv, RobustInv, TypeOK
    <3>2. data_[page_table_[q]] = disk[q]
      BY <3>1, ZenonT(60) DEF PoolInv, CleanMatchesDisk
    <3>3. disk[q] # Absent
      BY <3>1, <3>2, FrameTypes DEF PoolInv
    <3> QED
      BY <3>1, <3>2, <3>3, ContractWriteBack
  <2> QED
    BY <2>1, <2>2
<1>13. AllocatedReadable'
  <2> SUFFICES ASSUME NEW q \in PageId, q \in Allocated', q \notin dead
               PROVE  page_table_'[q] # NoFrame \/ disk'[q] # Absent
    BY DEF AllocatedReadable, Allocated
  <2>1. CASE q = p
    BY <1>1, <1>2, <2>1
  <2>2. CASE q # p
    <3>1. page_table_[q] # NoFrame \/ disk[q] # Absent
      BY <2>2 DEF PoolInv, AllocatedReadable, Allocated
    <3>2. CASE page_table_[q] \notin {NoFrame, Taken}
      BY <1>2, <2>2, <3>2
    <3>3. CASE page_table_[q] = Taken
      <4>1. disk'[q] = data_[Taken]
        BY <3>3, ContractWriteBack
      <4> QED
        BY <1>1, <4>1, FrameTypes DEF PoolInv
    <3>4. CASE page_table_[q] = NoFrame
      BY <3>1, <3>4, ContractWriteBack
    <3> QED
      BY <3>2, <3>3, <3>4
  <2> QED
    BY <2>1, <2>2
<1> QED
  BY <1>8, <1>9, <1>10, <1>11, <1>12, <1>13 DEF PoolInv
-----------------------------------------------------------------------------
\* What a miss and NewPage have in common: the frame taken is given to client c for
\* page p, which was in no frame.
GivesFrame(c, p) ==
  /\ CanTake /\ page_table_[p] = NoFrame /\ p \notin dead
  /\ Allocated' = Allocated \cup {p}
  /\ id_' = [id_ EXCEPT ![Taken] = p]
  /\ \A f \in Frame \ {Taken} : data_'[f] = data_[f] /\ is_dirty_'[f] = is_dirty_[f]
  /\ pin_count_' = [pin_count_ EXCEPT ![Taken] = 1]
  /\ page_table_' = Insert(TableAfterTake, p, Taken)
  /\ free_list_' = FreeAfterTake
  /\ lru' = AfterPin(LruAfterTake, Taken)
  /\ disk' = DiskAfterUpdate
  /\ holds' = holds \cup {[client |-> c, page |-> p, frame |-> Taken]}
  /\ wrote \subseteq wrote' /\ dead' = dead

\* A hit adds one pointer and one pin.
LEMMA FetchHitContract ==
  ASSUME PoolInv, NEW c \in Client, NEW p \in PageId, FetchHit(c, p)
  PROVE  PoolInv'
<1> DEFINE f == page_table_[p]
           h == [client |-> c, page |-> p, frame |-> f]
<1> USE NoFrameLemma
<1>1. RobustInv'
  BY FetchHitRobust DEF PoolInv
<1>2. f \in Frame /\ id_[f] = p
  BY DEF FetchHit, PoolInv, RobustInv, TypeOK, TableMatchesFrames
<1>3. /\ UNCHANGED <<id_, data_, is_dirty_, page_table_, free_list_, disk, fd2pageno_, wrote, dead>>
      /\ holds' = holds \cup {h} /\ h \notin holds
  BY DEF FetchHit, MayFetch
<1>4. /\ pin_count_'[f] = pin_count_[f] + 1
      /\ \A g \in Frame \ {f} : pin_count_'[g] = pin_count_[g]
  BY <1>2 DEF FetchHit, PoolInv, RobustInv, TypeOK
<1>5. lru'.hash = lru.hash \ {f}
  <2>1. lru' = AfterPin(lru, f)
    BY DEF FetchHit
  <2> QED
    BY <1>2, <2>1, ListTypes, AfterPinLemma, SMTT(30) DEF PoolInv
<1>6. FramesAccounted'
  <2> SUFFICES ASSUME NEW g \in Frame
               PROVE  /\ g \in Range(free_list_) \/ Mapped(g)
                      /\ Mapped(g) /\ pin_count_'[g] = 0 => g \in lru'.hash
    BY <1>3 DEF FramesAccounted, Mapped
  <2>1. CASE g = f
    BY <1>2, <1>4, <2>1, SMTT(30) DEF PoolInv, FramesAccounted, RobustInv, TypeOK
  <2>2. CASE g # f
    BY <1>4, <1>5, <2>2 DEF PoolInv, FramesAccounted
  <2> QED
    BY <2>1, <2>2
<1>7. IdsCurrent' /\ CleanMatchesDisk' /\ AllocatedReadable'
  BY <1>3 DEF PoolInv, IdsCurrent, Allocated, CleanMatchesDisk, AllocatedReadable
<1>8. HeldPageStays'
  <2>1. page_table_[h.page] = h.frame /\ id_[h.frame] = h.page
    BY <1>2
  <2> QED
    BY <1>3, <2>1 DEF PoolInv, HeldPageStays
<1>9. IsFiniteSet(holds)' /\ PinCountsHolds'
  <2>1. IsFiniteSet(holds')
    BY <1>3, FS_AddElement DEF PoolInv
  <2>2. ASSUME NEW g \in Frame PROVE pin_count_'[g] = Cardinality({k \in holds' : k.frame = g})
    <3>1. CASE g = f
      <4>1. {k \in holds' : k.frame = g} = Holders(g) \cup {h} /\ h \notin Holders(g)
        BY <1>3, <3>1, SMTT(30) DEF Holders
      <4>2. Cardinality(Holders(g) \cup {h}) = Cardinality(Holders(g)) + 1
        BY <4>1, UnpinnedUnheld, FS_AddElement
      <4> QED
        BY <1>4, <3>1, <4>1, <4>2, UnpinnedUnheld
    <3>2. CASE g # f
      <4>1. {k \in holds' : k.frame = g} = {k \in holds : k.frame = g}
        BY <1>3, <3>2, SMTT(30)
      <4> QED
        BY <1>4, <3>2, <4>1 DEF PoolInv, PinCountsHolds
    <3> QED
      BY <3>1, <3>2
  <2> QED
    BY <2>1, <2>2 DEF PinCountsHolds
<1> QED
  BY <1>1, <1>6, <1>7, <1>8, <1>9 DEF PoolInv

\* A miss hands the frame it took to one client, with the file's bytes.
LEMMA FetchMissStep ==
  ASSUME Faults = {}, PoolInv, NEW c \in Client, NEW p \in PageId, FetchMiss(c, p)
  PROVE  GivesFrame(c, p) /\ p \in Allocated /\ data_'[Taken] = disk'[p]
<1> DEFINE h == [client |-> c, page |-> p, frame |-> Taken]
<1>2. /\ CanTake /\ page_table_[p] = NoFrame /\ p \notin dead /\ p \in Allocated
      /\ Taken \in Frame /\ pin_count_[Taken] = 0
  BY TakeLemma DEF FetchMiss, MayFetch, Allocated, PoolInv
<1>3. Allocated' = Allocated \cup {p}
  BY <1>2 DEF FetchMiss, Allocated
<1>4. page_table_' = Insert(TableAfterTake, p, Taken)
  <2>1. TableAfterTake \in [PageId -> Frame \cup {NoFrame}]
    BY <1>2, TakeLemma DEF PoolInv
  <2>2. TableAfterUpdate(p) = Insert(TableAfterTake, p, Taken)
    BY <1>2, ContractTake DEF TableAfterUpdate
  <2>3. Insert(Insert(TableAfterTake, p, Taken), p, Taken) = Insert(TableAfterTake, p, Taken)
    BY <1>2, <2>1, NoFrameLemma DEF Insert
  <2> QED
    BY <2>2, <2>3 DEF FetchMiss, TableBeforeRead
<1>5. pin_count_' = [pin_count_ EXCEPT ![Taken] = 1]
  BY <1>2, SMTT(30) DEF FetchMiss, PoolInv, RobustInv, TypeOK
<1>6. data_'[Taken] = disk'[p]
  BY <1>2 DEF FetchMiss, PoolInv, RobustInv, TypeOK
<1>7. \A f \in Frame \ {Taken} : data_'[f] = data_[f] /\ is_dirty_'[f] = is_dirty_[f]
  BY <1>2 DEF FetchMiss, PoolInv, RobustInv, TypeOK
<1>8. /\ id_' = [id_ EXCEPT ![Taken] = p] /\ free_list_' = FreeAfterTake
      /\ lru' = AfterPin(LruAfterTake, Taken) /\ disk' = DiskAfterUpdate
      /\ holds' = holds \cup {h} /\ wrote \subseteq wrote' /\ dead' = dead
  BY DEF FetchMiss
<1> QED
  BY <1>2, <1>3, <1>4, <1>5, <1>6, <1>7, <1>8 DEF GivesFrame

LEMMA FetchMissContract ==
  ASSUME Faults = {}, PoolInv, NEW c \in Client, NEW p \in PageId, FetchMiss(c, p)
  PROVE  PoolInv'
<1>1. RobustInv'
  BY FetchMissRobust DEF PoolInv
<1>2. GivesFrame(c, p) /\ data_'[Taken] = disk'[p]
  BY FetchMissStep
<1> QED
  BY <1>1, <1>2, ContractTakeStep DEF GivesFrame

\* A page that was handed out and not deleted is in the pool or in the file,
\* so read_page does not come up short.
LEMMA NoShortRead ==
  ASSUME Faults = {}, PoolInv, NEW c \in Client, NEW p \in PageId
  PROVE  ~ FetchShortRead(c, p) /\ ~ WriteBackThrows
<1>1. ~ WriteBackThrows
  BY DEF WriteBackThrows
<1>2. ASSUME FetchShortRead(c, p) PROVE FALSE
  <2>1. CanTake /\ page_table_[p] = NoFrame /\ DiskAfterUpdate[p] = Absent
    BY <1>2 DEF FetchShortRead, ShortRead
  <2>2. disk[p] # Absent
    BY <1>2, <2>1 DEF FetchShortRead, MayFetch, PoolInv, AllocatedReadable
  <2> QED
    BY <2>1, <2>2, ContractWriteBack
<1> QED
  BY <1>1, <1>2

\* A new page has a number nobody has and one owner, who owes a dirty unpin.
LEMMA NewPageStep ==
  ASSUME Faults = {}, PoolInv, NEW c \in Client, NEW fd \in Fd, NewPage(c, fd)
  PROVE  \E p \in PageId \ Allocated :
           /\ GivesFrame(c, p)
           /\ wrote' = wrote \cup {[client |-> c, page |-> p, frame |-> Taken]}
           /\ data_'[Taken] = Zero
<1> DEFINE p == <<fd, fd2pageno_[fd]>>
           h == [client |-> c, page |-> p, frame |-> Taken]
<1>2. CanTake /\ Taken \in Frame
  BY TakeLemma DEF NewPage, PoolInv
<1>3. /\ p \in PageId /\ p \notin Allocated
      /\ Allocated' = Allocated \cup {p}
  <2>1. /\ fd2pageno_[fd] \in Nat /\ fd2pageno_[fd] < MaxPages
        /\ fd2pageno_ \in [Fd -> 0..MaxPages]
        /\ fd2pageno_' = [fd2pageno_ EXCEPT ![fd] = @ + 1]
    BY SMTT(30) DEF NewPage, PoolInv, RobustInv, TypeOK
  <2>2. p \in PageId /\ p \notin Allocated
    BY <2>1, BufferPoolAssumption, SMTT(30) DEF PageId, PageNo, Allocated
  <2>3. ASSUME NEW q \in PageId PROVE q \in Allocated' <=> q \in Allocated \/ q = p
    <3>1. q[1] \in Fd /\ q[2] \in Nat /\ q = <<q[1], q[2]>>
      BY BufferPoolAssumption, SMTT(30) DEF PageId, PageNo
    <3>2. q \in Allocated' <=> q[2] < fd2pageno_'[q[1]]
      BY DEF Allocated
    <3>3. q \in Allocated <=> q[2] < fd2pageno_[q[1]]
      BY DEF Allocated
    <3>4. CASE q[1] = fd
      BY <2>1, <3>1, <3>2, <3>3, <3>4, SMTT(30)
    <3>5. CASE q[1] # fd
      BY <2>1, <3>1, <3>2, <3>3, <3>5, SMTT(30)
    <3> QED
      BY <3>4, <3>5
  <2> QED
    BY <2>2, <2>3 DEF Allocated
<1> HIDE DEF p
<1>4. p \notin dead /\ page_table_[p] = NoFrame
  <2>1. p \notin dead
    BY <1>3 DEF PoolInv, IdsCurrent
  <2>2. ASSUME page_table_[p] # NoFrame PROVE FALSE
    <3>1. page_table_[p] \in Frame /\ id_[page_table_[p]] = p
      BY <1>3, <2>2 DEF PoolInv, RobustInv, TypeOK, TableMatchesFrames
    <3> QED
      BY <1>3, <3>1, BufferPoolAssumption DEF PoolInv, IdsCurrent
  <2> QED
    BY <2>1, <2>2
<1>5. /\ id_' = [id_ EXCEPT ![Taken] = p]
      /\ data_' = [data_ EXCEPT ![Taken] = Zero]
      /\ is_dirty_' = [is_dirty_ EXCEPT ![Taken] = FALSE]
      /\ pin_count_' = [pin_count_ EXCEPT ![Taken] = 1]
      /\ page_table_' = TableAfterUpdate(p)
      /\ free_list_' = FreeAfterTake
      /\ lru' = AfterPin(LruAfterTake, Taken)
      /\ disk' = DiskAfterUpdate
      /\ holds' = holds \cup {h}
      /\ wrote' = wrote \cup {h}
      /\ dead' = dead
  BY DEF NewPage, p, WriteBackThrows
<1>6. page_table_' = Insert(TableAfterTake, p, Taken)
  BY <1>2, <1>5, ContractTake DEF TableAfterUpdate
<1>7. \A f \in Frame \ {Taken} : data_'[f] = data_[f] /\ is_dirty_'[f] = is_dirty_[f]
  BY <1>2, <1>5 DEF PoolInv, RobustInv, TypeOK
<1>8. data_'[Taken] = Zero
  BY <1>2, <1>5 DEF PoolInv, RobustInv, TypeOK
<1>9. h \in holds' /\ h = [client |-> c, page |-> p, frame |-> Taken]
  BY <1>5
<1> HIDE DEF h
<1> QED
  BY <1>2, <1>3, <1>4, <1>5, <1>6, <1>7, <1>8, <1>9 DEF GivesFrame

LEMMA NewPageContract ==
  ASSUME Faults = {}, PoolInv, NEW c \in Client, NEW fd \in Fd, NewPage(c, fd)
  PROVE  PoolInv'
<1>1. RobustInv'
  BY NewPageRobust DEF PoolInv
<1>2. PICK p \in PageId \ Allocated :
           /\ GivesFrame(c, p)
           /\ wrote' = wrote \cup {[client |-> c, page |-> p, frame |-> Taken]}
           /\ data_'[Taken] = Zero
  BY NewPageStep
<1> QED
  BY <1>1, <1>2, ContractTakeStep DEF GivesFrame

\* An unpin ends one pointer, and what that client wrote marks the page.
LEMMA UnpinPageContract ==
  ASSUME PoolInv, NEW h \in holds, NEW dirty \in BOOLEAN, UnpinPage(h, dirty)
  PROVE  PoolInv'
<1> DEFINE f == page_table_[h.page]
<1> USE NoFrameLemma
<1>1. RobustInv'
  BY UnpinPageRobust DEF PoolInv
<1>2. f = h.frame /\ h.frame \in Frame /\ h.page \in PageId
  BY DEF PoolInv, HeldPageStays, RobustInv, TypeOK, Hold
<1>3. pin_count_[f] > 0
  <2>1. pin_count_[f] # 0
    BY <1>2, UnpinnedUnheld
  <2>2. pin_count_[f] \in Nat
    BY <1>2, FrameTypes DEF PoolInv
  <2> QED
    BY <2>1, <2>2, SMTT(30)
<1>4. /\ pin_count_' = [pin_count_ EXCEPT ![f] = @ - 1]
      /\ is_dirty_' = [is_dirty_ EXCEPT ![f] = @ \/ dirty]
      /\ lru' = IF pin_count_[f] = 1 THEN AfterUnpin(lru, f) ELSE lru
      /\ h \in wrote => dirty
      /\ holds' = holds \ {h} /\ wrote' = wrote \ {h}
      /\ UNCHANGED <<id_, data_, page_table_, free_list_, disk, fd2pageno_, dead>>
  BY <1>2, <1>3 DEF UnpinPage
<1>5. /\ pin_count_'[f] = pin_count_[f] - 1 /\ (is_dirty_'[f] <=> is_dirty_[f] \/ dirty)
      /\ \A g \in Frame \ {f} : pin_count_'[g] = pin_count_[g] /\ is_dirty_'[g] = is_dirty_[g]
  BY <1>2, <1>4 DEF PoolInv, RobustInv, TypeOK
<1>6. lru.hash \subseteq lru'.hash /\ (pin_count_[f] = 1 => f \in lru'.hash)
  <2>1. AfterUnpin(lru, f).hash = lru.hash \cup {f}
    BY <1>2, ListTypes, AfterUnpinLemma, SMTT(30) DEF PoolInv
  <2> QED
    BY <1>4, <2>1
<1>7. FramesAccounted'
  <2> SUFFICES ASSUME NEW g \in Frame
               PROVE  /\ g \in Range(free_list_) \/ Mapped(g)
                      /\ Mapped(g) /\ pin_count_'[g] = 0 => g \in lru'.hash
    BY <1>4 DEF FramesAccounted, Mapped
  <2>1. CASE g = f
    <3>1. pin_count_[f] \in Nat
      BY <1>2 DEF PoolInv, RobustInv, TypeOK
    <3>2. g \in Range(free_list_) \/ Mapped(g)
      BY DEF PoolInv, FramesAccounted
    <3>3. pin_count_'[g] = 0 => pin_count_[f] = 1
      BY <1>5, <2>1, <3>1, SMTT(30)
    <3> QED
      BY <1>6, <2>1, <3>2, <3>3
  <2>2. CASE g # f
    BY <1>5, <1>6, <2>2 DEF PoolInv, FramesAccounted
  <2> QED
    BY <2>1, <2>2
<1>8. IdsCurrent' /\ AllocatedReadable'
  BY <1>4 DEF PoolInv, IdsCurrent, Allocated, AllocatedReadable
<1>9. HeldPageStays'
  BY <1>4 DEF PoolInv, HeldPageStays
<1>10. IsFiniteSet(holds)' /\ PinCountsHolds'
  <2>1. IsFiniteSet(holds')
    BY <1>4, FS_RemoveElement DEF PoolInv
  <2>2. ASSUME NEW g \in Frame PROVE pin_count_'[g] = Cardinality({k \in holds' : k.frame = g})
    <3>1. CASE g = f
      <4>1. {k \in holds' : k.frame = g} = Holders(g) \ {h} /\ h \in Holders(g)
        BY <1>2, <1>4, <3>1 DEF Holders
      <4>2. Cardinality(Holders(g) \ {h}) = Cardinality(Holders(g)) - 1
        BY <4>1, UnpinnedUnheld, FS_RemoveElement
      <4> QED
        BY <1>5, <3>1, <4>1, <4>2, UnpinnedUnheld
    <3>2. CASE g # f
      <4>1. {k \in holds' : k.frame = g} = {k \in holds : k.frame = g}
        BY <1>2, <1>4, <3>2
      <4> QED
        BY <1>5, <3>2, <4>1, SMTT(30) DEF PoolInv, PinCountsHolds
    <3> QED
      BY <3>1, <3>2
  <2> QED
    BY <2>1, <2>2 DEF PinCountsHolds
<1>11. CleanMatchesDisk'
  <2> SUFFICES ASSUME NEW q \in PageId, page_table_[q] # NoFrame,
                      ~ is_dirty_'[page_table_[q]],
                      ~ \E g \in wrote' : g.frame = page_table_[q]
               PROVE  data_[page_table_[q]] = disk[q]
    BY <1>4 DEF CleanMatchesDisk
  <2>1. page_table_[q] \in Frame
    BY DEF PoolInv, RobustInv, TypeOK
  <2>2. ~ is_dirty_[page_table_[q]] /\ ~ \E g \in wrote : g.frame = page_table_[q]
    <3>1. CASE page_table_[q] = f
      BY <1>4, <1>5, <3>1
    <3>2. CASE page_table_[q] # f
      BY <1>2, <1>4, <1>5, <2>1, <3>2
    <3> QED
      BY <3>1, <3>2
  <2> QED
    BY <2>2 DEF PoolInv, CleanMatchesDisk
<1> QED
  BY <1>1, <1>7, <1>8, <1>9, <1>10, <1>11 DEF PoolInv
=============================================================================
