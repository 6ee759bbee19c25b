-------------------------- MODULE BufferPoolProofs --------------------------
(***************************************************************************)
(* The theorems about BufferPool, for every pool size, set of files, set   *)
(* of clients and number of pages: PoolRobust with every fault; PoolSafe   *)
(* and that the pool implements PageStore, without; and the lemmas about   *)
(* the steps that move no page from frame to frame.                        *)
(***************************************************************************)
EXTENDS BufferPoolSteps

\* Most leaves are first-order; the others name the prover they need.
USE Zenon

\* A set of frames has a last one, the one whose write FlushAllPages leaves in
\* the file.
LEMMA LastFrame ==
  ASSUME NEW own \in SUBSET Frame, own # {}
  PROVE  \E f \in own : \A g \in own : g <= f
<1> DEFINE R == {ss \in Nat \X Nat : ss[1] < ss[2]}
           T == {PoolSize - f : f \in own}
<1>1. own \subseteq Int /\ T \subseteq Nat /\ T # {} /\ PoolSize \in Nat
  <2>1. PoolSize \in Nat /\ \A f \in own : f \in Int /\ PoolSize - f \in Nat
    BY BufferPoolAssumption, SMTT(30) DEF Frame
  <2>2. T # {}
    <3>1. PICK f \in own : TRUE
      OBVIOUS
    <3>2. PoolSize - f \in T
      OBVIOUS
    <3> QED BY <3>2
  <2> QED BY <2>1, <2>2
<1>2. IsWellFoundedOn(R, Nat)
  BY NatLessThanWellFounded DEF OpToRel
<1>3. PICK x \in T : \A y \in T : <<y, x>> \notin R
  <2> HIDE DEF R, T
  <2> QED BY <1>1, <1>2, WFMin
<1>4. ASSUME NEW y \in T PROVE x <= y
  <2>1. x \in Nat /\ y \in Nat /\ <<y, x>> \notin R
    <3> HIDE DEF R, T
    <3> QED BY <1>1, <1>3, <1>4
  <2>2. ~ (y < x)
    <3> HIDE DEF T
    <3> QED BY <2>1
  <2> HIDE DEF R, T
  <2> QED BY <2>1, <2>2, SMTT(30)
<1>5. PICK f \in own : x = PoolSize - f
  BY <1>3
<1>6. ASSUME NEW g \in own PROVE g <= f
  <2>1. PoolSize - f <= PoolSize - g
    BY <1>4, <1>5
  <2> QED BY <1>1, <2>1, SMTT(30)
<1> QED
  BY <1>6

\* A client's write and the two flushes change no frame's place.
LEMMA InPlaceRobust ==
  ASSUME RobustInv,
         \/ \E h \in holds, v \in Value : WriteData(h, v)
         \/ \E p \in PageId : FlushPage(p)
         \/ \E fd \in Fd, end \in 0..PoolSize : FlushAllPages(fd, end)
  PROVE  RobustInv'
<1>1. ASSUME NEW h \in holds, NEW v \in Value, WriteData(h, v) PROVE RobustInv'
  <2>1. h.frame \in Frame
    BY DEF RobustInv, TypeOK, Hold
  <2>2. TypeOK'
    BY <1>1, <2>1 DEF WriteData, RobustInv, TypeOK, Content
  <2> QED
    BY <1>1, <2>2 DEF WriteData, RobustInv, TableMatchesFrames, OnlyUnpinnedEvictable, Mapped
<1>2. ASSUME NEW p \in PageId, FlushPage(p) PROVE RobustInv'
  <2>1. page_table_[p] \in Frame
    BY <1>2 DEF FlushPage, RobustInv, TypeOK
  <2>2. disk' \in [PageId -> Content \cup {Absent}]
    BY <1>2, <2>1, DiskTypes DEF FlushPage, RobustInv, TypeOK
  <2>3. TypeOK'
    BY <1>2, <2>1, <2>2 DEF FlushPage, RobustInv, TypeOK
  <2> QED
    BY <1>2, <2>3 DEF FlushPage, RobustInv, TableMatchesFrames, OnlyUnpinnedEvictable, Mapped
<1>3. ASSUME NEW fd \in Fd, NEW end \in 0..PoolSize, FlushAllPages(fd, end) PROVE RobustInv'
  <2> DEFINE S == {f \in Frame : f < end /\ InFile(fd, f)}
  <2>1. disk' = DiskAfterFlush(S)
    BY <1>3 DEF FlushAllPages
  <2>2. disk' \in [PageId -> Content \cup {Absent}]
    <3>1. ASSUME NEW q \in PageId, NEW own \in SUBSET S, own # {}
          PROVE  data_[CHOOSE f \in own : \A g \in own : g <= f] \in Content
      <4>1. \E f \in own : \A g \in own : g <= f
        BY <3>1, LastFrame
      <4> QED
        BY <4>1 DEF RobustInv, TypeOK
    <3> QED
      BY <2>1, <3>1 DEF DiskAfterFlush, RobustInv, TypeOK, Content
  <2>3. TypeOK'
    BY <1>3, <2>2 DEF FlushAllPages, RobustInv, TypeOK
  <2> QED
    BY <1>3, <2>3 DEF FlushAllPages, RobustInv, TableMatchesFrames, OnlyUnpinnedEvictable, Mapped
<1> QED
  BY <1>1, <1>2, <1>3

\* In every state the pool can reach, whatever its clients forget and whatever
\* throws: the page table and the frames' ids agree, no pinned frame can be
\* evicted, and no mapped or pinned frame is on the free list.
THEOREM PoolRobust == Spec => [](TypeOK /\ TableMatchesFrames /\ OnlyUnpinnedEvictable)
<1>1. Init => RobustInv
  BY InitRobust
<1>2. RobustInv /\ [Next]_vars => RobustInv'
  <2> SUFFICES ASSUME RobustInv, [Next]_vars PROVE RobustInv'
    OBVIOUS
  <2>1. ASSUME NEW c \in Client, NEW p \in PageId, FetchPage(c, p) PROVE RobustInv'
    <3>1. CASE FetchWriteError(c, p)
      BY <3>1, WriteBackThrowsRobust DEF FetchWriteError, RobustInv, TypeOK
    <3> QED
      BY <2>1, <3>1, FetchHitRobust, FetchMissRobust, FetchShortReadRobust DEF FetchPage
  <2>2. CASE UNCHANGED vars
    BY <2>2 DEF vars, RobustInv, TypeOK, TableMatchesFrames, OnlyUnpinnedEvictable, Mapped
  <2> QED
    BY <2>1, <2>2, NewPageRobust, UnpinPageRobust, DeletePageRobust, InPlaceRobust DEF Next
<1>3. RobustInv => TypeOK /\ TableMatchesFrames /\ OnlyUnpinnedEvictable
  BY DEF RobustInv
<1> QED
  BY <1>1, <1>2, <1>3, PTL DEF Spec

\* Every field keeps its type: no call indexes page_table_ or pages_ with what is not
\* a frame, or puts a frame that does not exist on a list.
THEOREM PoolTypes == Spec => []TypeOK
  BY PoolRobust, PTL

\* The page table and the ids in the frames agree, after any exception too.
THEOREM TableAgrees == Spec => []TableMatchesFrames
  BY PoolRobust, PTL

\* A pinned frame is neither free nor in the replacer: nobody can take it away.
THEOREM PinnedStays == Spec => []OnlyUnpinnedEvictable
  BY PoolRobust, PTL
-----------------------------------------------------------------------------
\* Only a page nobody holds is deleted, and its frame is free again.
LEMMA DeletePageContract ==
  ASSUME PoolInv, NEW p \in PageId, DeletePage(p)
  PROVE  PoolInv'
<1> DEFINE f == page_table_[p]
<1> USE NoFrameLemma
<1>1. RobustInv'
  BY DeletePageRobust DEF PoolInv
<1>2. /\ UNCHANGED <<id_, is_dirty_, pin_count_, lru, disk, fd2pageno_, holds, wrote>>
      /\ dead' = dead \cup {p} /\ p \in Allocated
  BY DEF DeletePage, Allocated
<1>3. IsFiniteSet(holds)' /\ PinCountsHolds'
  BY <1>2 DEF PoolInv, PinCountsHolds
<1>4. CASE f = NoFrame /\ UNCHANGED <<page_table_, data_, free_list_>>
  <2>1. FramesAccounted' /\ HeldPageStays' /\ CleanMatchesDisk' /\ AllocatedReadable'
    BY <1>2, <1>4 DEF PoolInv, FramesAccounted, Mapped, HeldPageStays, CleanMatchesDisk, AllocatedReadable
  <2>2. IdsCurrent'
    BY <1>2, <1>4 DEF PoolInv, IdsCurrent, Allocated
  <2> QED
    BY <1>1, <1>3, <2>1, <2>2 DEF PoolInv
<1>5. CASE /\ f # NoFrame
           /\ pin_count_[f] <= 0
           /\ page_table_' = Erase(page_table_, p)
           /\ data_' = [data_ EXCEPT ![f] = Zero]
           /\ free_list_' = Append(free_list_, f)
  <2>1. f \in Frame /\ pin_count_[f] = 0 /\ id_[f] = p
    BY <1>5, SMTT(30) DEF PoolInv, RobustInv, TypeOK, TableMatchesFrames
  <2>2. \A h \in holds : h.frame # f
    BY <2>1, UnpinnedUnheld
  <2>3. \A q \in PageId : page_table_'[q] = IF q = p THEN NoFrame ELSE page_table_[q]
    BY <1>5 DEF Erase
  <2>4. \A q \in PageId \ {p} : page_table_[q] # f
    BY <2>1 DEF PoolInv, RobustInv, TableMatchesFrames
  <2>5. Range(free_list_') = Range(free_list_) \cup {f}
    <3>1. f \notin Range(free_list_)
      BY <1>5, <2>1 DEF PoolInv, RobustInv, OnlyUnpinnedEvictable, Mapped
    <3> QED
      <4>1. free_list_ \in Seq(Frame) /\ Distinct(free_list_)
        BY ListTypes DEF PoolInv
      <4>2. Range(Append(free_list_, f)) = Range(free_list_) \cup {f}
        BY <2>1, <3>1, <4>1, PushBackLemma, SMTT(30)
      <4> QED
        BY <1>5, <4>2
  <2>6. FramesAccounted'
    <3>1. \A g \in Frame \ {f} : Mapped(g)' <=> Mapped(g)
      BY <2>3 DEF Mapped
    <3>2. ~ \E q \in PageId : page_table_'[q] = f
      BY <2>1, <2>3, <2>4
    <3> SUFFICES ASSUME NEW g \in Frame
                 PROVE  /\ g \in Range(free_list_') \/ Mapped(g)'
                        /\ Mapped(g)' /\ pin_count_[g] = 0 => g \in lru.hash
      BY <1>2 DEF FramesAccounted
    <3>3. CASE g = f
      BY <2>5, <3>2, <3>3 DEF Mapped
    <3>4. CASE g # f
      BY <2>5, <3>1, <3>4 DEF PoolInv, FramesAccounted
    <3> QED
      BY <3>3, <3>4
  <2>7. IdsCurrent'
    <3>1. \A g \in Frame : id_[g] # NoPage =>
            id_[g] \in Allocated /\ (page_table_'[id_[g]] = g \/ id_[g] \in dead')
      <4> SUFFICES ASSUME NEW g \in Frame, id_[g] # NoPage
                   PROVE  id_[g] \in Allocated /\ (page_table_'[id_[g]] = g \/ id_[g] \in dead')
        OBVIOUS
      <4>1. id_[g] \in PageId
        BY DEF PoolInv, RobustInv, TypeOK
      <4> QED
        BY <1>2, <2>3, <4>1 DEF PoolInv, IdsCurrent
    <3>2. \A q \in dead' : q \in Allocated /\ page_table_'[q] = NoFrame
      BY <1>2, <2>3 DEF PoolInv, IdsCurrent, RobustInv, TypeOK
    <3> QED
      BY <1>2, <3>1, <3>2 DEF IdsCurrent, Allocated
  <2>8. HeldPageStays'
    <3> SUFFICES ASSUME NEW h \in holds PROVE page_table_'[h.page] = h.frame /\ id_[h.frame] = h.page
      BY <1>2 DEF HeldPageStays
    <3>1. page_table_[h.page] = h.frame /\ id_[h.frame] = h.page /\ h.page \in PageId
      BY DEF PoolInv, HeldPageStays, RobustInv, TypeOK, Hold
    <3> QED
      BY <2>2, <2>3, <3>1
  <2>9. CleanMatchesDisk'
    <3>1. \A g \in Frame \ {f} : data_'[g] = data_[g]
      BY <1>5, <2>1 DEF PoolInv, RobustInv, TypeOK
    <3> SUFFICES ASSUME NEW q \in PageId, page_table_'[q] # NoFrame,
                        ~ is_dirty_[page_table_'[q]],
                        ~ \E g \in wrote : g.frame = page_table_'[q]
                 PROVE  data_'[page_table_'[q]] = disk[q]
      BY <1>2 DEF CleanMatchesDisk
    <3>2. q # p /\ page_table_'[q] = page_table_[q] /\ page_table_[q] \in Frame \ {f}
      BY <2>3, <2>4 DEF PoolInv, RobustInv, TypeOK
    <3> QED
      BY <3>1, <3>2 DEF PoolInv, CleanMatchesDisk
  <2>10. AllocatedReadable'
    BY <1>2, <2>3 DEF PoolInv, AllocatedReadable
  <2> QED
    BY <1>1, <1>3, <2>6, <2>7, <2>8, <2>9, <2>10, ZenonT(60) DEF PoolInv
<1> QED
  BY <1>4, <1>5 DEF DeletePage

\* A step that moves no frame keeps everything but what it says of contents.
LEMMA InPlaceContract ==
  ASSUME PoolInv, RobustInv',
         UNCHANGED <<id_, pin_count_, page_table_, free_list_, lru, fd2pageno_, holds, dead>>,
         CleanMatchesDisk', AllocatedReadable'
  PROVE  PoolInv'
<1>1. FramesAccounted' /\ IdsCurrent' /\ HeldPageStays'
  BY DEF PoolInv, FramesAccounted, Mapped, IdsCurrent, Allocated, HeldPageStays
<1>2. IsFiniteSet(holds)' /\ PinCountsHolds'
  BY DEF PoolInv, PinCountsHolds
<1> QED
  BY <1>1, <1>2 DEF PoolInv

\* A client that writes owes the pool a dirty unpin.
LEMMA WriteDataContract ==
  ASSUME PoolInv, NEW h \in holds, NEW v \in Value, WriteData(h, v)
  PROVE  PoolInv'
<1>1. RobustInv'
  BY InPlaceRobust DEF PoolInv
<1>2. AllocatedReadable'
  BY DEF WriteData, PoolInv, AllocatedReadable
<1>3. CleanMatchesDisk'
  <2>1. h.frame \in Frame /\ \A g \in Frame \ {h.frame} : data_'[g] = data_[g]
    BY DEF WriteData, PoolInv, RobustInv, TypeOK, Hold
  <2>2. page_table_ \in [PageId -> Frame \cup {NoFrame}]
    BY DEF PoolInv, RobustInv, TypeOK
  <2> QED
    BY <2>1, <2>2 DEF WriteData, PoolInv, CleanMatchesDisk
<1> QED
  BY <1>1, <1>2, <1>3, InPlaceContract DEF WriteData

\* A flush makes the file's copy equal to the frame's.
LEMMA FlushPageContract ==
  ASSUME PoolInv, NEW p \in PageId, FlushPage(p)
  PROVE  PoolInv'
<1> DEFINE f == page_table_[p]
<1>1. RobustInv'
  BY InPlaceRobust DEF PoolInv
<1>2. f \in Frame /\ id_[f] = p /\ data_[f] \in Content
  BY DEF FlushPage, PoolInv, RobustInv, TypeOK, TableMatchesFrames
<1>3. /\ \A q \in PageId : disk'[q] = IF q = p THEN data_[f]
                             ELSE IF q[1] = p[1] /\ q[2] < p[2] /\ disk[q] = Absent THEN Zero
                             ELSE disk[q]
      /\ \A g \in Frame \ {f} : is_dirty_'[g] = is_dirty_[g]
      /\ wrote' = {h \in wrote : h.frame # f}
      /\ UNCHANGED <<id_, data_, pin_count_, page_table_, free_list_, lru, fd2pageno_, holds, dead>>
  BY <1>2 DEF FlushPage, write_page, PoolInv, RobustInv, TypeOK
<1>4. AllocatedReadable'
  BY <1>2, <1>3, BufferPoolAssumption DEF PoolInv, AllocatedReadable, Content
<1>5. CleanMatchesDisk'
  <2> SUFFICES ASSUME NEW q \in PageId, page_table_[q] # NoFrame,
                      ~ is_dirty_'[page_table_[q]],
                      ~ \E h \in wrote' : h.frame = page_table_[q]
               PROVE  data_[page_table_[q]] = disk'[q]
    BY <1>3 DEF CleanMatchesDisk
  <2>1. CASE q = p
    BY <1>3, <2>1
  <2>2. CASE q # p
    <3>1. page_table_[q] \in Frame \ {f}
      BY <1>2, <2>2 DEF PoolInv, RobustInv, TypeOK, TableMatchesFrames
    <3>2. data_[page_table_[q]] = disk[q]
      BY <1>3, <3>1 DEF PoolInv, CleanMatchesDisk
    <3>3. disk[q] # Absent
      BY <3>1, <3>2, FrameTypes DEF PoolInv
    <3> QED
      BY <1>3, <2>2, <3>2, <3>3
  <2> QED
    BY <2>1, <2>2
<1> QED
  BY <1>1, <1>3, <1>4, <1>5, InPlaceContract

\* Flushing a file makes the file's copy of every mapped page equal to the
\* frame's: no second frame carries the page's id.
LEMMA FlushAllPagesContract ==
  ASSUME Faults = {}, PoolInv, NEW fd \in Fd, NEW end \in 0..PoolSize, FlushAllPages(fd, end)
  PROVE  PoolInv'
<1> DEFINE S == {f \in Frame : f < end /\ InFile(fd, f)}
           Own(q) == {f \in S : id_[f] = q}
           Final(q) == CHOOSE f \in Own(q) : \A g \in Own(q) : g <= f
<1>1. RobustInv'
  BY InPlaceRobust DEF PoolInv
<1>2. /\ \A q \in PageId : disk'[q] =
           IF Own(q) # {} THEN data_[Final(q)]
           ELSE IF disk[q] = Absent /\ \E f \in S : id_[f][1] = q[1] /\ id_[f][2] > q[2] THEN Zero
           ELSE disk[q]
      /\ \A f \in Frame : is_dirty_'[f] = (is_dirty_[f] /\ f \notin S)
      /\ wrote' = {h \in wrote : h.frame \notin S}
      /\ UNCHANGED <<id_, data_, pin_count_, page_table_, free_list_, lru, fd2pageno_, holds, dead>>
  BY DEF FlushAllPages, DiskAfterFlush
<1>3. ASSUME NEW q \in PageId, Own(q) # {} PROVE disk'[q] \in Content
  <2>1. Own(q) \in SUBSET Frame
    OBVIOUS
  <2>2. \E f \in Own(q) : \A g \in Own(q) : g <= f
    <3> HIDE DEF Own
    <3> QED
      BY <1>3, <2>1, LastFrame
  <2>3. Final(q) \in Frame
    <3> HIDE DEF S
    <3> QED
      BY <2>1, <2>2
  <2> HIDE DEF Own, Final, S
  <2> QED
    BY <1>2, <1>3, <2>3 DEF PoolInv, RobustInv, TypeOK
<1>4. AllocatedReadable'
  <2>1. \A q \in PageId : disk[q] # Absent => disk'[q] # Absent
    <3> SUFFICES ASSUME NEW q \in PageId, disk[q] # Absent PROVE disk'[q] # Absent
      OBVIOUS
    <3>1. CASE Own(q) # {}
      BY <1>3, <3>1, BufferPoolAssumption
    <3>2. CASE Own(q) = {}
      BY <1>2, <3>2
    <3> QED
      BY <3>1, <3>2
  <2> QED
    BY <1>2, <2>1 DEF PoolInv, AllocatedReadable
<1>5. CleanMatchesDisk'
  <2> SUFFICES ASSUME NEW q \in PageId, page_table_[q] # NoFrame,
                      ~ is_dirty_'[page_table_[q]],
                      ~ \E h \in wrote' : h.frame = page_table_[q]
               PROVE  data_[page_table_[q]] = disk'[q]
    BY <1>2 DEF CleanMatchesDisk
  <2> DEFINE f == page_table_[q]
  <2>1. f \in Frame /\ id_[f] = q
    BY DEF PoolInv, RobustInv, TypeOK, TableMatchesFrames
  <2>2. \A g \in Frame : id_[g] = q => g = f
    BY <2>1, BufferPoolAssumption DEF PoolInv, IdsCurrent
  <2>3. CASE f \in S
    <3>1. Own(q) = {f}
      BY <2>1, <2>2, <2>3
    <3>2. Final(q) = f
      <4>1. f <= f
        BY <2>1, BufferPoolAssumption, SMTT(30) DEF Frame
      <4> HIDE DEF Own
      <4> QED
        BY <3>1, <4>1
    <3> HIDE DEF Own, Final, S
    <3> QED
      BY <1>2, <3>1, <3>2
  <2>4. CASE f \notin S
    <3>1. Own(q) = {}
      BY <2>2, <2>4
    <3>2. data_[f] = disk[q]
      BY <1>2, <2>1, <2>4 DEF PoolInv, CleanMatchesDisk
    <3>3. disk[q] # Absent
      BY <2>1, <3>2, FrameTypes DEF PoolInv
    <3> QED
      BY <1>2, <3>1, <3>2, <3>3
  <2> QED
    BY <2>3, <2>4
<1> QED
  BY <1>1, <1>2, <1>4, <1>5, InPlaceContract
-----------------------------------------------------------------------------
\* The inductive invariant of the contract.
THEOREM PoolInvariant == ASSUME Faults = {} PROVE Spec => []PoolInv
<1>1. Init => PoolInv
  <2> SUFFICES ASSUME Init PROVE PoolInv
    OBVIOUS
  <2>1. RobustInv
    BY InitRobust
  <2>2. FramesAccounted
    <3>1. \A p \in PageId : page_table_[p] = NoFrame
      BY DEF Init
    <3>2. ASSUME NEW f \in Frame PROVE f \in Range(free_list_)
      <4>1. f + 1 \in 1..PoolSize /\ (f + 1) - 1 = f
        BY BufferPoolAssumption, SMTT(30) DEF Frame
      <4>2. free_list_[f + 1] = f /\ f + 1 \in DOMAIN free_list_
        BY <4>1 DEF Init
      <4> QED
        BY <4>2 DEF Range
    <3> QED
      BY <3>1, <3>2, NoFrameLemma DEF FramesAccounted, Mapped
  <2>3. IdsCurrent /\ HeldPageStays /\ CleanMatchesDisk
    BY DEF Init, IdsCurrent, HeldPageStays, CleanMatchesDisk
  <2>4. AllocatedReadable
    <3> SUFFICES ASSUME NEW p \in PageId, p[2] < fd2pageno_[p[1]] PROVE disk[p] # Absent
      BY DEF AllocatedReadable
    <3>1. p[1] \in Fd
      BY DEF PageId
    <3> QED
      BY <3>1, BufferPoolAssumption DEF Init, Content
  <2>5. IsFiniteSet(holds) /\ PinCountsHolds
    <3>1. \A f \in Frame : {h \in holds : h.frame = f} = {}
      BY DEF Init
    <3> QED
      BY <3>1, FS_EmptySet DEF Init, PinCountsHolds
  <2> QED
    BY <2>1, <2>2, <2>3, <2>4, <2>5 DEF PoolInv
<1>2. PoolInv /\ [Next]_vars => PoolInv'
  <2> SUFFICES ASSUME PoolInv, [Next]_vars PROVE PoolInv'
    OBVIOUS
  <2>1. ASSUME NEW c \in Client, NEW p \in PageId, FetchPage(c, p) PROVE PoolInv'
    BY <2>1, FetchHitContract, FetchMissContract, NoShortRead DEF FetchPage, FetchWriteError
  <2>2. ASSUME NEW h \in holds, NEW v \in Value, WriteData(h, v) PROVE PoolInv'
    BY <2>2, WriteDataContract
  <2>3. CASE UNCHANGED vars
    <3>1. RobustInv'
      BY <2>3 DEF vars, PoolInv, RobustInv, TypeOK, TableMatchesFrames, OnlyUnpinnedEvictable, Mapped
    <3>2. CleanMatchesDisk' /\ AllocatedReadable'
      BY <2>3 DEF vars, PoolInv, CleanMatchesDisk, AllocatedReadable
    <3> QED
      BY <2>3, <3>1, <3>2, InPlaceContract DEF vars
  <2> QED
    BY <2>1, <2>2, <2>3, NewPageContract, UnpinPageContract, FlushPageContract,
       FlushAllPagesContract, DeletePageContract DEF Next
<1> QED
  BY <1>1, <1>2, PTL DEF Spec

\* As long as clients keep to the contract and the disk does not fail: a page
\* in use stays in its frame, the pin count is the number of its users, no
\* call loses a frame, and no byte a client unpinned as dirty is lost by an
\* eviction.
THEOREM PoolSafe ==
  ASSUME Faults = {}
  PROVE  Spec => [](/\ HeldPageStays
                    /\ PinCountsHolds
                    /\ NullOnlyWhenAllPinned
                    /\ CleanMatchesDisk
                    /\ AllocatedReadable)
<1>1. PoolInv => NullOnlyWhenAllPinned
  <2> SUFFICES ASSUME PoolInv, NEW f \in Frame, pin_count_[f] = 0 PROVE CanTake
    BY DEF NullOnlyWhenAllPinned
  <2>1. CASE f \in Range(free_list_)
    BY <2>1, SMTT(30) DEF CanTake, Range
  <2>2. CASE f \in lru.hash
    BY <2>2, SMTT(30) DEF CanTake, HasVictim, PoolInv, RobustInv, Consistent, Range
  <2> QED
    BY <2>1, <2>2 DEF PoolInv, FramesAccounted
<1>2. PoolInv => HeldPageStays /\ PinCountsHolds /\ CleanMatchesDisk /\ AllocatedReadable
  BY DEF PoolInv
<1> QED
  BY <1>1, <1>2, PoolInvariant, PTL

\* The pin count of a frame is the number of pointers that clients hold to its page.
THEOREM PinsExact == ASSUME Faults = {} PROVE Spec => []PinCountsHolds
  BY PoolSafe, PTL

\* As long as a frame is unpinned, FetchPage and NewPage find a frame.
THEOREM NoFrameLost == ASSUME Faults = {} PROVE Spec => []NullOnlyWhenAllPinned
  BY PoolSafe, PTL

\* A page that is not dirty and that nobody is writing can be evicted without loss.
THEOREM CleanOnDisk == ASSUME Faults = {} PROVE Spec => []CleanMatchesDisk
  BY PoolSafe, PTL

\* Every page that was allocated can be read back, from its frame or from the file.
THEOREM PagesReadable == ASSUME Faults = {} PROVE Spec => []AllocatedReadable
  BY PoolSafe, PTL
-----------------------------------------------------------------------------
(* The pool as a PageStore.  Two more invariants: a page with a number nobody was   *)
(* given has no bytes in its file, and a dirty frame has a page to be written to.   *)

FileEnds ==
  /\ \A p \in PageId : p \notin Allocated => disk[p] = Absent
  /\ \A f \in Frame : is_dirty_[f] => id_[f] # NoPage

LEMMA BelowAllocated ==
  ASSUME PoolInv, NEW p \in Allocated, NEW q \in PageId, q[1] = p[1], q[2] < p[2]
  PROVE  q \in Allocated
<1> DEFINE m == p[2]
           n == q[2]
           k == fd2pageno_[p[1]]
<1>1. m \in Int /\ n \in Int /\ k \in Int
  BY BufferPoolAssumption, SMTT(30) DEF PoolInv, RobustInv, TypeOK, Allocated, PageId, PageNo
<1>2. n < m /\ m < k
  BY DEF Allocated
<1> HIDE DEF m, n, k
<1>3. n < k
  BY <1>1, <1>2, SMTT(30)
<1> QED
  BY <1>3 DEF Allocated, n, k

\* A write to the page of a frame, and the hole it leaves, end before the file does.
LEMMA WritesInside ==
  ASSUME PoolInv, FileEnds, Allocated \subseteq Allocated',
         \A q \in PageId :
           \/ disk'[q] = disk[q]
           \/ \E f \in Frame : /\ id_[f] # NoPage
                               /\ q = id_[f] \/ (q[1] = id_[f][1] /\ q[2] < id_[f][2])
  PROVE  \A q \in PageId : q \notin Allocated' => disk'[q] = Absent
<1> SUFFICES ASSUME NEW q \in PageId, q \notin Allocated, disk'[q] # disk[q] PROVE FALSE
  BY DEF FileEnds
<1>1. PICK f \in Frame : /\ id_[f] # NoPage
                         /\ q = id_[f] \/ (q[1] = id_[f][1] /\ q[2] < id_[f][2])
  OBVIOUS
<1>2. id_[f] \in Allocated
  BY <1>1 DEF PoolInv, IdsCurrent
<1> QED
  BY <1>1, <1>2, BelowAllocated

LEMMA GivesFrameFileEnds ==
  ASSUME PoolInv, FileEnds, NEW c \in Client, NEW p \in PageId, GivesFrame(c, p),
         is_dirty_' = [is_dirty_ EXCEPT ![Taken] = FALSE]
  PROVE  FileEnds'
<1>1. Taken \in Frame
  BY TakeLemma DEF GivesFrame, PoolInv
<1>2. ASSUME NEW q \in PageId, disk'[q] # disk[q]
      PROVE  /\ id_[Taken] # NoPage
             /\ q = id_[Taken] \/ (q[1] = id_[Taken][1] /\ q[2] < id_[Taken][2])
  <2>1. is_dirty_[Taken]
    BY <1>2 DEF GivesFrame, DiskAfterUpdate
  <2>2. disk' = write_page(disk, id_[Taken], data_[Taken])
    BY <2>1 DEF GivesFrame, DiskAfterUpdate
  <2> QED
    BY <1>1, <1>2, <2>1, <2>2 DEF write_page, FileEnds
<1>3. Allocated \subseteq Allocated'
  BY DEF GivesFrame
<1>4. \A q \in PageId : q \notin Allocated' => disk'[q] = Absent
  BY <1>1, <1>2, <1>3, WritesInside
<1>5. \A f \in Frame : is_dirty_'[f] => id_'[f] # NoPage
  BY <1>1 DEF GivesFrame, FileEnds, PoolInv, RobustInv, TypeOK
<1> QED
  BY <1>4, <1>5 DEF FileEnds

LEMMA FileEndsKept ==
  ASSUME Faults = {}, PoolInv, FileEnds, [Next]_vars
  PROVE  FileEnds'
<1>1. ASSUME UNCHANGED <<id_, fd2pageno_, disk>>, \A f \in Frame : is_dirty_'[f] => is_dirty_[f]
      PROVE  FileEnds'
  BY <1>1 DEF FileEnds, Allocated
<1>2. ASSUME NEW c \in Client, NEW p \in PageId, FetchPage(c, p) PROVE FileEnds'
  <2>1. CASE FetchHit(c, p)
    BY <1>1, <2>1 DEF FetchHit
  <2>2. CASE FetchMiss(c, p)
    <3>1. is_dirty_' = [is_dirty_ EXCEPT ![Taken] = FALSE] /\ GivesFrame(c, p)
      BY <2>2, FetchMissStep DEF FetchMiss
    <3> QED
      BY <3>1, GivesFrameFileEnds
  <2> QED
    BY <1>2, <2>1, <2>2, NoShortRead DEF FetchPage, FetchWriteError
<1>3. ASSUME NEW c \in Client, NEW fd \in Fd, NewPage(c, fd) PROVE FileEnds'
  <2>1. PICK p \in PageId : GivesFrame(c, p)
    BY <1>3, NewPageStep
  <2>2. is_dirty_' = [is_dirty_ EXCEPT ![Taken] = FALSE]
    BY <1>3 DEF NewPage, WriteBackThrows
  <2> QED
    BY <2>1, <2>2, GivesFrameFileEnds
<1>4. ASSUME NEW h \in holds, NEW v \in Value, WriteData(h, v) PROVE FileEnds'
  BY <1>1, <1>4 DEF WriteData
<1>5. ASSUME NEW h \in holds, NEW dirty \in BOOLEAN, UnpinPage(h, dirty) PROVE FileEnds'
  <2> DEFINE f == page_table_[h.page]
  <2>1. f \in Frame /\ id_[f] = h.page /\ h.page \in PageId
    BY DEF PoolInv, HeldPageStays, RobustInv, TypeOK, Hold
  <2>2. UNCHANGED <<id_, disk, fd2pageno_>>
    BY <1>5 DEF UnpinPage
  <2>3. \A g \in Frame \ {f} : is_dirty_'[g] = is_dirty_[g]
    BY <1>5, <2>1 DEF UnpinPage, PoolInv, RobustInv, TypeOK
  <2>4. id_[f] # NoPage
    BY <2>1, BufferPoolAssumption
  <2> HIDE DEF f
  <2> QED
    BY <2>1, <2>2, <2>3, <2>4 DEF FileEnds, Allocated
<1>6. ASSUME NEW p \in PageId, FlushPage(p) PROVE FileEnds'
  <2> DEFINE f == page_table_[p]
  <2>1. f \in Frame /\ id_[f] = p /\ p # NoPage
    BY <1>6, BufferPoolAssumption DEF FlushPage, PoolInv, RobustInv, TypeOK, TableMatchesFrames
  <2>2. /\ disk' = write_page(disk, id_[f], data_[f]) /\ UNCHANGED <<id_, fd2pageno_>>
        /\ is_dirty_' = [is_dirty_ EXCEPT ![f] = FALSE]
    BY <1>6 DEF FlushPage
  <2> HIDE DEF f
  <2>3. \A q \in PageId : disk'[q] # disk[q] =>
          q = id_[f] \/ (q[1] = id_[f][1] /\ q[2] < id_[f][2])
    BY <2>2 DEF write_page
  <2>4. Allocated' = Allocated
    BY <2>2 DEF Allocated
  <2>5. \A q \in PageId : q \notin Allocated' => disk'[q] = Absent
    BY <2>1, <2>3, <2>4, WritesInside
  <2>6. \A g \in Frame : is_dirty_'[g] => id_'[g] # NoPage
    BY <2>1, <2>2 DEF FileEnds, PoolInv, RobustInv, TypeOK
  <2> QED
    BY <2>5, <2>6 DEF FileEnds
<1>7. ASSUME NEW fd \in Fd, NEW end \in 0..PoolSize, FlushAllPages(fd, end) PROVE FileEnds'
  <2> DEFINE S == {f \in Frame : f < end /\ InFile(fd, f)}
  <2>1. /\ disk' = DiskAfterFlush(S) /\ UNCHANGED <<id_, fd2pageno_>>
        /\ is_dirty_' = [f \in Frame |-> is_dirty_[f] /\ f \notin S]
    BY <1>7 DEF FlushAllPages
  <2>2. S \subseteq Frame /\ \A f \in S : id_[f] # NoPage
    BY DEF InFile
  <2> HIDE DEF S
  <2>3. ASSUME NEW q \in PageId, disk'[q] # disk[q]
        PROVE  \E f \in S : q = id_[f] \/ (q[1] = id_[f][1] /\ id_[f][2] > q[2])
    <3>1. disk'[q] = LET own == {f \in S : id_[f] = q}
                     IN IF own # {} THEN data_[CHOOSE f \in own : \A g \in own : g <= f]
                        ELSE IF disk[q] = Absent /\ \E f \in S : id_[f][1] = q[1] /\ id_[f][2] > q[2] THEN Zero
                        ELSE disk[q]
      BY <2>1 DEF DiskAfterFlush
    <3>2. CASE {f \in S : id_[f] = q} # {}
      BY <3>2
    <3>3. CASE {f \in S : id_[f] = q} = {}
      BY <2>3, <3>1, <3>3
    <3> QED
      BY <3>2, <3>3
  <2>4. Allocated' = Allocated
    BY <2>1 DEF Allocated
  <2>5. \A q \in PageId : q \notin Allocated' => disk'[q] = Absent
    <3>1. \A f \in Frame, q \in PageId : id_[f] # NoPage /\ id_[f][2] > q[2] => q[2] < id_[f][2]
      BY SMTT(30)
    <3> QED
      BY <2>2, <2>3, <2>4, <3>1, WritesInside
  <2>6. \A g \in Frame : is_dirty_'[g] => id_'[g] # NoPage
    BY <2>1 DEF FileEnds
  <2> QED
    BY <2>5, <2>6 DEF FileEnds
<1>8. ASSUME NEW p \in PageId, DeletePage(p) PROVE FileEnds'
  BY <1>1, <1>8 DEF DeletePage
<1>9. CASE UNCHANGED vars
  BY <1>1, <1>9 DEF vars
<1> QED
  BY <1>2, <1>3, <1>4, <1>5, <1>6, <1>7, <1>8, <1>9, ZenonT(60) DEF Next
-----------------------------------------------------------------------------
\* A page that is in no frame and was not deleted is no frame's.
LEMMA NobodysPage ==
  ASSUME PoolInv, NEW q \in PageId \ dead, page_table_[q] = NoFrame, NEW f \in Frame
  PROVE  id_[f] # q
BY NoFrameLemma, BufferPoolAssumption DEF PoolInv, IdsCurrent

\* Writing back, flushing and the holes in the file show in no page.
LEMMA SeenInPlace ==
  ASSUME UNCHANGED <<data_, page_table_, dead>>,
         \A q \in PageId \ dead :
           page_table_[q] = NoFrame => \/ disk'[q] = disk[q]
                                       \/ disk[q] = Absent /\ disk'[q] = Zero
  PROVE  \A q \in PageId \ dead : Seen(q)' = Seen(q)
BY BufferPoolAssumption DEF Seen, Content

\* A page that is given a frame is seen there as before; so is the page that had the
\* frame, in its file, and so is every other page.
LEMMA SeenAfterTake ==
  ASSUME PoolInv, NEW c \in Client, NEW p \in PageId, GivesFrame(c, p), data_'[Taken] = Seen(p)
  PROVE  \A q \in PageId \ dead : Seen(q)' = Seen(q)
<1> USE NoFrameLemma
<1> SUFFICES ASSUME NEW q \in PageId \ dead PROVE Seen(q)' = Seen(q)
  OBVIOUS
<1>1. Taken \in Frame /\ CanTake /\ page_table_[p] = NoFrame /\ disk' = DiskAfterUpdate
  BY TakeLemma DEF GivesFrame, PoolInv
<1>2. page_table_'[q] =
        IF q = p THEN Taken ELSE IF page_table_[q] = Taken THEN NoFrame ELSE page_table_[q]
  <2>1. TableAfterTake \in [PageId -> Frame \cup {NoFrame}]
    BY <1>1, TakeLemma DEF PoolInv
  <2>2. TableAfterTake[p] = NoFrame
    BY <1>1, ContractTake
  <2>3. page_table_' = [TableAfterTake EXCEPT ![p] = Taken]
    BY <2>2 DEF GivesFrame, Insert
  <2> QED
    BY <1>1, <2>1, <2>3, ContractTake
<1>3. CASE q = p
  BY <1>1, <1>2, <1>3 DEF Seen
<1>4. CASE q # p /\ page_table_[q] = Taken
  <2>1. disk'[q] = data_[Taken] /\ data_[Taken] # Absent
    BY <1>1, <1>4, ContractWriteBack, FrameTypes DEF PoolInv
  <2> QED
    BY <1>1, <1>2, <1>4, <2>1 DEF Seen
<1>5. CASE q # p /\ page_table_[q] \in Frame \ {Taken}
  <2>1. data_'[page_table_[q]] = data_[page_table_[q]]
    BY <1>5 DEF GivesFrame
  <2> QED
    BY <1>1, <1>2, <1>5, <2>1 DEF Seen
<1>6. CASE q # p /\ page_table_[q] = NoFrame
  <2>1. id_[Taken] # q
    BY <1>1, <1>6, NobodysPage
  <2>2. disk'[q] = disk[q] \/ (disk[q] = Absent /\ disk'[q] = Zero)
    BY <1>1, <2>1 DEF DiskAfterUpdate, write_page
  <2>3. page_table_'[q] = NoFrame /\ Zero # Absent
    BY <1>1, <1>2, <1>6, BufferPoolAssumption DEF Content
  <2> QED
    BY <1>6, <2>2, <2>3 DEF Seen
<1>7. page_table_[q] \in Frame \cup {NoFrame}
  BY DEF PoolInv, RobustInv, TypeOK
<1> QED
  BY <1>3, <1>4, <1>5, <1>6, <1>7

Held == {<<h.client, h.page>> : h \in holds}

LEMMA HeldAdd ==
  ASSUME NEW c, NEW p, NEW f, holds' = holds \cup {[client |-> c, page |-> p, frame |-> f]}
  PROVE  Held' = Held \cup {<<c, p>>}
<1> DEFINE h == [client |-> c, page |-> p, frame |-> f]
<1>1. h.client = c /\ h.page = p /\ holds' = holds \cup {h}
  OBVIOUS
<1> HIDE DEF h
<1> QED
  BY <1>1 DEF Held

\* A client has one pointer to a page at most.
LEMMA HeldRemove ==
  ASSUME PoolInv, NEW h \in holds, holds' = holds \ {h}
  PROVE  Held' = Held \ {<<h.client, h.page>>}
<1>1. ASSUME NEW g \in holds, g.client = h.client, g.page = h.page PROVE g = h
  <2>1. g \in Hold /\ h \in Hold
    BY DEF PoolInv, RobustInv, TypeOK
  <2>2. g.frame = h.frame
    BY <1>1 DEF PoolInv, HeldPageStays
  <2> QED
    BY <1>1, <2>1, <2>2, SMTT(30) DEF Hold
<1>2. ASSUME NEW x \in Held' PROVE x \in Held \ {<<h.client, h.page>>}
  <2>1. PICK g \in holds \ {h} : x = <<g.client, g.page>>
    BY DEF Held
  <2>2. ~ (g.client = h.client /\ g.page = h.page)
    BY <1>1, <2>1
  <2> QED
    BY <2>1, <2>2 DEF Held
<1>3. ASSUME NEW x \in Held \ {<<h.client, h.page>>} PROVE x \in Held'
  BY DEF Held
<1> QED
  BY <1>2, <1>3

\* Each call of the pool is one step of the page store, or no step at all.
LEMMA PoolStepsStore ==
  ASSUME Faults = {}, PoolInv, FileEnds, [Next]_vars
  PROVE  [Store!Next]_<<[p \in PageId \ dead |-> Seen(p)], Held>>
<1> DEFINE store == [p \in PageId \ dead |-> Seen(p)]
<1> USE NoFrameLemma
<1>1. ASSUME dead' = dead, \A q \in PageId \ dead : Seen(q)' = Seen(q)
      PROVE  store' = store
  BY <1>1
<1>2. ASSUME NEW c \in Client, NEW p \in PageId \ dead, NEW f,
             dead' = dead, \A q \in PageId \ dead : Seen(q)' = Seen(q),
             holds' = holds \cup {[client |-> c, page |-> p, frame |-> f]}
      PROVE  Store!Next
  <2>1. store' = store /\ p \in DOMAIN store
    BY <1>1, <1>2
  <2>2. Held' = Held \cup {<<c, p>>}
    BY <1>2, HeldAdd
  <2>3. Store!Acquire(c, p)
    BY <2>1, <2>2 DEF Store!Acquire, Held
  <2> QED
    BY <2>3 DEF Store!Next
<1>3. ASSUME NEW c \in Client, NEW p \in PageId, FetchPage(c, p) PROVE Store!Next
  <2>1. p \notin dead
    BY <1>3, NoShortRead DEF FetchPage, FetchHit, FetchMiss, FetchWriteError, MayFetch
  <2>2. CASE FetchHit(c, p)
    <3>1. /\ UNCHANGED <<data_, page_table_, disk, dead>>
          /\ holds' = holds \cup {[client |-> c, page |-> p, frame |-> page_table_[p]]}
      BY <2>2 DEF FetchHit
    <3>2. \A q \in PageId \ dead : Seen(q)' = Seen(q)
      BY <3>1, SeenInPlace
    <3> QED
      BY <1>2, <2>1, <3>1, <3>2
  <2>3. CASE FetchMiss(c, p)
    <3>1. GivesFrame(c, p) /\ p \in Allocated /\ data_'[Taken] = disk'[p]
      BY <2>3, FetchMissStep
    <3>2. /\ page_table_[p] = NoFrame /\ CanTake /\ Taken \in Frame /\ disk' = DiskAfterUpdate
          /\ dead' = dead
          /\ holds' = holds \cup {[client |-> c, page |-> p, frame |-> Taken]}
      BY <3>1, TakeLemma DEF GivesFrame, PoolInv
    <3>3. disk[p] # Absent
      BY <2>1, <3>1, <3>2 DEF PoolInv, AllocatedReadable, Allocated
    <3>4. id_[Taken] # p
      BY <2>1, <3>2, NobodysPage
    <3>5. disk'[p] = disk[p]
      BY <3>2, <3>3, <3>4 DEF DiskAfterUpdate, write_page
    <3>6. data_'[Taken] = Seen(p)
      BY <3>1, <3>2, <3>3, <3>5 DEF Seen
    <3>7. \A q \in PageId \ dead : Seen(q)' = Seen(q)
      BY <3>1, <3>6, SeenAfterTake
    <3> QED
      BY <1>2, <2>1, <3>2, <3>7
  <2> QED
    BY <1>3, <2>2, <2>3, NoShortRead DEF FetchPage, FetchWriteError
<1>4. ASSUME NEW c \in Client, NEW fd \in Fd, NewPage(c, fd) PROVE Store!Next
  <2>1. PICK p \in PageId \ Allocated : GivesFrame(c, p) /\ data_'[Taken] = Zero
    BY <1>4, NewPageStep
  <2>2. /\ page_table_[p] = NoFrame /\ p \notin dead /\ dead' = dead
        /\ holds' = holds \cup {[client |-> c, page |-> p, frame |-> Taken]}
    BY <2>1 DEF GivesFrame
  <2>3. data_'[Taken] = Seen(p)
    BY <2>1, <2>2 DEF FileEnds, Seen
  <2>4. \A q \in PageId \ dead : Seen(q)' = Seen(q)
    BY <2>1, <2>3, SeenAfterTake
  <2> QED
    BY <1>2, <2>2, <2>4
<1>5. ASSUME NEW h \in holds, NEW v \in Value, WriteData(h, v) PROVE Store!Next
  <2>1. /\ h.client \in Client /\ h.page \in PageId /\ h.frame \in Frame
        /\ page_table_[h.page] = h.frame /\ id_[h.frame] = h.page
    BY DEF PoolInv, HeldPageStays, RobustInv, TypeOK, Hold
  <2>2. h.page \notin dead
    BY <2>1 DEF PoolInv, IdsCurrent
  <2>3. /\ data_'[h.frame] = v /\ \A g \in Frame \ {h.frame} : data_'[g] = data_[g]
        /\ UNCHANGED <<page_table_, disk, holds, dead>>
    BY <1>5, <2>1 DEF WriteData, PoolInv, RobustInv, TypeOK
  <2>4. \A q \in PageId : q # h.page => page_table_[q] \in (Frame \cup {NoFrame}) \ {h.frame}
    BY <2>1 DEF PoolInv, RobustInv, TypeOK, TableMatchesFrames
  <2>5. \A q \in PageId \ dead : Seen(q)' = IF q = h.page THEN v ELSE Seen(q)
    BY <2>1, <2>3, <2>4 DEF Seen
  <2>6. store' = [store EXCEPT ![h.page] = v]
    BY <2>2, <2>3, <2>5
  <2>7. Held' = Held /\ <<h.client, h.page>> \in Held
    BY <2>3 DEF Held
  <2>8. Store!Write(h.client, h.page, v)
    BY <2>1, <2>2, <2>6, <2>7 DEF Store!Write, Held
  <2> QED
    BY <2>1, <2>8 DEF Store!Next
<1>6. ASSUME NEW h \in holds, NEW dirty \in BOOLEAN, UnpinPage(h, dirty) PROVE Store!Next
  <2>1. UNCHANGED <<data_, page_table_, disk, dead>> /\ holds' = holds \ {h}
    BY <1>6 DEF UnpinPage
  <2>2. store' = store
    BY <1>1, <2>1, SeenInPlace
  <2>3. Held' = Held \ {<<h.client, h.page>>} /\ <<h.client, h.page>> \in Held
    BY <2>1, HeldRemove DEF Held
  <2>4. Store!Release(h.client, h.page)
    BY <2>2, <2>3 DEF Store!Release, Held
  <2>5. h.client \in Client /\ h.page \in PageId
    BY DEF PoolInv, RobustInv, TypeOK, Hold
  <2> QED
    BY <2>4, <2>5 DEF Store!Next
<1>7. ASSUME NEW p \in PageId, FlushPage(p) PROVE UNCHANGED <<store, Held>>
  <2> DEFINE f == page_table_[p]
  <2>1. f \in Frame
    BY <1>7 DEF FlushPage, PoolInv, RobustInv, TypeOK
  <2>2. UNCHANGED <<data_, page_table_, holds, dead>> /\ disk' = write_page(disk, id_[f], data_[f])
    BY <1>7 DEF FlushPage
  <2> HIDE DEF f
  <2>3. ASSUME NEW q \in PageId \ dead, page_table_[q] = NoFrame
        PROVE  disk'[q] = disk[q] \/ (disk[q] = Absent /\ disk'[q] = Zero)
    <3>1. id_[f] # q
      BY <2>1, <2>3, NobodysPage
    <3> QED
      BY <2>2, <3>1 DEF write_page
  <2> QED
    BY <1>1, <2>2, <2>3, SeenInPlace DEF Held
<1>8. ASSUME NEW fd \in Fd, NEW end \in 0..PoolSize, FlushAllPages(fd, end)
      PROVE  UNCHANGED <<store, Held>>
  <2> DEFINE S == {f \in Frame : f < end /\ InFile(fd, f)}
  <2>1. UNCHANGED <<data_, page_table_, holds, dead>> /\ disk' = DiskAfterFlush(S) /\ S \subseteq Frame
    BY <1>8 DEF FlushAllPages
  <2> HIDE DEF S
  <2>2. ASSUME NEW q \in PageId \ dead, page_table_[q] = NoFrame
        PROVE  disk'[q] = disk[q] \/ (disk[q] = Absent /\ disk'[q] = Zero)
    <3>1. {f \in S : id_[f] = q} = {}
      BY <2>1, <2>2, NobodysPage
    <3> QED
      BY <2>1, <3>1 DEF DiskAfterFlush
  <2> QED
    BY <1>1, <2>1, <2>2, SeenInPlace DEF Held
<1>9. ASSUME NEW p \in PageId, DeletePage(p) PROVE Store!Next
  <2>1. dead' = dead \cup {p} /\ UNCHANGED <<disk, holds>>
    BY <1>9 DEF DeletePage
  <2>2. ASSUME NEW h \in holds PROVE h.page # p
    <3>1. h.frame \in Frame /\ page_table_[h.page] = h.frame
      BY DEF PoolInv, HeldPageStays, RobustInv, TypeOK, Hold
    <3>2. pin_count_[h.frame] # 0 /\ pin_count_[h.frame] \in Nat
      BY <3>1, UnpinnedUnheld, FrameTypes DEF PoolInv
    <3>3. ~ (pin_count_[h.frame] <= 0)
      BY <3>2, SMTT(30)
    <3> QED
      BY <1>9, <3>1, <3>3 DEF DeletePage
  <2>3. ASSUME NEW q \in PageId \ {p} PROVE Seen(q)' = Seen(q)
    <3>1. CASE page_table_[p] = NoFrame
      BY <1>9, <2>1, <3>1 DEF DeletePage, Seen
    <3>2. CASE page_table_[p] # NoFrame
      <4>1. page_table_[p] \in Frame /\ page_table_[q] \in (Frame \cup {NoFrame}) \ {page_table_[p]}
        BY <3>2 DEF PoolInv, RobustInv, TypeOK, TableMatchesFrames
      <4>2. /\ page_table_' = Erase(page_table_, p)
            /\ data_' = [data_ EXCEPT ![page_table_[p]] = Zero]
        BY <1>9, <3>2 DEF DeletePage
      <4>3. \A g \in Frame \ {page_table_[p]} : data_'[g] = data_[g]
        BY <4>1, <4>2 DEF PoolInv, RobustInv, TypeOK
      <4>4. page_table_'[q] = page_table_[q]
        BY <4>2 DEF Erase
      <4> QED
        BY <2>1, <4>1, <4>3, <4>4 DEF Seen
    <3> QED
      BY <3>1, <3>2
  <2>4. store' = [q \in (PageId \ dead) \ {p} |-> store[q]]
    BY <2>1, <2>3
  <2>5. Store!Delete(p)
    <3>1. ASSUME NEW x \in Held PROVE x[2] # p
      <4> PICK h \in holds : x = <<h.client, h.page>>
        BY DEF Held
      <4> QED
        BY <2>2
    <3>2. Held' = Held /\ DOMAIN store = PageId \ dead
      BY <2>1 DEF Held
    <3> QED
      BY <2>4, <3>1, <3>2 DEF Store!Delete, Held
  <2> QED
    BY <2>5 DEF Store!Next
<1>10. CASE UNCHANGED vars
  <2>1. UNCHANGED <<data_, page_table_, disk, holds, dead>>
    BY <1>10 DEF vars
  <2> QED
    BY <1>1, <2>1, SeenInPlace DEF Held
<1> QED
  BY <1>3, <1>4, <1>5, <1>6, <1>7, <1>8, <1>9, <1>10, ZenonT(60) DEF Next

\* The pool is invisible to clients that keep to the contract: fetching, evicting,
\* flushing and unpinning in any order never change what a page holds, only a
\* client's write does, and only to the page that client holds.
THEOREM PoolImplementsStore == ASSUME Faults = {} PROVE Spec => ImplementsPageStore
<1>1. Init => FileEnds /\ Store!Init
  <2> SUFFICES ASSUME Init PROVE FileEnds /\ Store!Init
    OBVIOUS
  <2>1. ASSUME NEW p \in PageId PROVE page_table_[p] = NoFrame /\ disk[p] \in {Zero, Absent}
    BY DEF Init
  <2>2. ASSUME NEW p \in PageId, p \notin Allocated PROVE disk[p] = Absent
    <3>1. p[1] \in Fd
      BY DEF PageId
    <3> QED
      BY <2>2, <3>1 DEF Init, Allocated
  <2>3. FileEnds
    BY <2>2 DEF FileEnds, Init
  <2>4. [p \in PageId \ dead |-> Seen(p)] = [p \in PageId |-> Zero]
    BY <2>1 DEF Init, Seen
  <2>5. Held = {}
    BY DEF Init, Held
  <2> QED
    BY <2>3, <2>4, <2>5 DEF Store!Init, Held
<1>2. FileEnds /\ PoolInv /\ [Next]_vars => FileEnds'
  BY FileEndsKept
<1>3. FileEnds /\ PoolInv /\ [Next]_vars => [Store!Next]_<<[p \in PageId \ dead |-> Seen(p)], Held>>
  BY PoolStepsStore
<1>4. FileEnds /\ PoolInv /\ [Next]_vars => [Store!Next]_(Store!storeVars)
  BY <1>3 DEF Store!storeVars, Held
<1> QED
  BY <1>1, <1>2, <1>4, PoolInvariant, PTL DEF Spec, ImplementsPageStore, Store!Spec
=============================================================================
