---------------------------- MODULE LRUReplacer ----------------------------
(***************************************************************************)
(* LRUReplacer as a state machine: any number of callers, each call one    *)
(* atomic step (latch_ is held for the whole method).  Size only reads.    *)
(***************************************************************************)
EXTENDS LRUList

CONSTANT Frame
VARIABLE lru    \* LRUlist_ and LRUhash_

Init == lru = EmptyLRU

Victim == HasVictim(lru) /\ lru' = AfterVictim(lru)

Pin(f) == lru' = AfterPin(lru, f)

Unpin(f) == lru' = AfterUnpin(lru, f)

Next == Victim \/ \E f \in Frame : Pin(f) \/ Unpin(f)

Spec == Init /\ [][Next]_lru
-----------------------------------------------------------------------------
\* The list holds frames, the hash has a set of frames as its keys.
TypeOK == lru \in LRU(Frame)

\* LRUhash_ has a key for exactly the frames in LRUlist_, and the list holds
\* no frame twice.  Pin erases through the iterator the hash stores and Unpin
\* trusts the hash to tell it that a frame is absent (lru_replacer.cpp:46-50,
\* 67-72), so a list and a hash that disagree lose a frame or evict it twice.
ListMatchesHash == Consistent(lru)

\* f stands nearer to the back of the list than g.
Older(list) ==
  {e \in Frame \X Frame : \E i, j \in 1..Len(list) :
                             i > j /\ list[i] = e[1] /\ list[j] = e[2]}

Policy == INSTANCE LRUPolicy WITH evictable <- lru.hash, earlier <- Older(lru.list)

\* The list and the hash implement the policy: every frame Victim hands out
\* is the one that has been evictable for longest, whatever Pin and Unpin
\* calls came in between, and a second Unpin does not make a frame young.
ImplementsPolicy == Policy!Spec
=============================================================================
