------------------------------ MODULE LRUList ------------------------------
(***************************************************************************)
(* The data structure of LRUReplacer (src/src/replacer/lru_replacer.cpp)   *)
(* and the three operations on it, as operators from the structure before  *)
(* a call to the structure after it.  Every method of the class holds      *)
(* latch_ from its first line to its last, so a call is one atomic step of *)
(* whoever makes it.                                                       *)
(*                                                                         *)
(* A replacer is a record: "list" is LRUlist_, front first, so the frame   *)
(* unpinned last is list[1] and the next victim is the last element;       *)
(* "hash" is the set of keys of LRUhash_.  The iterator LRUhash_ stores    *)
(* for a key is the place of that key in the list.                         *)
(***************************************************************************)
EXTENDS Integers, Sequences, FiniteSets, Functions

\* The methods of std::list that the replacer calls.
back(s) == s[Len(s)]
pop_back(s) == SubSeq(s, 1, Len(s) - 1)
push_front(x, s) == <<x>> \o s
erase(s, i) == SubSeq(s, 1, i - 1) \o SubSeq(s, i + 1, Len(s))

LRU(Frame) == [list : Seq(Frame), hash : SUBSET Frame]

\* No element stands in two places.
Distinct(s) == \A i, j \in 1..Len(s) : s[i] = s[j] => i = j

\* The hash has a key for exactly the frames of the list, and none is listed
\* twice.
Consistent(r) == Range(r.list) = r.hash /\ Distinct(r.list)

EmptyLRU == [list |-> <<>>, hash |-> {}]

\* Where the iterator LRUhash_[f] points.
Position(list, f) == CHOOSE i \in 1..Len(list) : list[i] = f

\* Victim returns false exactly when this is false.
HasVictim(r) == r.list # <<>>

\* The frame Victim hands out: LRUlist_.back().
VictimOf(r) == back(r.list)

\* Variant: Victim pops the list and leaves the key in the hash.
VictimKeepsKey(r) == [list |-> pop_back(r.list), hash |-> r.hash]

AfterVictim(r) ==
  [list |-> pop_back(r.list), hash |-> r.hash \ {VictimOf(r)}]

\* Variant: Pin does nothing.
PinIgnored(r, f) == r

\* Pin: a frame the hash does not know is ignored.
AfterPin(r, f) ==
  IF f \in r.hash
  THEN [list |-> erase(r.list, Position(r.list, f)), hash |-> r.hash \ {f}]
  ELSE r

\* Variant: Unpin does nothing.
UnpinIgnored(r, f) == r

\* Variant: a second Unpin moves the frame to the front.
UnpinMovesToFront(r, f) ==
  [list |-> push_front(f, IF f \in r.hash THEN erase(r.list, Position(r.list, f)) ELSE r.list),
   hash |-> r.hash \cup {f}]

\* Unpin: a frame already in the list keeps its place.
AfterUnpin(r, f) ==
  IF f \notin r.hash
  THEN [list |-> push_front(f, r.list), hash |-> r.hash \cup {f}]
  ELSE r
=============================================================================
