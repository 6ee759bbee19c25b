---------------------------- MODULE RecordFile -----------------------------
(***************************************************************************)
(* RmFileHandle and RmScan (src/src/record): the heap file of a table.     *)
(* Page 0 is the file header.  A record page has a header, a bitmap and    *)
(* slots; pages with room are meant to be on a list that starts in the     *)
(* file header.                                                            *)
(*                                                                         *)
(* A page is N slots and what lies behind them: get_slot and the bitmap    *)
(* are not checked against N, so slot N exists here too.  That is exact    *)
(* for 4-byte records, where slot N still fits in the page and bit N is    *)
(* padding of the bitmap; for larger records the write leaves the page.    *)
(*                                                                         *)
(* Callers delete and update records that are there.  With Rollback they   *)
(* also undo deletes whose slot is still free, by insert_record(rid, buf), *)
(* which nothing in the repository calls yet.                              *)
(***************************************************************************)
EXTENDS Integers, FiniteSetsExt

CONSTANTS
  N,          \* num_records_per_page; at least 7 in the code
  MaxPages,   \* bound: num_pages
  MaxCount,   \* bound: num_records, which can outgrow N
  Value,      \* contents of a record
  Zero,       \* what a slot of a new page holds
  Rollback    \* whether deletes are undone

ASSUME RecordFileAssumption ==
  /\ N \in Nat /\ N >= 2
  /\ MaxPages \in Nat \ {0} /\ MaxCount \in Nat
  /\ Rollback \in BOOLEAN

RM_NO_PAGE == -1
Page == 1..(MaxPages - 1)
Slot == 0..N
Rid == Page \X Slot
End == <<RM_NO_PAGE, -1>>

VARIABLES
  num_pages, first_free_page_no,              \* file_hdr_
  next_free_page_no, num_records, bitmap,     \* page_hdr and bitmap, by page
  slots,
  deleted,    \* rids whose delete may be rolled back
  rid_,       \* the scan; End also when there is none
  due,        \* history: records there since the scan began that it has not returned
  passed      \* history: what the scan returned before the record it stands on

header == <<num_pages, first_free_page_no>>
pages == <<next_free_page_no, num_records, bitmap, slots>>
scanVars == <<rid_, due, passed>>
vars == <<num_pages, first_free_page_no, next_free_page_no, num_records,
          bitmap, slots, deleted, rid_, due, passed>>

\* RmManager::create_file, then open_file.  A page past num_pages is what
\* NewPage will hand out: zeros.
Init ==
  /\ num_pages = 1 /\ first_free_page_no = RM_NO_PAGE
  /\ next_free_page_no = [p \in Page |-> 0]
  /\ num_records = [p \in Page |-> 0]
  /\ bitmap = [p \in Page |-> {}]
  /\ slots = [r \in Rid |-> Zero]
  /\ deleted = {}
  /\ rid_ = End /\ due = {} /\ passed = {}
-----------------------------------------------------------------------------
(* Bitmap: a set of positions.                                             *)

next_bit(bit, bm, max_n, curr) ==
  LET hits == {i \in (curr + 1)..(max_n - 1) : (i \in bm) = bit}
  IN IF hits = {} THEN max_n ELSE Min(hits)

\* Variant: the bits are numbered from one.
FirstBitFromOne(bit, bm, max_n) == next_bit(bit, {i + 1 : i \in bm}, max_n, -1)

first_bit(bit, bm, max_n) == next_bit(bit, bm, max_n, -1)

is_record(r) == r[2] \in bitmap[r[1]]
Stored == {r \in Rid : is_record(r)}

\* The records in the slots of a page; the others lie behind them.
InPage == {r \in Stored : r[2] < N}
-----------------------------------------------------------------------------
\* create_page_handle: the first free page, or a new one.
NeedsNewPage == first_free_page_no < 0
PageForInsert == IF NeedsNewPage THEN num_pages ELSE first_free_page_no

\* Variant: the last slot of a page is taken for the one behind it.
FirstFreeOneEarly(p) ==
  IF num_records[p] + 1 >= N - 1 THEN next_free_page_no[p] ELSE first_free_page_no

\* A page that has just been filled makes room for its successor.
FirstFreeAfterInsert(p) ==
  IF num_records[p] + 1 >= N THEN next_free_page_no[p] ELSE first_free_page_no

insert_record(v) ==
  LET p == PageForInsert
      i == first_bit(FALSE, bitmap[p], N)
  IN
  /\ p < MaxPages /\ num_records[p] < MaxCount
  /\ num_pages' = IF NeedsNewPage THEN num_pages + 1 ELSE num_pages
  /\ slots' = [slots EXCEPT ![<<p, i>>] = v]
  /\ bitmap' = [bitmap EXCEPT ![p] = @ \cup {i}]
  /\ num_records' = [num_records EXCEPT ![p] = @ + 1]
  /\ first_free_page_no' = FirstFreeAfterInsert(p)
  /\ deleted' = deleted \ {<<p, i>>}
  /\ UNCHANGED <<next_free_page_no, scanVars>>

release_page_handle(p) ==
  /\ next_free_page_no' = [next_free_page_no EXCEPT ![p] = first_free_page_no]
  /\ first_free_page_no' = p

CountAfterDelete(p) == num_records[p] - 1

delete_record(r) ==
  LET p == r[1] IN
  /\ bitmap' = [bitmap EXCEPT ![p] = @ \ {r[2]}]
  /\ num_records' = [num_records EXCEPT ![p] = CountAfterDelete(p)]
  /\ \/ CountAfterDelete(p) = 0 /\ release_page_handle(p)
     \/ CountAfterDelete(p) # 0 /\ UNCHANGED <<first_free_page_no, next_free_page_no>>
  /\ deleted' = IF Rollback THEN deleted \cup {r} ELSE {}
  /\ due' = due \ {r}
  /\ UNCHANGED <<num_pages, slots, rid_, passed>>

update_record(r, v) ==
  /\ is_record(r)
  /\ slots' = [slots EXCEPT ![r] = v]
  /\ UNCHANGED <<header, next_free_page_no, num_records, bitmap, deleted, scanVars>>

\* insert_record(rid, buf) adds a page whenever the rid's page exists.
insert_record_at(r, v) ==
  LET p == r[1] IN
  /\ p < num_pages /\ num_pages < MaxPages /\ num_records[p] < MaxCount
  /\ num_pages' = num_pages + 1
  /\ bitmap' = [bitmap EXCEPT ![p] = @ \cup {r[2]}]
  /\ num_records' = [num_records EXCEPT ![p] = @ + 1]
  /\ first_free_page_no' =
       IF num_records[p] + 1 = N THEN next_free_page_no[p] ELSE first_free_page_no
  /\ slots' = [slots EXCEPT ![r] = v]
  /\ deleted' = deleted \ {r}
  /\ UNCHANGED <<next_free_page_no, scanVars>>
-----------------------------------------------------------------------------
(* RmScan.                                                                 *)

Before(r, s) == r[1] < s[1] \/ (r[1] = s[1] /\ r[2] < s[2])
FirstOf(S) == CHOOSE r \in S : \A s \in S \ {r} : Before(r, s)

\* The constructor looks at every bit of every page and returns at the first
\* one set.  If there is none it returns without having set rid_.
ScanOpen ==
  /\ rid_ = End
  /\ \/ /\ Stored # {}
        /\ rid_' = FirstOf(Stored)
     \/ /\ Stored = {}
        /\ rid_' \in Rid \cup {End}
  /\ due' = InPage \ {rid_'}
  /\ passed' = {}
  /\ UNCHANGED <<header, pages, deleted>>

\* Variants: every page is searched from the slot the scan stands on; every page
\* is searched from its first slot.
RestFromStart(r) ==
  {<<p, next_bit(TRUE, bitmap[p], N, -1)>> : p \in r[1]..(num_pages - 1)}
RestKeepsSlot(r) ==
  {<<p, next_bit(TRUE, bitmap[p], N, r[2])>> : p \in r[1]..(num_pages - 1)}

\* One candidate per page from the scan's page on: the next record of that
\* page, slot N if there is none.
Rest(r) ==
  {<<p, next_bit(TRUE, bitmap[p], N, IF p = r[1] THEN r[2] ELSE -1)>> :
     p \in r[1]..(num_pages - 1)}

ScanNext ==
  LET found == {r \in Rest(rid_) : r[2] # N} IN
  /\ rid_ # End
  /\ rid_' = IF found = {} THEN End ELSE FirstOf(found)
  /\ due' = due \ {rid_'}
  /\ passed' = IF rid_' = End THEN {} ELSE passed \cup {rid_}
  /\ UNCHANGED <<header, pages, deleted>>
-----------------------------------------------------------------------------
Next ==
  \/ \E v \in Value : insert_record(v)
  \/ \E r \in Stored : delete_record(r)
  \/ \E r \in Stored, v \in Value : update_record(r, v)
  \/ \E r \in deleted, v \in Value : insert_record_at(r, v)
  \/ ScanOpen
  \/ ScanNext

Spec == Init /\ [][Next]_vars
-----------------------------------------------------------------------------
TypeOK ==
  /\ num_pages \in 1..MaxPages
  /\ first_free_page_no \in Page \cup {RM_NO_PAGE}
  /\ next_free_page_no \in [Page -> -1..(MaxPages - 1)]
  /\ num_records \in [Page -> Nat]
  /\ bitmap \in [Page -> SUBSET Slot]
  /\ slots \in [Rid -> Value \cup {Zero}]
  /\ deleted \subseteq Rid
  /\ rid_ \in Rid \cup {End} /\ due \subseteq Rid /\ passed \subseteq Rid

\* The free list never leaves the record pages of the file: there is a set of them
\* that holds the first free page and, with a page, the next one.  So insert_record
\* never takes the file header, to which the link of a new page leads (0), for a page
\* of records, nor a page that was not allocated, however often pages were emptied,
\* listed a second time or given records back by a rollback.
FreeListInFile ==
  \E L \in SUBSET (1..(num_pages - 1)) :
    /\ first_free_page_no \in L \cup {RM_NO_PAGE}
    /\ \A p \in L : next_free_page_no[p] \in L \cup {RM_NO_PAGE}

\* A scan that has come to its end has returned every record that was in a slot of
\* its page when the scan began and was not deleted meanwhile, whatever was inserted,
\* updated and deleted between two calls of next().
ScanComplete == rid_ = End => due = {}

\* Every call of next() goes to a record behind all that the scan has returned, or
\* ends it, so no rid is returned twice, also when the record there was deleted and
\* another one took its slot while the scan stood on it.
ScanForward == rid_ # End => \A r \in passed : Before(r, rid_)

\* An insert, and a delete that is rolled back, leaves every record in a slot as it is,
\* and its rid is no other record's as long as the page has a free slot, also when the
\* free list leads to a full page, to a page twice, or to one that got records back.
InsertTakesFreeSlot ==
  [][\A p \in Page : num_records'[p] > num_records[p] =>
       /\ \A r \in InPage : r \in InPage' /\ slots'[r] = slots[r]
       /\ Stored' # Stored \/ 0..(N - 1) \subseteq bitmap[p]]_vars

Store == INSTANCE RecordStore WITH
           records <- [r \in Stored |-> slots[r]], counts <- num_records

\* The file is a set of records, and num_records of a page counts those it holds:
\* "assert(mock.size() == add_cnt - del_cnt)" (rm_gtest.cpp, after a thousand inserts,
\* updates and deletes).  Two inserts do not get the same rid.
ImplementsRecordStore == Store!Spec

\* "Called when the page of the page handle goes from full to not full"
\* (rm_file_handle.cpp, above release_page_handle).
ReleasedWhenNoLongerFull ==
  [][\A p \in Page :
       (num_records[p] = N /\ num_records'[p] < N) => first_free_page_no' = p]_vars

\* "Initialise rid to the first place that holds a record" (rm_scan.cpp, in
\* the constructor): a new scan stands on a record or at the end.
ScanStartsAtRecord ==
  [][(ScanOpen /\ rid_' # End) => rid_' \in Stored]_vars
=============================================================================
