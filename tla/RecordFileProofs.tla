-------------------------- MODULE RecordFileProofs --------------------------
(***************************************************************************)
(* The heap file for any number of pages, slots per page and values,       *)
(* whether deletes are rolled back or not: where the free list leads, the  *)
(* scan, and the set of records in the slots.                              *)
(*                                                                         *)
(* The free list of this file may contain full pages, may lead back to     *)
(* itself and may lose pages.  What keeps it inside the file is that a     *)
(* page becomes the first free one only by losing its last record, that    *)
(* only the first free page is filled, and that the page of a rolled back  *)
(* delete was on the list: so the link that becomes the head is never that *)
(* of a page which was never listed, 0.  This is FreePages.                *)
(***************************************************************************)
EXTENDS RecordFile, WellFoundedInduction, TLAPS

\* Most leaves are first-order; the others name the prover they need.
USE Zenon

\* The pages as the header counts them: those not handed out yet are empty, and a
\* record whose delete may be rolled back is gone.
PagesInv ==
  /\ num_pages \in 1..MaxPages
  /\ bitmap \in [Page -> SUBSET Slot]
  /\ num_records \in [Page -> Int]
  /\ \A p \in Page : p >= num_pages => bitmap[p] = {}
  /\ slots \in [Rid -> Value \cup {Zero}]
  /\ deleted \subseteq Rid /\ \A r \in deleted : ~ is_record(r)

\* L holds the head of the free list and what its links lead to.  A page outside L
\* was never listed: it has at most its first record, and no delete took one from it.
FreePages(L) ==
  /\ first_free_page_no \in L \cup {RM_NO_PAGE}
  /\ \A p \in L : next_free_page_no[p] \in L \cup {RM_NO_PAGE}
  /\ \A p \in Page \ L : num_records[p] = IF bitmap[p] = {} THEN 0 ELSE 1
  /\ \A r \in deleted : r[1] \in L

FreeInv ==
  /\ next_free_page_no \in [Page -> Int]
  /\ \E L \in SUBSET (1..(num_pages - 1)) : FreePages(L)

\* What the scan owes is there and in front of it, what it has returned behind it.
ScanInv ==
  /\ rid_ \in Rid \cup {End}
  /\ due \subseteq InPage
  /\ \A r \in due : rid_ # End /\ Before(rid_, r)
  /\ passed \subseteq Rid
  /\ ScanForward

Inv == PagesInv /\ FreeInv /\ ScanInv
-----------------------------------------------------------------------------
\* A set of numbers that is not empty has a least one.
LEMMA LeastLemma ==
  ASSUME NEW S \in SUBSET Nat, S # {}
  PROVE  \E x \in S : \A y \in S : x <= y
<1> DEFINE R == {ss \in Nat \X Nat : ss[1] < ss[2]}
<1>1. IsWellFoundedOn(R, Nat)
  BY NatLessThanWellFounded DEF OpToRel
<1>2. PICK x \in S : \A y \in S : <<y, x>> \notin R
  <2> HIDE DEF R
  <2> QED
    BY <1>1, WFMin, ZenonT(30)
<1>3. ASSUME NEW y \in S PROVE x <= y
  <2>1. <<y, x>> \in Nat \X Nat /\ <<y, x>>[1] = y /\ <<y, x>>[2] = x
    OBVIOUS
  <2>2. ~ (y < x)
    BY <1>2, <2>1
  <2> QED
    BY <2>2, SMTT(30)
<1> QED
  BY <1>3

LEMMA MinLemma ==
  ASSUME NEW S \in SUBSET Nat, S # {}
  PROVE  Min(S) \in S /\ \A y \in S : Min(S) <= y
<1>1. \E x \in S : \A y \in S : x <= y
  BY LeastLemma
<1> QED
  BY <1>1 DEF Min

\* Bitmap::next_bit returns the next position of that kind behind curr, or max_n.
LEMMA NextBitLemma ==
  ASSUME NEW bit \in BOOLEAN, NEW bm, NEW max_n \in Nat, NEW curr \in Int, curr >= -1
  PROVE  LET i == next_bit(bit, bm, max_n, curr) IN
         /\ i = max_n \/ (i \in 0..(max_n - 1) /\ i > curr /\ (i \in bm) = bit)
         /\ \A j \in 0..(max_n - 1) : (j > curr /\ (j \in bm) = bit) => (i <= j /\ i # max_n)
<1> DEFINE hits == {i \in (curr + 1)..(max_n - 1) : (i \in bm) = bit}
<1>1. hits \in SUBSET Nat
  BY SMTT(30)
<1>2. \A j \in hits : j \in 0..(max_n - 1) /\ j > curr /\ (j \in bm) = bit /\ j # max_n
  BY SMTT(30)
<1>3. \A j \in 0..(max_n - 1) : (j > curr /\ (j \in bm) = bit) => j \in hits
  BY SMTT(30)
<1>4. next_bit(bit, bm, max_n, curr) = IF hits = {} THEN max_n ELSE Min(hits)
  BY DEF next_bit
<1> HIDE DEF hits
<1>5. CASE hits = {}
  BY <1>3, <1>4, <1>5
<1>6. CASE hits # {}
  <2>1. next_bit(bit, bm, max_n, curr) = Min(hits)
    BY <1>4, <1>6
  <2>2. Min(hits) \in hits /\ \A j \in hits : Min(hits) <= j
    BY <1>1, <1>6, MinLemma
  <2> QED
    BY <1>2, <1>3, <2>1, <2>2
<1> QED
  BY <1>5, <1>6

\* A set of rids that is not empty has a first one.
LEMMA FirstOfLemma ==
  ASSUME NEW S \in SUBSET (Nat \X Nat), S # {}
  PROVE  FirstOf(S) \in S /\ \A s \in S \ {FirstOf(S)} : Before(FirstOf(S), s)
<1> DEFINE P == {s[1] : s \in S}
<1>1. P \in SUBSET Nat /\ P # {}
  OBVIOUS
<1>2. PICK p \in P : \A q \in P : p <= q
  BY <1>1, LeastLemma
<1> DEFINE I == {s[2] : s \in {r \in S : r[1] = p}}
<1>3. I \in SUBSET Nat /\ I # {}
  OBVIOUS
<1>4. PICK i \in I : \A j \in I : i <= j
  BY <1>3, LeastLemma
<1>5. PICK r \in S : r[1] = p /\ r[2] = i
  OBVIOUS
<1>6. ASSUME NEW s \in S \ {r} PROVE Before(r, s)
  <2>1. s[1] \in Nat /\ s[2] \in Nat /\ s = <<s[1], s[2]>> /\ r[1] \in Nat /\ r[2] \in Nat /\ r = <<r[1], r[2]>>
    BY SMTT(30)
  <2>2. p <= s[1]
    BY <1>2
  <2>3. s[1] = p => i <= s[2]
    BY <1>4
  <2>4. s[1] = r[1] => s[2] # r[2]
    BY <2>1
  <2> QED
    BY <1>5, <2>1, <2>2, <2>3, <2>4, SMTT(30) DEF Before
<1>7. \E x \in S : \A s \in S \ {x} : Before(x, s)
  BY <1>6
<1> QED
  BY <1>7 DEF FirstOf
-----------------------------------------------------------------------------
(* RmScan.                                                                 *)

Found == {r \in Rest(rid_) : r[2] # N}

\* RidLemma, for the provers: what a rid is.
LEMMA RidLemma ==
  ASSUME NEW r \in Rid
  PROVE  /\ r[1] \in Nat /\ r[1] >= 1 /\ r[1] < MaxPages /\ r[1] \in Page
         /\ r[2] \in Nat /\ r[2] <= N /\ r[2] \in Slot
         /\ r = <<r[1], r[2]>> /\ r # End
BY RecordFileAssumption, SMTT(30) DEF Rid, Page, Slot, End, RM_NO_PAGE

\* The candidates of next(): records behind the one the scan stands on.
LEMMA FoundLemma ==
  ASSUME num_pages \in 1..MaxPages, rid_ \in Rid, NEW r \in Found
  PROVE  r \in Rid /\ Before(rid_, r) /\ r[2] \in bitmap[r[1]] /\ r[2] < N
<1>1. rid_[1] \in Nat /\ rid_[1] >= 1 /\ rid_[2] \in Nat
  BY RidLemma
<1>2. PICK p \in rid_[1]..(num_pages - 1) :
        r = <<p, next_bit(TRUE, bitmap[p], N, IF p = rid_[1] THEN rid_[2] ELSE -1)>>
  BY DEF Found, Rest
<1> DEFINE curr == IF p = rid_[1] THEN rid_[2] ELSE -1
<1>3. curr \in Int /\ curr >= -1 /\ N \in Nat
  BY <1>1, RecordFileAssumption, SMTT(30)
<1>4. r[1] = p /\ r[2] = next_bit(TRUE, bitmap[p], N, curr) /\ r[2] # N
  BY <1>2 DEF Found
<1>5. r[2] \in 0..(N - 1) /\ r[2] > curr /\ r[2] \in bitmap[p]
  <2> HIDE DEF curr
  <2>1. LET i == next_bit(TRUE, bitmap[p], N, curr) IN
        i = N \/ (i \in 0..(N - 1) /\ i > curr /\ (i \in bitmap[p]) = TRUE)
    BY <1>3, NextBitLemma
  <2> QED
    BY <1>4, <2>1
<1> DEFINE a == rid_[1]
           i == r[2]
<1>6. p \in Page /\ r[2] \in Slot /\ r[2] < N /\ (p = a \/ a < p)
  <2>1. a \in Nat /\ a >= 1 /\ p \in a..(num_pages - 1) /\ i \in 0..(N - 1)
    BY <1>1, <1>2, <1>5
  <2> HIDE DEF a, i
  <2>2. p \in Page /\ i \in Slot /\ i < N /\ (p = a \/ a < p)
    BY <2>1, RecordFileAssumption, SMTT(30) DEF Page, Slot
  <2> QED
    BY <2>2 DEF i
<1>8. Before(rid_, r)
  BY <1>4, <1>5, <1>6 DEF Before
<1>9. r \in Rid
  BY <1>2, <1>4, <1>6 DEF Rid
<1> QED
  BY <1>4, <1>5, <1>6, <1>8, <1>9

\* The first candidate is one.
LEMMA FirstFoundLemma ==
  ASSUME num_pages \in 1..MaxPages, rid_ \in Rid, Found # {}
  PROVE  /\ FirstOf(Found) \in Found
         /\ \A s \in Found \ {FirstOf(Found)} : Before(FirstOf(Found), s)
<1>1. Found \subseteq Rid
  BY FoundLemma
<1>2. Rid \subseteq Nat \X Nat
  BY RecordFileAssumption, SMTT(30) DEF Rid, Page, Slot
<1> QED
  BY <1>1, <1>2, FirstOfLemma

LEMMA StoredLemma == Stored \subseteq Rid /\ Stored \in SUBSET (Nat \X Nat)
<1>1. Rid \subseteq Nat \X Nat
  BY RecordFileAssumption, SMTT(30) DEF Rid, Page, Slot
<1> QED
  BY <1>1 DEF Stored

\* A record in a slot lies in a page of the file.
LEMMA InPageLemma ==
  ASSUME PagesInv, NEW d \in InPage
  PROVE  /\ d \in Rid /\ d[1] \in Page /\ d[2] \in bitmap[d[1]]
         /\ d[2] \in 0..(N - 1) /\ d[1] < num_pages
<1>1. d \in Rid /\ d[2] \in bitmap[d[1]] /\ d[2] < N
  BY DEF InPage, Stored, is_record
<1>2. d[1] \in Page /\ d[1] \in Nat /\ d[2] \in Nat
  BY <1>1, RidLemma
<1>3. ~ (d[1] >= num_pages)
  BY <1>1, <1>2 DEF PagesInv
<1>4. d[1] < num_pages
  BY <1>2, <1>3, RecordFileAssumption, SMTT(30) DEF PagesInv
<1>5. d[2] \in 0..(N - 1)
  BY <1>1, <1>2, RecordFileAssumption, SMTT(30)
<1> QED
  BY <1>1, <1>2, <1>4, <1>5

\* next() stands on what is owed, or stops in front of it.
LEMMA NextMeetsDue ==
  ASSUME PagesInv, rid_ \in Rid, NEW d \in InPage, Before(rid_, d)
  PROVE  Found # {} /\ (d = FirstOf(Found) \/ Before(FirstOf(Found), d))
<1> DEFINE p == d[1]
           curr == IF p = rid_[1] THEN rid_[2] ELSE -1
           i == next_bit(TRUE, bitmap[p], N, curr)
           c == <<p, i>>
           f == FirstOf(Found)
<1>1. d \in Rid /\ p \in Page /\ d[2] \in bitmap[p] /\ d[2] \in 0..(N - 1) /\ p < num_pages
  BY InPageLemma
<1>2. /\ rid_[1] \in Nat /\ rid_[1] >= 1 /\ rid_[2] \in Nat /\ p \in Nat /\ d[2] \in Nat
      /\ num_pages \in Nat /\ N \in Nat /\ d = <<p, d[2]>> /\ num_pages \in 1..MaxPages
  <2>1. num_pages \in Nat
    BY RecordFileAssumption, SMTT(30) DEF PagesInv
  <2> QED
    BY <1>1, <2>1, RidLemma, RecordFileAssumption DEF PagesInv
<1>3. rid_[1] < p \/ (rid_[1] = p /\ rid_[2] < d[2])
  BY DEF Before
<1>4. curr \in Int /\ curr >= -1 /\ d[2] > curr
  BY <1>2, <1>3, SMTT(30)
<1>5. i <= d[2] /\ i # N /\ i \in 0..(N - 1)
  <2> HIDE DEF curr
  <2>1. /\ i = N \/ (i \in 0..(N - 1) /\ i > curr /\ (i \in bitmap[p]) = TRUE)
        /\ \A j \in 0..(N - 1) : (j > curr /\ (j \in bitmap[p]) = TRUE) => (i <= j /\ i # N)
    BY <1>2, <1>4, NextBitLemma
  <2>2. (d[2] \in bitmap[p]) = TRUE
    BY <1>1
  <2> QED
    BY <1>1, <1>4, <2>1, <2>2
<1>6. p \in rid_[1]..(num_pages - 1)
  <2> DEFINE a == rid_[1]
  <2>1. a \in Nat /\ (a < p \/ a = p)
    BY <1>2, <1>3
  <2> HIDE DEF a, p
  <2>2. p \in a..(num_pages - 1)
    BY <1>1, <1>2, <2>1, SMTT(30)
  <2> QED
    BY <2>2 DEF a
<1>7. c \in Found
  BY <1>5, <1>6 DEF Found, Rest
<1>8. f \in Found /\ (c = f \/ Before(f, c))
  <2>1. FirstOf(Found) \in Found /\ \A s \in Found \ {FirstOf(Found)} : Before(FirstOf(Found), s)
    BY <1>2, <1>7, FirstFoundLemma
  <2> HIDE DEF c
  <2> QED
    BY <1>7, <2>1
<1>9. f \in Rid /\ f[1] \in Nat /\ f[2] \in Nat /\ f = <<f[1], f[2]>>
  BY <1>2, <1>8, FoundLemma, RidLemma
<1>10. c[1] = p /\ c[2] = i /\ i \in Nat
  <2> HIDE DEF i
  <2>1. i \in Nat
    BY <1>2, <1>5, SMTT(30)
  <2> QED
    BY <2>1
<1>11. f[1] < p \/ (f[1] = p /\ f[2] <= d[2])
  <2> DEFINE x == f[1]
             y == f[2]
             z == d[2]
  <2>1. (x = p /\ y = i) \/ x < p \/ (x = p /\ y < i)
    BY <1>8, <1>10 DEF Before
  <2>2. x \in Nat /\ y \in Nat /\ z \in Nat /\ p \in Nat /\ i \in Nat /\ i <= z
    BY <1>2, <1>5, <1>9, <1>10
  <2> HIDE DEF x, y, z, p, i
  <2>3. x < p \/ (x = p /\ y <= z)
    BY <2>1, <2>2, SMTT(30)
  <2> QED
    BY <2>3 DEF x, y, z
<1>12. f[2] <= d[2] => (f[2] = d[2] \/ f[2] < d[2])
  <2> DEFINE y == f[2]
             z == d[2]
  <2>1. y \in Nat /\ z \in Nat
    BY <1>2, <1>9
  <2> HIDE DEF y, z
  <2>2. y <= z => (y = z \/ y < z)
    BY <2>1, SMTT(30)
  <2> QED
    BY <2>2 DEF y, z
<1>13. d = f \/ Before(f, d)
  BY <1>2, <1>9, <1>11, <1>12 DEF Before
<1> QED
  BY <1>7, <1>13

LEMMA BeforeTransitive ==
  ASSUME NEW q \in Rid, NEW r \in Rid, NEW s \in Rid, Before(q, r), Before(r, s)
  PROVE  Before(q, s)
<1>1. /\ q[1] \in Nat /\ q[2] \in Nat /\ r[1] \in Nat /\ r[2] \in Nat
      /\ s[1] \in Nat /\ s[2] \in Nat
  BY RidLemma
<1> QED
  BY <1>1, SMTT(30) DEF Before

LEMMA ScanOpenKeeps == ASSUME PagesInv, ScanInv, ScanOpen PROVE ScanInv'
<1>1. bitmap' = bitmap /\ due' = InPage \ {rid_'} /\ passed' = {}
  BY DEF ScanOpen, pages
<1>2. InPage' = InPage
  BY <1>1 DEF InPage, Stored, is_record
<1>3. CASE Stored = {}
  <2>1. rid_' \in Rid \cup {End} /\ due' = {}
    BY <1>1, <1>3 DEF ScanOpen, InPage
  <2> QED
    BY <1>1, <2>1 DEF ScanInv, ScanForward
<1>4. CASE Stored # {}
  <2>1. rid_' = FirstOf(Stored)
    BY <1>4 DEF ScanOpen
  <2>2. FirstOf(Stored) \in Stored /\ \A s \in Stored \ {FirstOf(Stored)} : Before(FirstOf(Stored), s)
    BY <1>4, StoredLemma, FirstOfLemma
  <2>3. rid_' \in Rid /\ rid_' # End
    BY <2>1, <2>2, StoredLemma, RidLemma
  <2>4. \A r \in due' : Before(rid_', r)
    BY <1>1, <2>1, <2>2 DEF InPage
  <2> QED
    BY <1>1, <1>2, <2>3, <2>4 DEF ScanInv, ScanForward, Before
<1> QED
  BY <1>3, <1>4

LEMMA ScanNextKeeps == ASSUME PagesInv, ScanInv, ScanNext PROVE ScanInv'
<1>1. /\ bitmap' = bitmap /\ due' = due \ {rid_'} /\ rid_ \in Rid /\ rid_ # End
      /\ rid_' = IF Found = {} THEN End ELSE FirstOf(Found)
      /\ passed' = IF rid_' = End THEN {} ELSE passed \cup {rid_}
  BY DEF ScanNext, pages, Found, ScanInv
<1>2. InPage' = InPage
  BY <1>1 DEF InPage, Stored, is_record
<1>3. ASSUME NEW d \in due' PROVE rid_' # End /\ Before(rid_', d)
  <2>1. d \in InPage /\ Before(rid_, d) /\ d # rid_'
    BY <1>1 DEF ScanInv
  <2>2. Found # {} /\ (d = FirstOf(Found) \/ Before(FirstOf(Found), d))
    BY <1>1, <2>1, NextMeetsDue
  <2>3. FirstOf(Found) \in Rid
    BY <1>1, <2>2, FirstFoundLemma, FoundLemma DEF PagesInv
  <2> QED
    BY <1>1, <2>1, <2>2, <2>3, RidLemma
<1>4. rid_' # End => rid_' \in Rid /\ Before(rid_, rid_')
  BY <1>1, FirstFoundLemma, FoundLemma DEF PagesInv
<1>5. due' \subseteq InPage'
  BY <1>1, <1>2 DEF ScanInv
<1>6. passed' \subseteq Rid
  BY <1>1 DEF ScanInv
<1>7. ASSUME rid_' # End, NEW r \in passed' PROVE Before(r, rid_')
  <2>1. r \in passed \/ r = rid_
    BY <1>1, <1>7
  <2>2. r \in passed => r \in Rid /\ Before(r, rid_)
    BY <1>1 DEF ScanInv, ScanForward
  <2> QED
    BY <1>1, <1>4, <1>7, <2>1, <2>2, BeforeTransitive
<1> QED
  BY <1>3, <1>4, <1>5, <1>6, <1>7 DEF ScanInv, ScanForward, Before

\* A step that does not move the scan keeps what was said of it, as long as what is
\* owed stays in its slots.
LEMMA ScanStays ==
  ASSUME ScanInv, rid_' = rid_, passed' = passed, due' \subseteq due, due' \subseteq InPage'
  PROVE  ScanInv'
BY DEF ScanInv, ScanForward, Before
-----------------------------------------------------------------------------
(* The pages.                                                              *)

\* Setting and clearing the bit of a rid adds and removes that record.
LEMMA SetBit ==
  ASSUME bitmap \in [Page -> SUBSET Slot], NEW r \in Rid,
         bitmap' = [bitmap EXCEPT ![r[1]] = @ \cup {r[2]}]
  PROVE  /\ bitmap' \in [Page -> SUBSET Slot]
         /\ \A q \in Rid : is_record(q)' <=> (is_record(q) \/ q = r)
         /\ Stored' = Stored \cup {r}
<1>1. r[1] \in Page /\ r[2] \in Slot /\ r = <<r[1], r[2]>>
  BY RidLemma
<1>2. \A p \in Page : bitmap'[p] = IF p = r[1] THEN bitmap[p] \cup {r[2]} ELSE bitmap[p]
  BY <1>1
<1>3. bitmap' \in [Page -> SUBSET Slot]
  BY <1>1
<1>4. ASSUME NEW q \in Rid PROVE is_record(q)' <=> (is_record(q) \/ q = r)
  <2>1. q[1] \in Page /\ q = <<q[1], q[2]>>
    BY RidLemma
  <2>2. (q[1] = r[1] /\ q[2] = r[2]) <=> q = r
    BY <1>1, <2>1
  <2>3. q[2] \in bitmap'[q[1]] <=> (q[2] \in bitmap[q[1]] \/ (q[1] = r[1] /\ q[2] = r[2]))
    BY <1>2, <2>1
  <2> QED
    BY <2>2, <2>3 DEF is_record
<1> QED
  BY <1>3, <1>4 DEF Stored

LEMMA ResetBit ==
  ASSUME bitmap \in [Page -> SUBSET Slot], NEW r \in Rid,
         bitmap' = [bitmap EXCEPT ![r[1]] = @ \ {r[2]}]
  PROVE  /\ bitmap' \in [Page -> SUBSET Slot]
         /\ \A q \in Rid : is_record(q)' <=> (is_record(q) /\ q # r)
         /\ Stored' = Stored \ {r}
<1>1. r[1] \in Page /\ r[2] \in Slot /\ r = <<r[1], r[2]>>
  BY RidLemma
<1>2. \A p \in Page : bitmap'[p] = IF p = r[1] THEN bitmap[p] \ {r[2]} ELSE bitmap[p]
  BY <1>1
<1>3. bitmap' \in [Page -> SUBSET Slot]
  BY <1>1
<1>4. ASSUME NEW q \in Rid PROVE is_record(q)' <=> (is_record(q) /\ q # r)
  <2>1. q[1] \in Page /\ q = <<q[1], q[2]>>
    BY RidLemma
  <2>2. (q[1] = r[1] /\ q[2] = r[2]) <=> q = r
    BY <1>1, <2>1
  <2>3. q[2] \in bitmap'[q[1]] <=> (q[2] \in bitmap[q[1]] /\ ~ (q[1] = r[1] /\ q[2] = r[2]))
    BY <1>2, <2>1
  <2> QED
    BY <2>2, <2>3 DEF is_record
<1> QED
  BY <1>3, <1>4 DEF Stored

\* insert_record takes a page of the file or the one behind it, and in that page a
\* free slot or, when there is none, what lies behind the slots.
RidForInsert == <<PageForInsert, first_bit(FALSE, bitmap[PageForInsert], N)>>

LEMMA InsertRid ==
  ASSUME PagesInv, FreeInv, NEW v, insert_record(v)
  PROVE  /\ RidForInsert \in Rid /\ RidForInsert[1] = PageForInsert
         /\ RidForInsert[2] < N => ~ is_record(RidForInsert)
         /\ PageForInsert \in Page
         /\ num_pages' \in 1..MaxPages
         /\ num_pages' = IF NeedsNewPage THEN num_pages + 1 ELSE num_pages
         /\ slots' = [slots EXCEPT ![RidForInsert] = v]
         /\ bitmap' = [bitmap EXCEPT ![RidForInsert[1]] = @ \cup {RidForInsert[2]}]
         /\ num_records' = [num_records EXCEPT ![PageForInsert] = @ + 1]
         /\ first_free_page_no' = FirstFreeAfterInsert(PageForInsert)
         /\ deleted' = deleted \ {RidForInsert}
         /\ next_free_page_no' = next_free_page_no
         /\ rid_' = rid_ /\ due' = due /\ passed' = passed
<1> DEFINE p == PageForInsert
           i == first_bit(FALSE, bitmap[p], N)
<1>1. /\ p < MaxPages
      /\ num_pages' = IF NeedsNewPage THEN num_pages + 1 ELSE num_pages
      /\ slots' = [slots EXCEPT ![<<p, i>>] = v]
      /\ bitmap' = [bitmap EXCEPT ![p] = @ \cup {i}]
      /\ num_records' = [num_records EXCEPT ![p] = @ + 1]
      /\ first_free_page_no' = FirstFreeAfterInsert(p)
      /\ deleted' = deleted \ {<<p, i>>}
      /\ next_free_page_no' = next_free_page_no
      /\ rid_' = rid_ /\ due' = due /\ passed' = passed
  BY DEF insert_record, scanVars
<1>2. PICK L \in SUBSET (1..(num_pages - 1)) : FreePages(L)
  BY DEF FreeInv
<1>3. p \in Page /\ num_pages' \in 1..MaxPages
  <2>1. first_free_page_no \in L \cup {RM_NO_PAGE}
    BY <1>2 DEF FreePages
  <2>2. num_pages \in 1..MaxPages /\ MaxPages \in Nat
    BY RecordFileAssumption DEF PagesInv
  <2>3. CASE NeedsNewPage
    <3>1. p = num_pages /\ num_pages' = num_pages + 1
      BY <1>1, <2>3 DEF PageForInsert
    <3>2. num_pages < MaxPages
      BY <1>1, <3>1
    <3>3. num_pages \in Page /\ num_pages + 1 \in 1..MaxPages
      BY <2>2, <3>2, SMTT(30) DEF Page
    <3> QED
      BY <3>1, <3>3
  <2>4. CASE ~ NeedsNewPage
    <3>1. p = first_free_page_no /\ num_pages' = num_pages
      BY <1>1, <2>4 DEF PageForInsert
    <3>2. first_free_page_no # RM_NO_PAGE
      BY <2>4, SMTT(30) DEF NeedsNewPage, RM_NO_PAGE
    <3>3. 1..(num_pages - 1) \subseteq Page
      BY <2>2, SMTT(30) DEF Page
    <3> QED
      BY <2>1, <2>2, <3>1, <3>2, <3>3
  <2> QED
    BY <2>3, <2>4
<1>4. i \in Slot /\ (i < N => i \notin bitmap[p])
  <2>1. N \in Nat /\ -1 \in Int /\ -1 >= -1 /\ ~ (N < N)
    BY RecordFileAssumption, SMTT(30)
  <2>2. i = N \/ (i \in 0..(N - 1) /\ i > -1 /\ (i \in bitmap[p]) = FALSE)
    BY <2>1, NextBitLemma DEF first_bit
  <2>3. N \in Slot /\ 0..(N - 1) \subseteq Slot
    BY RecordFileAssumption, SMTT(30) DEF Slot
  <2> HIDE DEF i
  <2> QED
    BY <2>1, <2>2, <2>3
<1>5. RidForInsert = <<p, i>> /\ RidForInsert[1] = p /\ RidForInsert[2] = i
  BY DEF RidForInsert
<1>6. RidForInsert \in Rid
  <2> HIDE DEF i, p
  <2> QED
    BY <1>3, <1>4, <1>5 DEF Rid
<1> HIDE DEF i
<1> QED
  BY <1>1, <1>3, <1>4, <1>5, <1>6 DEF is_record

LEMMA InsertKeeps ==
  ASSUME PagesInv, FreeInv, ScanInv, NEW v \in Value, insert_record(v)
  PROVE  Inv'
<1> DEFINE r == RidForInsert
           p == PageForInsert
<1>1. /\ r \in Rid /\ r[1] = p /\ p \in Page
      /\ num_pages' \in 1..MaxPages
      /\ num_pages' = IF NeedsNewPage THEN num_pages + 1 ELSE num_pages
      /\ slots' = [slots EXCEPT ![r] = v]
      /\ bitmap' = [bitmap EXCEPT ![r[1]] = @ \cup {r[2]}]
      /\ num_records' = [num_records EXCEPT ![p] = @ + 1]
      /\ first_free_page_no' = FirstFreeAfterInsert(p)
      /\ deleted' = deleted \ {r}
      /\ next_free_page_no' = next_free_page_no
      /\ rid_' = rid_ /\ due' = due /\ passed' = passed
  BY InsertRid
<1>2. /\ bitmap' \in [Page -> SUBSET Slot]
      /\ \A q \in Rid : is_record(q)' <=> (is_record(q) \/ q = r)
      /\ Stored' = Stored \cup {r}
  <2> HIDE DEF r
  <2> QED
    BY <1>1, SetBit DEF PagesInv
<1>3. /\ num_pages \in Nat /\ num_pages' \in Nat /\ num_pages <= num_pages'
      /\ num_pages \in 1..MaxPages
      /\ 1..(num_pages - 1) \subseteq 1..(num_pages' - 1)
      /\ num_pages \notin 1..(num_pages - 1)
  <2>1. /\ num_pages \in 1..MaxPages /\ MaxPages \in Nat
        /\ num_pages' = num_pages + 1 \/ num_pages' = num_pages
    BY <1>1, RecordFileAssumption DEF PagesInv
  <2> QED
    BY <2>1, SMTT(30)
<1>4. PICK L \in SUBSET (1..(num_pages - 1)) : FreePages(L)
  BY DEF FreeInv
<1>5. NeedsNewPage => p = num_pages /\ num_pages' = num_pages + 1
  BY <1>1 DEF PageForInsert
<1>6. ~ NeedsNewPage => p \in L
  <2>1. ~ NeedsNewPage => p = first_free_page_no
    BY DEF PageForInsert
  <2>2. ~ NeedsNewPage => first_free_page_no # RM_NO_PAGE
    BY SMTT(30) DEF NeedsNewPage, RM_NO_PAGE
  <2> QED
    BY <1>4, <2>1, <2>2 DEF FreePages
<1>7. p < num_pages'
  <2>1. \A l \in 1..(num_pages - 1) : l < num_pages
    BY <1>3, SMTT(30)
  <2>2. NeedsNewPage => p < num_pages'
    BY <1>3, <1>5, SMTT(30)
  <2>3. ~ NeedsNewPage => p < num_pages /\ num_pages' = num_pages
    BY <1>1, <1>6, <2>1
  <2> QED
    BY <2>2, <2>3
<1>8. PagesInv'
  <2>1. num_records' \in [Page -> Int]
    BY <1>1, SMTT(30) DEF PagesInv
  <2>2. slots' \in [Rid -> Value \cup {Zero}]
    <3> HIDE DEF r
    <3> QED
      BY <1>1 DEF PagesInv
  <2>3. ASSUME NEW q \in Page, q >= num_pages' PROVE bitmap'[q] = {}
    <3>1. q >= num_pages /\ q # p
      BY <1>3, <1>7, <2>3, SMTT(30) DEF Page
    <3>2. bitmap'[q] = bitmap[q]
      BY <1>1, <3>1 DEF PagesInv
    <3> QED
      BY <3>1, <3>2 DEF PagesInv
  <2>4. deleted' \subseteq Rid /\ \A q \in deleted' : ~ is_record(q)'
    BY <1>1, <1>2 DEF PagesInv
  <2> QED
    BY <1>1, <1>2, <2>1, <2>2, <2>3, <2>4 DEF PagesInv, is_record
<1>9. FreeInv'
  <2>1. L \in SUBSET (1..(num_pages' - 1)) /\ num_pages \notin L
    BY <1>3
  <2>2. NeedsNewPage => p \notin L /\ bitmap[p] = {} /\ num_records[p] = 0
    <3>1. num_pages >= num_pages
      BY <1>3, SMTT(30)
    <3>2. NeedsNewPage => p \in Page \ L /\ bitmap[p] = {}
      BY <1>1, <1>5, <2>1, <3>1 DEF PagesInv
    <3> QED
      BY <1>4, <3>2 DEF FreePages
  <2>3. first_free_page_no' \in L \cup {RM_NO_PAGE}
    <3>1. ~ (0 + 1 >= N)
      BY RecordFileAssumption, SMTT(30)
    <3>2. NeedsNewPage => first_free_page_no' = first_free_page_no
      BY <1>1, <2>2, <3>1 DEF FirstFreeAfterInsert
    <3>3. \/ first_free_page_no' = next_free_page_no[p]
          \/ first_free_page_no' = first_free_page_no
      BY <1>1 DEF FirstFreeAfterInsert
    <3> QED
      BY <1>4, <1>6, <3>2, <3>3 DEF FreePages
  <2>4. ASSUME NEW q \in Page \ L
        PROVE  num_records'[q] = IF bitmap'[q] = {} THEN 0 ELSE 1
    <3>1. CASE q = p
      <4>1. num_records[p] = 0
        BY <1>6, <2>2, <2>4, <3>1
      <4>2. num_records'[p] = 0 + 1 /\ bitmap'[p] # {}
        BY <1>1, <4>1 DEF PagesInv
      <4> QED
        BY <3>1, <4>2, SMTT(30)
    <3>2. CASE q # p
      <4>1. num_records'[q] = num_records[q] /\ bitmap'[q] = bitmap[q]
        BY <1>1, <3>2 DEF PagesInv
      <4> QED
        BY <1>4, <2>4, <4>1 DEF FreePages
    <3> QED
      BY <3>1, <3>2
  <2>5. FreePages(L)'
    BY <1>1, <1>4, <2>3, <2>4 DEF FreePages
  <2> QED
    BY <1>1, <2>1, <2>5 DEF FreeInv
<1>10. ScanInv'
  <2>1. InPage \subseteq InPage'
    BY <1>2 DEF InPage
  <2> QED
    BY <1>1, <2>1, ScanStays DEF ScanInv
<1> QED
  BY <1>8, <1>9, <1>10 DEF Inv

LEMMA DeleteKeeps ==
  ASSUME PagesInv, FreeInv, ScanInv, NEW r \in Stored, delete_record(r)
  PROVE  Inv'
<1> DEFINE p == r[1]
<1>1. r \in Rid /\ p \in Page /\ r[2] \in bitmap[p]
  BY RidLemma DEF Stored, is_record
<1>2. /\ bitmap' = [bitmap EXCEPT ![r[1]] = @ \ {r[2]}]
      /\ num_records' = [num_records EXCEPT ![p] = num_records[p] - 1]
      /\ \/ num_records[p] - 1 = 0 /\ release_page_handle(p)
         \/ /\ num_records[p] - 1 # 0 /\ first_free_page_no' = first_free_page_no
            /\ next_free_page_no' = next_free_page_no
      /\ deleted' = (IF Rollback THEN deleted \cup {r} ELSE {})
      /\ due' = due \ {r}
      /\ num_pages' = num_pages /\ slots' = slots /\ rid_' = rid_ /\ passed' = passed
  BY DEF delete_record, CountAfterDelete
<1>3. /\ bitmap' \in [Page -> SUBSET Slot]
      /\ \A q \in Rid : is_record(q)' <=> (is_record(q) /\ q # r)
      /\ Stored' = Stored \ {r}
  BY <1>1, <1>2, ResetBit DEF PagesInv
<1>4. PICK L \in SUBSET (1..(num_pages - 1)) : FreePages(L)
  BY DEF FreeInv
<1>5. PagesInv'
  <2>1. num_records' \in [Page -> Int]
    BY <1>1, <1>2, SMTT(30) DEF PagesInv
  <2>2. ASSUME NEW q \in Page, q >= num_pages PROVE bitmap'[q] = {}
    BY <1>2, <2>2 DEF PagesInv
  <2>3. deleted' \subseteq Rid /\ \A q \in deleted' : ~ is_record(q)'
    BY <1>1, <1>2, <1>3 DEF PagesInv
  <2> QED
    BY <1>2, <1>3, <2>1, <2>2, <2>3 DEF PagesInv, is_record
<1>6. p \in 1..(num_pages - 1)
  <2>1. ~ (p >= num_pages)
    BY <1>1 DEF PagesInv
  <2>2. num_pages \in 1..MaxPages /\ MaxPages \in Nat /\ p \in Page
    BY <1>1, RecordFileAssumption DEF PagesInv
  <2> HIDE DEF p
  <2> QED
    BY <2>1, <2>2, SMTT(30) DEF Page
<1>7. p \notin L => num_records[p] - 1 = 0
  <2>1. p \notin L => num_records[p] = 1
    BY <1>1, <1>4 DEF FreePages
  <2> QED
    BY <2>1, SMTT(30)
<1>8. \A q \in Page \ {p} : num_records'[q] = num_records[q] /\ bitmap'[q] = bitmap[q]
  BY <1>1, <1>2 DEF PagesInv
<1>9. CASE num_records[p] - 1 = 0
  <2>1. /\ next_free_page_no' = [next_free_page_no EXCEPT ![p] = first_free_page_no]
        /\ first_free_page_no' = p
    BY <1>2, <1>9 DEF release_page_handle
  <2>2. first_free_page_no \in L \cup {RM_NO_PAGE}
    BY <1>4 DEF FreePages
  <2>3. L \subseteq Page /\ L \subseteq Int /\ RM_NO_PAGE \in Int
    <3>1. 1..(num_pages - 1) \subseteq Page /\ Page \subseteq Int
      BY RecordFileAssumption, SMTT(30) DEF Page, PagesInv
    <3>2. RM_NO_PAGE \in Int
      BY SMTT(30) DEF RM_NO_PAGE
    <3> QED
      BY <3>1, <3>2
  <2>4. next_free_page_no' \in [Page -> Int]
    BY <2>1, <2>2, <2>3 DEF FreeInv
  <2>5. \A q \in L \cup {p} : next_free_page_no'[q] \in L \cup {p} \cup {RM_NO_PAGE}
    BY <1>1, <1>4, <2>1, <2>2, <2>3 DEF FreePages, FreeInv
  <2>6. \A q \in Page \ (L \cup {p}) : num_records'[q] = IF bitmap'[q] = {} THEN 0 ELSE 1
    BY <1>4, <1>8 DEF FreePages
  <2>7. \A q \in deleted' : q[1] \in L \cup {p}
    BY <1>2, <1>4 DEF FreePages
  <2>8. FreePages(L \cup {p})'
    BY <2>1, <2>5, <2>6, <2>7 DEF FreePages
  <2>9. L \cup {p} \in SUBSET (1..(num_pages' - 1))
    BY <1>2, <1>6
  <2>10. FreeInv'
    BY <2>4, <2>8, <2>9 DEF FreeInv
  <2> QED
    BY <1>2, <1>3, <1>5, <2>10, ScanStays DEF Inv, InPage, ScanInv
<1>10. CASE num_records[p] - 1 # 0
  <2>1. first_free_page_no' = first_free_page_no /\ next_free_page_no' = next_free_page_no
        /\ p \in L
    BY <1>2, <1>7, <1>10
  <2>2. \A q \in Page \ L : num_records'[q] = IF bitmap'[q] = {} THEN 0 ELSE 1
    BY <1>4, <1>8, <2>1 DEF FreePages
  <2>3. \A q \in deleted' : q[1] \in L
    BY <1>2, <1>4, <2>1 DEF FreePages
  <2>4. FreePages(L)'
    BY <1>4, <2>1, <2>2, <2>3 DEF FreePages
  <2>5. FreeInv'
    BY <1>2, <2>1, <2>4 DEF FreeInv
  <2> QED
    BY <1>2, <1>3, <1>5, <2>5, ScanStays DEF Inv, InPage, ScanInv
<1> QED
  BY <1>9, <1>10

LEMMA RollbackKeeps ==
  ASSUME PagesInv, FreeInv, ScanInv, NEW r \in deleted, NEW v \in Value, insert_record_at(r, v)
  PROVE  Inv'
<1> DEFINE p == r[1]
<1>1. r \in Rid /\ p \in Page /\ ~ is_record(r)
  BY RidLemma DEF PagesInv
<1>2. /\ p < num_pages /\ num_pages < MaxPages
      /\ num_pages' = num_pages + 1
      /\ bitmap' = [bitmap EXCEPT ![r[1]] = @ \cup {r[2]}]
      /\ num_records' = [num_records EXCEPT ![p] = num_records[p] + 1]
      /\ first_free_page_no' =
           (IF num_records[p] + 1 = N THEN next_free_page_no[p] ELSE first_free_page_no)
      /\ slots' = [slots EXCEPT ![r] = v]
      /\ deleted' = deleted \ {r}
      /\ next_free_page_no' = next_free_page_no
      /\ rid_' = rid_ /\ due' = due /\ passed' = passed
  BY DEF insert_record_at, scanVars
<1>3. /\ bitmap' \in [Page -> SUBSET Slot]
      /\ \A q \in Rid : is_record(q)' <=> (is_record(q) \/ q = r)
      /\ Stored' = Stored \cup {r}
  BY <1>1, <1>2, SetBit DEF PagesInv
<1>4. PICK L \in SUBSET (1..(num_pages - 1)) : FreePages(L)
  BY DEF FreeInv
<1>5. p \in L
  BY <1>4 DEF FreePages
<1>6. /\ num_pages \in Nat /\ num_pages' \in Nat /\ num_pages <= num_pages'
      /\ num_pages' \in 1..MaxPages
      /\ 1..(num_pages - 1) \subseteq 1..(num_pages' - 1)
  BY <1>2, RecordFileAssumption, SMTT(30) DEF PagesInv
<1>7. PagesInv'
  <2>1. num_records' \in [Page -> Int]
    BY <1>1, <1>2, SMTT(30) DEF PagesInv
  <2>2. slots' \in [Rid -> Value \cup {Zero}]
    BY <1>1, <1>2 DEF PagesInv
  <2>3. ASSUME NEW q \in Page, q >= num_pages' PROVE bitmap'[q] = {}
    <3>1. q >= num_pages /\ q # p
      <4>1. p \in Page /\ p < num_pages
        BY <1>1, <1>2
      <4> HIDE DEF p
      <4> QED
        BY <1>6, <2>3, <4>1, SMTT(30) DEF Page
    <3>2. bitmap'[q] = bitmap[q]
      BY <1>2, <3>1 DEF PagesInv
    <3> QED
      BY <3>1, <3>2 DEF PagesInv
  <2>4. deleted' \subseteq Rid /\ \A q \in deleted' : ~ is_record(q)'
    BY <1>2, <1>3 DEF PagesInv
  <2> QED
    BY <1>3, <1>6, <2>1, <2>2, <2>3, <2>4 DEF PagesInv, is_record
<1>8. FreeInv'
  <2>1. first_free_page_no' \in L \cup {RM_NO_PAGE}
    BY <1>2, <1>4, <1>5 DEF FreePages
  <2>2. \A q \in Page \ L : num_records'[q] = num_records[q] /\ bitmap'[q] = bitmap[q]
    BY <1>2, <1>5 DEF PagesInv
  <2>3. FreePages(L)'
    BY <1>2, <1>4, <2>1, <2>2 DEF FreePages
  <2> QED
    BY <1>2, <1>6, <2>3 DEF FreeInv
<1>9. ScanInv'
  <2>1. InPage \subseteq InPage'
    BY <1>3 DEF InPage
  <2> QED
    BY <1>2, <2>1, ScanStays DEF ScanInv
<1> QED
  BY <1>7, <1>8, <1>9 DEF Inv
-----------------------------------------------------------------------------
LEMMA InitInv == Init => Inv
<1> SUFFICES ASSUME Init PROVE Inv
  OBVIOUS
<1>1. PagesInv
  <2>1. num_pages \in 1..MaxPages
    BY RecordFileAssumption, SMTT(30) DEF Init
  <2>2. bitmap \in [Page -> SUBSET Slot] /\ num_records \in [Page -> Int]
    BY SMTT(30) DEF Init
  <2>3. \A p \in Page : bitmap[p] = {}
    BY DEF Init
  <2>4. slots \in [Rid -> Value \cup {Zero}] /\ deleted = {}
    BY DEF Init
  <2> QED
    BY <2>1, <2>2, <2>3, <2>4 DEF PagesInv
<1>2. FreeInv
  <2>1. next_free_page_no \in [Page -> Int]
    BY SMTT(30) DEF Init
  <2>2. FreePages({})
    BY DEF FreePages, Init
  <2> QED
    BY <2>1, <2>2 DEF FreeInv
<1>3. ScanInv
  BY DEF Init, ScanInv, ScanForward
<1> QED
  BY <1>1, <1>2, <1>3 DEF Inv

\* A step that leaves the pages and the header alone.
LEMMA PagesUntouched ==
  ASSUME UNCHANGED <<header, next_free_page_no, num_records, bitmap, deleted>>
  PROVE  /\ InPage' = InPage
         /\ FreeInv => FreeInv'
         /\ PagesInv /\ slots' \in [Rid -> Value \cup {Zero}] => PagesInv'
<1>1. /\ num_pages' = num_pages /\ first_free_page_no' = first_free_page_no
      /\ next_free_page_no' = next_free_page_no /\ num_records' = num_records
      /\ bitmap' = bitmap /\ deleted' = deleted
  BY DEF header
<1>2. ASSUME NEW L, FreePages(L) PROVE FreePages(L)'
  BY <1>1, <1>2 DEF FreePages
<1> QED
  BY <1>1, <1>2 DEF FreeInv, PagesInv, InPage, Stored, is_record

LEMMA NextInv == Inv /\ [Next]_vars => Inv'
<1> SUFFICES ASSUME PagesInv, FreeInv, ScanInv, [Next]_vars
             PROVE  Inv'
  BY DEF Inv
<1>1. ASSUME NEW v \in Value, insert_record(v) PROVE Inv'
  BY <1>1, InsertKeeps
<1>2. ASSUME NEW r \in Stored, delete_record(r) PROVE Inv'
  BY <1>2, DeleteKeeps
<1>3. ASSUME NEW r \in Stored, NEW v \in Value, update_record(r, v) PROVE Inv'
  <2>1. /\ UNCHANGED <<header, next_free_page_no, num_records, bitmap, deleted>>
        /\ rid_' = rid_ /\ due' = due /\ passed' = passed /\ slots' = [slots EXCEPT ![r] = v]
    BY <1>3 DEF update_record, scanVars
  <2>2. slots' \in [Rid -> Value \cup {Zero}]
    BY <2>1 DEF PagesInv
  <2>3. ScanInv'
    BY <2>1, PagesUntouched, ScanStays DEF ScanInv
  <2> QED
    BY <2>1, <2>2, <2>3, PagesUntouched DEF Inv
<1>4. ASSUME NEW r \in deleted, NEW v \in Value, insert_record_at(r, v) PROVE Inv'
  BY <1>4, RollbackKeeps
<1>5. CASE ScanOpen \/ ScanNext
  <2>1. UNCHANGED <<header, next_free_page_no, num_records, bitmap, deleted>> /\ slots' = slots
    BY <1>5 DEF ScanOpen, ScanNext, pages
  <2>2. slots' \in [Rid -> Value \cup {Zero}]
    BY <2>1 DEF PagesInv
  <2>3. ScanInv'
    BY <1>5, ScanOpenKeeps, ScanNextKeeps
  <2> QED
    BY <2>1, <2>2, <2>3, PagesUntouched DEF Inv
<1>6. CASE UNCHANGED vars
  <2>1. /\ UNCHANGED <<header, next_free_page_no, num_records, bitmap, deleted>> /\ slots' = slots
        /\ rid_' = rid_ /\ due' = due /\ passed' = passed
    BY <1>6 DEF vars, header
  <2>2. slots' \in [Rid -> Value \cup {Zero}]
    BY <2>1 DEF PagesInv
  <2>3. ScanInv'
    BY <2>1, PagesUntouched, ScanStays DEF ScanInv
  <2> QED
    BY <2>1, <2>2, <2>3, PagesUntouched DEF Inv
<1> QED
  BY <1>1, <1>2, <1>3, <1>4, <1>5, <1>6 DEF Next

\* The inductive invariant: the pages, the pages the free list can reach, and where
\* the scan stands.
THEOREM RecordFileInv == Spec => []Inv
<1>1. Inv /\ [Next]_vars => Inv'
  BY NextInv
<1> QED
  BY <1>1, InitInv, PTL DEF Spec

\* However often pages were emptied and listed again, and whatever was rolled back,
\* the free list leads from record page to record page of the file or ends:
\* insert_record never fetches the file header or a page that was not allocated.
THEOREM FreeListKept == Spec => []FreeListInFile
<1>1. Inv => FreeListInFile
  <2> SUFFICES ASSUME Inv PROVE FreeListInFile
    OBVIOUS
  <2>1. PICK L \in SUBSET (1..(num_pages - 1)) : FreePages(L)
    BY DEF Inv, FreeInv
  <2> QED
    BY <2>1 DEF FreePages, FreeListInFile
<1> QED
  BY <1>1, RecordFileInv, PTL

\* A scan that has come to its end has returned every record that was in a slot when
\* it began and was not deleted meanwhile.
THEOREM ScansComplete == Spec => []ScanComplete
<1>1. Inv => ScanComplete
  BY DEF Inv, ScanInv, ScanComplete
<1> QED
  BY <1>1, RecordFileInv, PTL

\* A scan never stands on a rid it has returned before, nor in front of one: every
\* next() moves forward or ends, whatever is inserted and deleted between two calls.
THEOREM ScansGoForward == Spec => []ScanForward
<1>1. Inv => ScanForward
  BY DEF Inv, ScanInv
<1> QED
  BY <1>1, RecordFileInv, PTL
-----------------------------------------------------------------------------
(* The records in the slots.                                               *)

\* A page without a free slot is one whose slots are all in use.
LEMMA FullPage ==
  ASSUME NEW bm, first_bit(FALSE, bm, N) = N
  PROVE  0..(N - 1) \subseteq bm
<1>1. N \in Nat /\ -1 \in Int /\ -1 >= -1 /\ \A j \in 0..(N - 1) : j > -1
  BY RecordFileAssumption, SMTT(30)
<1>2. LET i == next_bit(FALSE, bm, N, -1) IN
      \A j \in 0..(N - 1) : (j > -1 /\ (j \in bm) = FALSE) => (i <= j /\ i # N)
  BY <1>1, NextBitLemma
<1>3. ASSUME NEW j \in 0..(N - 1), j \notin bm PROVE FALSE
  <2>1. j > -1 /\ (j \in bm) = FALSE
    BY <1>1, <1>3, SMTT(30)
  <2> QED
    BY <1>2, <2>1 DEF first_bit
<1> QED
  BY <1>3

\* Setting the bit of a rid and writing its slot leaves the records in slots alone,
\* unless one of them has this rid.
LEMMA WriteKeepsRecords ==
  ASSUME PagesInv, NEW r \in Rid, NEW v, r[2] < N => ~ is_record(r),
         bitmap' = [bitmap EXCEPT ![r[1]] = @ \cup {r[2]}],
         slots' = [slots EXCEPT ![r] = v]
  PROVE  /\ \A q \in InPage : q \in InPage' /\ slots'[q] = slots[q]
         /\ ~ is_record(r) => Stored' # Stored
<1>1. Stored' = Stored \cup {r}
  BY SetBit DEF PagesInv
<1>2. r \notin InPage
  BY DEF InPage, Stored
<1>3. InPage \subseteq Rid
  BY DEF Stored, InPage
<1>4. \A q \in InPage : slots'[q] = slots[q]
  BY <1>2, <1>3 DEF PagesInv
<1> QED
  BY <1>1, <1>4 DEF InPage, Stored

\* For any file, with full pages on the free list, pages on it twice and deletes rolled
\* back: a write never takes the slot of a record, nor changes another record.
THEOREM InsertsTakeFreeSlots == Spec => InsertTakesFreeSlot
<1> DEFINE Kept(p) == /\ \A r \in InPage : r \in InPage' /\ slots'[r] = slots[r]
                      /\ Stored' # Stored \/ 0..(N - 1) \subseteq bitmap[p]
<1>1. Inv /\ [Next]_vars =>
        [\A p \in Page : num_records'[p] > num_records[p] => Kept(p)]_vars
  <2> SUFFICES ASSUME PagesInv, FreeInv, Next,
                      NEW p \in Page, num_records'[p] > num_records[p]
               PROVE  Kept(p)
    BY DEF Inv
  <2>1. num_records[p] \in Int /\ ~ (num_records[p] > num_records[p])
        /\ ~ (num_records[p] - 1 > num_records[p])
    <3>1. num_records[p] \in Int
      BY DEF PagesInv
    <3> QED
      BY <3>1, SMTT(30)
  <2>2. ASSUME NEW v \in Value, insert_record(v) PROVE Kept(p)
    <3> DEFINE r == RidForInsert
    <3>1. /\ r \in Rid /\ (r[2] < N => ~ is_record(r)) /\ r[1] = PageForInsert
          /\ slots' = [slots EXCEPT ![r] = v]
          /\ bitmap' = [bitmap EXCEPT ![r[1]] = @ \cup {r[2]}]
          /\ num_records' = [num_records EXCEPT ![PageForInsert] = @ + 1]
      BY <2>2, InsertRid
    <3>2. p = PageForInsert
      <4>1. p # PageForInsert => num_records'[p] = num_records[p]
        BY <3>1 DEF PagesInv
      <4> QED
        BY <2>1, <4>1
    <3>3. r[2] = first_bit(FALSE, bitmap[p], N)
      BY <3>2 DEF RidForInsert
    <3> HIDE DEF r
    <3>4. r[2] < N \/ r[2] = N
      <4>1. r[2] \in Nat /\ r[2] <= N
        BY <3>1, RidLemma
      <4> QED
        BY <4>1, RecordFileAssumption, SMTT(30)
    <3>5. /\ \A q \in InPage : q \in InPage' /\ slots'[q] = slots[q]
          /\ ~ is_record(r) => Stored' # Stored
      BY <3>1, WriteKeepsRecords
    <3>6. r[2] = N => 0..(N - 1) \subseteq bitmap[p]
      BY <3>3, FullPage
    <3> QED
      BY <3>1, <3>4, <3>5, <3>6
  <2>3. ASSUME NEW r \in Stored, delete_record(r) PROVE Kept(p)
    <3>1. num_records' = [num_records EXCEPT ![r[1]] = num_records[r[1]] - 1]
      BY <2>3 DEF delete_record, CountAfterDelete
    <3>2. num_records'[p] = num_records[p] \/ num_records'[p] = num_records[p] - 1
      BY <3>1 DEF PagesInv
    <3> QED
      BY <2>1, <3>2
  <2>4. ASSUME NEW r \in deleted, NEW v \in Value, insert_record_at(r, v) PROVE Kept(p)
    <3>1. /\ r \in Rid /\ ~ is_record(r) /\ slots' = [slots EXCEPT ![r] = v]
          /\ bitmap' = [bitmap EXCEPT ![r[1]] = @ \cup {r[2]}]
      BY <2>4 DEF insert_record_at, PagesInv
    <3> QED
      BY <3>1, WriteKeepsRecords
  <2>5. ASSUME num_records' = num_records PROVE Kept(p)
    BY <2>1, <2>5
  <2>6. (ScanOpen \/ ScanNext \/ \E r \in Stored, v \in Value : update_record(r, v))
          => num_records' = num_records
    BY DEF ScanOpen, ScanNext, pages, update_record
  <2> QED
    BY <2>2, <2>3, <2>4, <2>5, <2>6 DEF Next
<1> QED
  BY <1>1, RecordFileInv, PTL DEF Spec, InsertTakesFreeSlot
=============================================================================
