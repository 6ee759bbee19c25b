---------------------------- MODULE RecordStore ----------------------------
(***************************************************************************)
(* What a record file promises: a set of records, each under its own rid.  *)
(* A record is inserted under a rid that no other record has, stays there  *)
(* until it is updated or deleted, and is counted once, on its page.       *)
(***************************************************************************)
EXTENDS Integers

CONSTANTS Page, Rid, Value   \* a rid is a page and a slot

VARIABLES records,   \* rid -> value, defined for the rids in use
          counts     \* how many of them each page holds

Init == records = [r \in {} |-> 0] /\ counts = [p \in Page |-> 0]

Insert(r, v) ==
  /\ r \notin DOMAIN records
  /\ records' = [q \in DOMAIN records \cup {r} |-> IF q = r THEN v ELSE records[q]]
  /\ counts' = [counts EXCEPT ![r[1]] = @ + 1]

Update(r, v) ==
  /\ records' = [records EXCEPT ![r] = v]
  /\ UNCHANGED counts

Delete(r) ==
  /\ records' = [q \in DOMAIN records \ {r} |-> records[q]]
  /\ counts' = [counts EXCEPT ![r[1]] = @ - 1]

Next ==
  \/ \E r \in Rid, v \in Value : Insert(r, v)
  \/ \E r \in DOMAIN records, v \in Value : Update(r, v)
  \/ \E r \in DOMAIN records : Delete(r)

Spec == Init /\ [][Next]_<<records, counts>>
=============================================================================
