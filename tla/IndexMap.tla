------------------------------ MODULE IndexMap ------------------------------
(***************************************************************************)
(* What an index promises: a set of keys, each with the rid it was         *)
(* inserted with.  An insert succeeds when the key is new, a delete when   *)
(* the key is there, and each says so.                                     *)
(***************************************************************************)
CONSTANTS Key, RidOf(_)

VARIABLES entries,   \* pairs of a key and its rid
          result     \* what the last call was and what it returned

Init == entries = {} /\ result = <<>>

InsertNew(k) ==
  /\ result' = <<"insert", k, TRUE>>
  /\ \A e \in entries : e[1] # k
  /\ entries' = entries \cup {<<k, RidOf(k)>>}

Delete(k) ==
  /\ result' = <<"delete", k, TRUE>>
  /\ <<k, RidOf(k)>> \in entries
  /\ entries' = entries \ {<<k, RidOf(k)>>}

Refuse(k) ==
  /\ \/ result' = <<"insert", k, FALSE>> /\ <<k, RidOf(k)>> \in entries
     \/ result' = <<"delete", k, FALSE>> /\ \A e \in entries : e[1] # k
  /\ UNCHANGED entries

Next == \E k \in Key : InsertNew(k) \/ Delete(k) \/ Refuse(k)

Spec == Init /\ [][Next]_<<entries, result>>
=============================================================================
