---------------------------- MODULE MCBPlusTree -----------------------------
(* Instances of BPlusTree for model checking.                              *)
EXTENDS BPlusTree

Instance(n, dels, reopenings, asc) ==
  [keys |-> 1..n, deletes |-> dels, opens |-> 1 + reopenings,
   ascending |-> asc, scans |-> asc]

\* Any order of inserts; in ascending order, up to trees of three levels, with
\* scans and a reopening.
AnyAndAscending == {Instance(6, 2, 0, FALSE), Instance(8, 2, 1, TRUE)}
AnyOrder == {Instance(6, 0, 0, FALSE)}
=============================================================================
