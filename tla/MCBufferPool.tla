---------------------------- MODULE MCBufferPool ----------------------------
(***************************************************************************)
(* The buffer pool for TLC.  Clients are interchangeable, and so are       *)
(* files: the specification never tells two of them apart.                 *)
(***************************************************************************)
EXTENDS BufferPool, TLC

Symmetry == Permutations(Client) \cup Permutations(Fd)
=============================================================================
