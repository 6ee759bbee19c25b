----------------------------- MODULE LRUPolicy -----------------------------
(***************************************************************************)
(* What a Replacer promises the buffer pool, without a list or a hash      *)
(* table: a set of evictable frames, and for any two of them which became  *)
(* evictable first.  Lab 1 asks for "the frame unpinned longest ago" as    *)
(* the victim.                                                             *)
(***************************************************************************)
CONSTANT Frame
VARIABLES evictable,   \* the frames Victim may hand out
          earlier      \* <<f, g>>: f has been evictable for longer than g

policyVars == <<evictable, earlier>>

Init == evictable = {} /\ earlier = {}

Forget(f) ==
  /\ evictable' = evictable \ {f}
  /\ earlier' = {e \in earlier : f \notin {e[1], e[2]}}

Victim ==
  \E f \in evictable :
    /\ \A g \in evictable \ {f} : <<f, g>> \in earlier
    /\ Forget(f)

Pin(f) == Forget(f)

Unpin(f) ==
  /\ f \notin evictable
  /\ evictable' = evictable \cup {f}
  /\ earlier' = earlier \cup (evictable \X {f})

Next == Victim \/ \E f \in Frame : Pin(f) \/ Unpin(f)

Spec == Init /\ [][Next]_policyVars
=============================================================================
