----------------------------- MODULE PageStore -----------------------------
(***************************************************************************)
(* What the buffer pool promises its clients: a store of pages, each with  *)
(* a content, that clients hold, write, release, create and delete.  There *)
(* are no frames, no disk and no eviction here.                            *)
(***************************************************************************)
CONSTANTS PageId, Client, Value, Zero
VARIABLES store,    \* the pages that exist (or may be created) -> content
          held      \* <<client, page>>: the client may read and write the page

storeVars == <<store, held>>

Content == Value \cup {Zero}

Init == store = [p \in PageId |-> Zero] /\ held = {}

\* FetchPage or NewPage: the content is what it was.
Acquire(c, p) ==
  /\ p \in DOMAIN store
  /\ held' = held \cup {<<c, p>>}
  /\ UNCHANGED store

\* UnpinPage.
Release(c, p) ==
  /\ <<c, p>> \in held
  /\ held' = held \ {<<c, p>>}
  /\ UNCHANGED store

\* Through the Page pointer of the holder.
Write(c, p, v) ==
  /\ <<c, p>> \in held
  /\ p \in DOMAIN store
  /\ store' = [store EXCEPT ![p] = v]
  /\ UNCHANGED held

\* DeletePage: refused while anybody holds the page.
Delete(p) ==
  /\ \A h \in held : h[2] # p
  /\ store' = [q \in DOMAIN store \ {p} |-> store[q]]
  /\ UNCHANGED held

Next ==
  \E p \in PageId :
    \/ \E c \in Client : Acquire(c, p) \/ Release(c, p) \/ \E v \in Value : Write(c, p, v)
    \/ Delete(p)

Spec == Init /\ [][Next]_storeVars
=============================================================================
