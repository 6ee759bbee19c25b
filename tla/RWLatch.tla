------------------------------ MODULE RWLatch ------------------------------
(***************************************************************************)
(* ReaderWriterLatch (src/src/common/rwlatch.cpp): a mutex, two condition  *)
(* variables, a reader count and a flag.  What a thread does between       *)
(* taking the mutex and waiting or returning is one step; a thread on a    *)
(* condition variable runs again once it is notified, or spuriously, and   *)
(* tests its condition again.                                              *)
(***************************************************************************)
EXTENDS Naturals, FiniteSets

CONSTANTS Thread,
          MAX_READERS    \* UINT_MAX in the code, so never reached

ASSUME LatchAssumption ==
  /\ IsFiniteSet(Thread)
  /\ MAX_READERS \in Nat /\ Cardinality(Thread) < MAX_READERS

VARIABLES
  pc,                \* where each thread is, see Where
  reader_count_, writer_entered_,
  reader_, writer_   \* the threads waiting on each condition variable

vars == <<pc, reader_count_, writer_entered_, reader_, writer_>>

\* outside; in WLock before the flag is set; in WLock with the flag set;
\* between WLock and WUnlock; in RLock; between RLock and RUnlock
Where == {"out", "wlock", "entered", "writing", "rlock", "reading"}

Init ==
  /\ pc = [t \in Thread |-> "out"]
  /\ reader_count_ = 0 /\ writer_entered_ = FALSE
  /\ reader_ = {} /\ writer_ = {}

Goto(t, where) == pc' = [pc EXCEPT ![t] = where]

Call(t) ==
  /\ pc[t] = "out"
  /\ Goto(t, "wlock") \/ Goto(t, "rlock")
  /\ UNCHANGED <<reader_count_, writer_entered_, reader_, writer_>>

\* The second loop of WLock, reached with the flag set.
AwaitReaders(t) ==
  \/ /\ reader_count_ > 0
     /\ Goto(t, "entered") /\ writer_' = writer_ \cup {t}
  \/ /\ reader_count_ = 0
     /\ Goto(t, "writing") /\ UNCHANGED writer_

WLockWait(t) ==
  /\ pc[t] = "wlock" /\ t \notin reader_
  /\ writer_entered_
  /\ reader_' = reader_ \cup {t}
  /\ UNCHANGED <<pc, reader_count_, writer_entered_, writer_>>

WLockEnter(t) ==
  /\ pc[t] = "wlock" /\ t \notin reader_
  /\ ~ writer_entered_
  /\ writer_entered_' = TRUE
  /\ AwaitReaders(t)
  /\ UNCHANGED <<reader_count_, reader_>>

\* Variant: a woken writer stands back for the flag, which it has set itself.
WLockResumeStandsBack(t) ==
  /\ pc[t] = "entered" /\ t \notin writer_
  /\ writer_entered_ /\ UNCHANGED vars

WLockResume(t) ==
  /\ pc[t] = "entered" /\ t \notin writer_
  /\ AwaitReaders(t)
  /\ UNCHANGED <<reader_count_, writer_entered_, reader_>>

WLock(t) == WLockWait(t) \/ WLockEnter(t) \/ WLockResume(t)

\* Who is left on reader_ after notify_all.
ReaderAfterWUnlock == {}

\* Variant: the flag stays set.
WUnlockKeepsFlag(t) ==
  /\ pc[t] = "writing"
  /\ Goto(t, "out")
  /\ reader_' = ReaderAfterWUnlock
  /\ UNCHANGED <<reader_count_, writer_entered_, writer_>>

WUnlock(t) ==
  /\ pc[t] = "writing"
  /\ Goto(t, "out")
  /\ writer_entered_' = FALSE
  /\ reader_' = ReaderAfterWUnlock
  /\ UNCHANGED <<reader_count_, writer_>>

\* Variants: readers join the readers inside although a writer has entered; a
\* reader looks at the count alone.
ReadersJoinReaders ==
  (writer_entered_ /\ reader_count_ = 0) \/ reader_count_ = MAX_READERS
RLockIgnoresWriter == reader_count_ = MAX_READERS

RLockBlocked == writer_entered_ \/ reader_count_ = MAX_READERS

RLock(t) ==
  /\ pc[t] = "rlock" /\ t \notin reader_
  /\ \/ /\ RLockBlocked
        /\ reader_' = reader_ \cup {t}
        /\ UNCHANGED <<pc, reader_count_>>
     \/ /\ ~ RLockBlocked
        /\ Goto(t, "reading")
        /\ reader_count_' = reader_count_ + 1
        /\ UNCHANGED reader_
  /\ UNCHANGED <<writer_entered_, writer_>>

\* notify_one wakes one of the threads waiting, if there is one.
notify_one(waiting) == IF waiting = {} THEN {{}} ELSE {waiting \ {t} : t \in waiting}

\* Variant: the writer is told one reader too early.
WriterNotifiedAtOne(n) ==
  IF writer_entered_ /\ n = 1 THEN notify_one(writer_) ELSE {writer_}

\* Who is left on writer_ when a reader leaves n readers behind.
WriterAfterRUnlock(n) ==
  IF writer_entered_ /\ n = 0 THEN notify_one(writer_) ELSE {writer_}

RUnlock(t) ==
  LET n == reader_count_ - 1 IN
  /\ pc[t] = "reading"
  /\ Goto(t, "out")
  /\ reader_count_' = n
  /\ writer_' \in WriterAfterRUnlock(n)
  /\ reader_' \in IF ~ writer_entered_ /\ n = MAX_READERS - 1 THEN notify_one(reader_) ELSE {reader_}
  /\ UNCHANGED writer_entered_

\* A condition variable may wake a thread nobody notified.
Spurious(t) ==
  /\ t \in reader_ \cup writer_
  /\ reader_' = reader_ \ {t} /\ writer_' = writer_ \ {t}
  /\ UNCHANGED <<pc, reader_count_, writer_entered_>>

Step(t) == WLock(t) \/ WUnlock(t) \/ RLock(t) \/ RUnlock(t)

Next == \E t \in Thread : Call(t) \/ Step(t) \/ Spurious(t)

Spec == Init /\ [][Next]_vars

\* A thread that can take the mutex eventually does, and whoever holds the
\* latch eventually releases it.  Nobody has to ask for it.
FairSpec == Spec /\ \A t \in Thread : WF_vars(Step(t))
-----------------------------------------------------------------------------
Readers == {t \in Thread : pc[t] = "reading"}
Writers == {t \in Thread : pc[t] \in {"entered", "writing"}}

TypeOK ==
  /\ pc \in [Thread -> Where]
  /\ reader_count_ \in Nat /\ writer_entered_ \in BOOLEAN
  /\ reader_ \subseteq Thread /\ writer_ \subseteq Thread

\* A writer is alone: no reader and no second writer is inside with it, in
\* whatever order the waiting threads are woken.
MutualExclusion ==
  \A t, u \in Thread :
    pc[t] = "writing" /\ t # u => pc[u] \notin {"writing", "reading"}

\* The count and the flag are the threads they stand for, so the uint32_t is
\* never decremented below zero and a free latch is seen as free.
CountsThreads ==
  /\ reader_count_ = Cardinality(Readers)
  /\ writer_entered_ <=> Writers # {}

\* No wake-up is lost: a writer sleeps on writer_ only while a reader is
\* inside, and anybody sleeps on reader_ only while a writer has entered.
NoLostWakeup ==
  /\ writer_ # {} => reader_count_ > 0
  /\ reader_ # {} => writer_entered_

\* A writer that has set the flag gets the latch: new readers wait, so the
\* readers inside drain, and the last of them wakes the writer.
EnteredWriterGetsIn == \A t \in Thread : pc[t] = "entered" ~> pc[t] = "writing"

\* Threads that ask never all sleep: as long as some thread is in WLock or
\* RLock, one of them gets in.
SomebodyGetsIn ==
  (\E t \in Thread : pc[t] \in {"wlock", "entered", "rlock"})
    ~> (\E t \in Thread : pc[t] \in {"writing", "reading"})
=============================================================================
