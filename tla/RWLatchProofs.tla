--------------------------- MODULE RWLatchProofs ---------------------------
(***************************************************************************)
(* Mutual exclusion of the reader-writer latch, and that it loses no       *)
(* wake-up, for any number of threads.                                     *)
(***************************************************************************)
EXTENDS RWLatch, FiniteSetTheorems, TLAPS

\* The flag admits one writer, which writes only when it has seen no reader;
\* new readers stay out while the flag is set.
LatchInv ==
  /\ TypeOK
  /\ CountsThreads
  /\ \A t, u \in Writers : t = u
  /\ \A t \in Thread : pc[t] = "writing" => reader_count_ = 0

\* When t stops or starts reading the count of readers follows.
LEMMA ReadersLemma ==
  ASSUME TypeOK, NEW t \in Thread, NEW where \in Where, Goto(t, where)
  PROVE  /\ IsFiniteSet(Readers) /\ Cardinality(Readers) \in Nat
         /\ pc'[t] = where /\ \A u \in Thread \ {t} : pc'[u] = pc[u]
         /\ pc[t] # "reading" /\ where # "reading" => Readers' = Readers
         /\ pc[t] # "reading" /\ where = "reading" => Cardinality(Readers') = Cardinality(Readers) + 1
         /\ pc[t] = "reading" /\ where # "reading" => Cardinality(Readers') = Cardinality(Readers) - 1
<1>1. IsFiniteSet(Readers) /\ Cardinality(Readers) \in Nat
  BY LatchAssumption, FS_Subset, FS_CardinalityType DEF Readers
<1>2. pc'[t] = where /\ \A u \in Thread \ {t} : pc'[u] = pc[u]
  BY DEF Goto, TypeOK
<1>3. pc[t] # "reading" /\ where # "reading" => Readers' = Readers
  BY <1>2 DEF Readers
<1>4. ASSUME pc[t] # "reading", where = "reading"
      PROVE  Cardinality(Readers') = Cardinality(Readers) + 1
  <2>1. Readers' = Readers \cup {t} /\ t \notin Readers
    BY <1>2, <1>4 DEF Readers
  <2> QED
    BY <1>1, <2>1, FS_AddElement, SMTT(30)
<1>5. ASSUME pc[t] = "reading", where # "reading"
      PROVE  Cardinality(Readers') = Cardinality(Readers) - 1
  <2>1. Readers' = Readers \ {t} /\ t \in Readers
    BY <1>2, <1>5 DEF Readers
  <2> QED
    BY <1>1, <2>1, FS_RemoveElement, SMTT(30)
<1> QED
  BY <1>1, <1>2, <1>3, <1>4, <1>5

\* LatchInv holds at first and every step keeps it.
LEMMA LatchInductive == (Init => LatchInv) /\ (LatchInv /\ [Next]_vars => LatchInv')
<1>1. Init => LatchInv
  <2> SUFFICES ASSUME Init PROVE LatchInv
    OBVIOUS
  <2>1. Readers = {} /\ Writers = {}
    BY DEF Init, Readers, Writers
  <2> QED
    BY <2>1, FS_EmptySet, ZenonT(30) DEF Init, LatchInv, TypeOK, CountsThreads, Where
<1>2. LatchInv /\ [Next]_vars => LatchInv'
  <2> SUFFICES ASSUME LatchInv, [Next]_vars PROVE LatchInv'
    OBVIOUS
  <2> USE DEF LatchInv
  <2>1. ASSUME NEW t \in Thread, Call(t) PROVE LatchInv'
    <3>1. PICK where \in {"wlock", "rlock"} : Goto(t, where)
      BY <2>1 DEF Call
    <3>2. /\ Readers' = Readers /\ pc'[t] = where
          /\ \A u \in Thread \ {t} : pc'[u] = pc[u]
      BY <2>1, <3>1, ReadersLemma DEF Call, Where
    <3>3. Writers' = Writers
      BY <2>1, <3>2 DEF Writers, Call
    <3>4. TypeOK'
      BY <2>1, <3>1 DEF Call, TypeOK, Goto, Where
    <3> QED
      BY <2>1, <3>2, <3>3, <3>4 DEF Call, CountsThreads
  <2>2. ASSUME NEW t \in Thread, WLockEnter(t) PROVE LatchInv'
    <3>1. PICK where \in {"entered", "writing"} :
            Goto(t, where) /\ (where = "writing" => reader_count_ = 0)
      BY <2>2 DEF WLockEnter, AwaitReaders
    <3>2. /\ Readers' = Readers /\ pc'[t] = where
          /\ \A u \in Thread \ {t} : pc'[u] = pc[u]
      BY <2>2, <3>1, ReadersLemma DEF WLockEnter, Where
    <3>3. Writers = {} /\ Writers' = {t}
      BY <2>2, <3>2 DEF Writers, WLockEnter, CountsThreads
    <3>4. TypeOK'
      BY <2>2, <3>1 DEF WLockEnter, AwaitReaders, TypeOK, Goto, Where
    <3> QED
      BY <2>2, <3>1, <3>2, <3>3, <3>4 DEF WLockEnter, CountsThreads, Writers
  <2>3. ASSUME NEW t \in Thread, WLockResume(t) PROVE LatchInv'
    <3>1. PICK where \in {"entered", "writing"} :
            Goto(t, where) /\ (where = "writing" => reader_count_ = 0)
      BY <2>3 DEF WLockResume, AwaitReaders
    <3>2. /\ Readers' = Readers /\ pc'[t] = where
          /\ \A u \in Thread \ {t} : pc'[u] = pc[u]
      BY <2>3, <3>1, ReadersLemma DEF WLockResume, Where
    <3>3. Writers' = Writers
      BY <2>3, <3>2 DEF Writers, WLockResume
    <3>4. TypeOK'
      BY <2>3, <3>1 DEF WLockResume, AwaitReaders, TypeOK, Goto, Where
    <3> QED
      BY <2>3, <3>1, <3>2, <3>3, <3>4 DEF WLockResume, CountsThreads
  <2>4. ASSUME NEW t \in Thread, WUnlock(t) PROVE LatchInv'
    <3>1. /\ Readers' = Readers /\ pc'[t] = "out"
          /\ \A u \in Thread \ {t} : pc'[u] = pc[u]
      BY <2>4, ReadersLemma DEF WUnlock, Where
    <3>2. Writers' = {}
      BY <2>4, <3>1 DEF Writers, WUnlock
    <3>3. TypeOK'
      BY <2>4, ZenonT(30) DEF WUnlock, ReaderAfterWUnlock, TypeOK, Goto, Where
    <3> QED
      BY <2>4, <3>1, <3>2, <3>3 DEF WUnlock, CountsThreads, Writers
  <2>5. ASSUME NEW t \in Thread, RLock(t), UNCHANGED pc PROVE LatchInv'
    <3>1. UNCHANGED <<reader_count_, writer_entered_, writer_>> /\ reader_' \subseteq Thread
      <4>1. pc[t] = "rlock"
        BY <2>5 DEF RLock
      <4>2. ~ Goto(t, "reading")
        BY <2>5, <4>1 DEF Goto, TypeOK
      <4> QED
        BY <2>5, <4>2 DEF RLock, TypeOK
    <3>2. Readers' = Readers /\ Writers' = Writers
      BY <2>5 DEF Readers, Writers
    <3> QED
      BY <2>5, <3>1, <3>2 DEF TypeOK, CountsThreads
  <2>6. ASSUME NEW t \in Thread, RLock(t), Goto(t, "reading"), ~ writer_entered_,
               reader_count_' = reader_count_ + 1, UNCHANGED reader_
        PROVE  LatchInv'
    <3>1. /\ Cardinality(Readers') = Cardinality(Readers) + 1
          /\ pc'[t] = "reading" /\ \A u \in Thread \ {t} : pc'[u] = pc[u]
      BY <2>6, ReadersLemma DEF RLock, Where
    <3>2. Writers = {} /\ Writers' = {}
      BY <2>6, <3>1 DEF Writers, CountsThreads
    <3>3. TypeOK'
      BY <2>6 DEF RLock, TypeOK, Goto, Where
    <3> QED
      BY <2>6, <3>1, <3>2, <3>3 DEF RLock, CountsThreads, Writers
  <2>7. ASSUME NEW t \in Thread, RUnlock(t) PROVE LatchInv'
    <3>1. /\ Cardinality(Readers') = Cardinality(Readers) - 1
          /\ pc'[t] = "out" /\ \A u \in Thread \ {t} : pc'[u] = pc[u]
      BY <2>7, ReadersLemma DEF RUnlock, Where
    <3>2. IsFiniteSet(Readers) /\ Cardinality(Readers) \in Nat /\ t \in Readers
      BY <2>7, ReadersLemma, ZenonT(30) DEF RUnlock, Where, Readers
    <3>3. Cardinality(Readers) > 0
      BY <3>2, FS_EmptySet
    <3>4. Writers' = Writers
      BY <2>7, <3>1 DEF Writers, RUnlock
    <3>5. reader_count_' = reader_count_ - 1 /\ reader_count_' \in Nat
      BY <2>7, <3>2, <3>3 DEF RUnlock, CountsThreads
    <3>6. TypeOK'
      <4>1. \A w \in SUBSET Thread : \A x \in notify_one(w) : x \subseteq Thread
        BY DEF notify_one
      <4>2. writer_' \subseteq Thread /\ reader_' \subseteq Thread
        BY <2>7, <4>1 DEF RUnlock, WriterAfterRUnlock, TypeOK
      <4> QED
        BY <2>7, <3>5, <4>2 DEF RUnlock, TypeOK, Goto, Where
    <3>7. \A u \in Thread : pc'[u] # "writing"
      BY <2>7, <3>1, <3>2, <3>3 DEF CountsThreads
    <3> QED
      BY <2>7, <3>1, <3>4, <3>5, <3>6, <3>7 DEF RUnlock, CountsThreads
  <2>8. ASSUME UNCHANGED <<pc, reader_count_, writer_entered_>>,
               reader_' \subseteq Thread, writer_' \subseteq Thread
        PROVE  LatchInv'
    BY <2>8 DEF TypeOK, CountsThreads, Readers, Writers
  <2>9. ASSUME NEW t \in Thread, WLockWait(t) \/ Spurious(t) PROVE LatchInv'
    BY <2>8, <2>9 DEF WLockWait, Spurious, TypeOK
  <2>10. ASSUME NEW t \in Thread, RLock(t) PROVE LatchInv'
    BY <2>5, <2>6, <2>10 DEF RLock, RLockBlocked
  <2>11. CASE UNCHANGED vars
    BY <2>8, <2>11 DEF vars, TypeOK
  <2> QED
    BY <2>1, <2>2, <2>3, <2>4, <2>7, <2>9, <2>10, <2>11 DEF Next, Step, WLock
<1> QED
  BY <1>1, <1>2

\* In every reachable state a writer that holds the latch is alone, whatever
\* the number of threads and the order in which they are woken, and the count
\* and the flag stand for the threads inside.
THEOREM LatchExcludes == Spec => [](MutualExclusion /\ CountsThreads)
<1>1. LatchInv => MutualExclusion /\ CountsThreads
  <2> SUFFICES ASSUME LatchInv, NEW t \in Thread, NEW u \in Thread, pc[t] = "writing", t # u
               PROVE  pc[u] # "writing" /\ pc[u] # "reading"
    BY DEF MutualExclusion, LatchInv
  <2>1. IsFiniteSet(Readers) /\ Cardinality(Readers) = 0
    BY LatchAssumption, FS_Subset DEF LatchInv, Readers, CountsThreads
  <2>2. Readers = {}
    BY <2>1, FS_EmptySet
  <2> QED
    BY <2>2 DEF LatchInv, Readers, Writers
<1> QED
  BY <1>1, LatchInductive, PTL DEF Spec

\* The count and the flag stand for the threads inside, so the unsigned count is
\* never decremented at zero.
THEOREM CountExact == Spec => []CountsThreads
  BY LatchExcludes, PTL

\* Who sleeps on writer_ has set the flag, and is the only one that has.
SleepersInv ==
  /\ NoLostWakeup
  /\ \A t \in writer_ : pc[t] = "entered"

\* With fewer threads than MAX_READERS the count never reaches it, so nobody
\* waits for a reader to leave but the writer that has entered.
LEMMA CountBelowMax == LatchInv => reader_count_ < MAX_READERS
<1> SUFFICES ASSUME LatchInv PROVE reader_count_ < MAX_READERS
  OBVIOUS
<1>1. /\ IsFiniteSet(Thread) /\ IsFiniteSet(Readers)
      /\ Cardinality(Readers) <= Cardinality(Thread)
  BY LatchAssumption, FS_Subset DEF Readers
<1>2. Cardinality(Readers) \in Nat /\ Cardinality(Thread) \in Nat
  BY <1>1, FS_CardinalityType
<1> QED
  BY <1>1, <1>2, LatchAssumption DEF LatchInv, CountsThreads

\* In every reachable state a writer sleeps on writer_ only while a reader is
\* inside, and threads sleep on reader_ only while a writer has entered: whoever
\* ends that wakes them.  One notify_one is enough, since one thread at most is
\* on writer_.
THEOREM WakeupsKept == Spec => []NoLostWakeup
<1>1. Init => SleepersInv
  BY DEF Init, SleepersInv, NoLostWakeup
<1>2. LatchInv /\ SleepersInv /\ [Next]_vars => SleepersInv'
  <2> SUFFICES ASSUME LatchInv, SleepersInv, [Next]_vars PROVE SleepersInv'
    OBVIOUS
  <2> USE DEF SleepersInv, NoLostWakeup
  <2>0. reader_count_ \in Nat /\ reader_count_ < MAX_READERS /\ MAX_READERS \in Nat
    BY CountBelowMax, LatchAssumption DEF LatchInv, TypeOK
  <2>1. ASSUME NEW t \in Thread, Call(t) PROVE SleepersInv'
    BY <2>1 DEF Call, Goto, LatchInv, TypeOK
  <2>2. ASSUME NEW t \in Thread, WLockWait(t) \/ Spurious(t) PROVE SleepersInv'
    BY <2>2 DEF WLockWait, Spurious
  <2>3. ASSUME NEW t \in Thread, WLockEnter(t) \/ WLockResume(t) PROVE SleepersInv'
    <3>1. t \notin writer_ /\ writer_ \subseteq Thread
      BY <2>3 DEF WLockEnter, WLockResume, LatchInv, TypeOK
    <3>2. writer_entered_ => writer_entered_'
      BY <2>3 DEF WLockEnter, WLockResume
    <3>3. /\ \A u \in Thread \ {t} : pc'[u] = pc[u]
          /\ reader_count_' = reader_count_ /\ reader_' = reader_
          /\ \/ writer_' = writer_
             \/ writer_' = writer_ \cup {t} /\ pc'[t] = "entered" /\ reader_count_ > 0
      BY <2>3 DEF WLockEnter, WLockResume, AwaitReaders, Goto, LatchInv, TypeOK
    <3> QED
      BY <3>1, <3>2, <3>3
  <2>4. ASSUME NEW t \in Thread, WUnlock(t) PROVE SleepersInv'
    BY <2>4 DEF WUnlock, ReaderAfterWUnlock, LatchInv
  <2>5. ASSUME NEW t \in Thread, RLock(t) PROVE SleepersInv'
    <3>1. pc[t] = "rlock" /\ t \notin writer_ /\ writer_' = writer_ /\ writer_ \subseteq Thread
      BY <2>5 DEF RLock, LatchInv, TypeOK
    <3>2. \A u \in Thread \ {t} : pc'[u] = pc[u]
      BY <2>5 DEF RLock, Goto, LatchInv, TypeOK
    <3>3. writer_entered_' = writer_entered_
      BY <2>5 DEF RLock
    <3>4. \/ RLockBlocked /\ reader_count_' = reader_count_
          \/ reader_count_' = reader_count_ + 1 /\ reader_' = reader_
      BY <2>5 DEF RLock
    <3> QED
      BY <2>0, <3>1, <3>2, <3>3, <3>4 DEF RLockBlocked
  <2>6. ASSUME NEW t \in Thread, RUnlock(t) PROVE SleepersInv'
    <3>1. /\ pc[t] = "reading" /\ reader_count_' = reader_count_ - 1
          /\ writer_entered_' = writer_entered_
          /\ writer_' \in WriterAfterRUnlock(reader_count_ - 1)
          /\ \A u \in Thread \ {t} : pc'[u] = pc[u]
      BY <2>6 DEF RUnlock, Goto, LatchInv, TypeOK
    <3>2. reader_' \subseteq reader_
      BY <2>6 DEF RUnlock, notify_one
    <3>3. writer_' \subseteq writer_
      BY <3>1 DEF WriterAfterRUnlock, notify_one
    <3>4. writer_ \subseteq Writers /\ writer_ \subseteq Thread /\ t \notin writer_
      BY <3>1 DEF Writers, LatchInv, TypeOK
    <3>5. CASE reader_count_ - 1 = 0
      <4>1. writer_ = {} => writer_' = {}
        BY <3>3
      <4>2. writer_ # {} => writer_entered_
        BY <3>4 DEF LatchInv, CountsThreads
      <4>3. writer_ # {} => writer_' = {}
        BY <3>1, <3>4, <3>5, <4>2 DEF WriterAfterRUnlock, notify_one, LatchInv
      <4> QED
        BY <3>1, <3>2, <4>1, <4>3
    <3>6. CASE reader_count_ - 1 # 0
      <4>1. t \in Readers /\ reader_count_ = Cardinality(Readers) /\ IsFiniteSet(Readers)
        BY <3>1, LatchAssumption, FS_Subset DEF Readers, LatchInv, CountsThreads
      <4>2. reader_count_ # 0
        BY <4>1, FS_EmptySet
      <4>3. reader_count_' > 0
        BY <2>0, <3>1, <3>6, <4>2
      <4> QED
        BY <3>1, <3>2, <3>3, <3>4, <4>3
    <3> QED
      BY <3>5, <3>6
  <2>7. CASE UNCHANGED vars
    BY <2>7 DEF vars
  <2> QED
    BY <2>1, <2>2, <2>3, <2>4, <2>5, <2>6, <2>7 DEF Next, Step, WLock
<1>3. SleepersInv => NoLostWakeup
  BY DEF SleepersInv
<1> QED
  BY <1>1, <1>2, <1>3, LatchInductive, PTL DEF Spec
=============================================================================
