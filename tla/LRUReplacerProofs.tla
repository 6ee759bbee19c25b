------------------------- MODULE LRUReplacerProofs -------------------------
(***************************************************************************)
(* LRUReplacer keeps its list and its hash in step, and the list and the   *)
(* hash implement the policy, for any set of frames.                       *)
(***************************************************************************)
EXTENDS LRUReplacer, LRUListProofs

\* In every reachable state LRUhash_ has a key for exactly the frames in
\* LRUlist_ and no frame is listed twice, so Pin erases the element it means
\* and Victim never hands out a frame twice.
THEOREM ListAndHashAgree == Spec => [](TypeOK /\ ListMatchesHash)
<1> DEFINE Inv == TypeOK /\ ListMatchesHash
<1>1. Init => Inv
  BY EmptyLRULemma DEF Init, TypeOK, ListMatchesHash
<1>2. Inv /\ [Next]_lru => Inv'
  <2> SUFFICES ASSUME Inv, [Next]_lru PROVE Inv'
    OBVIOUS
  <2>1. CASE Victim
    BY <2>1, AfterVictimLemma DEF Victim, TypeOK, ListMatchesHash
  <2>2. ASSUME NEW f \in Frame, Pin(f) PROVE Inv'
    BY <2>2, AfterPinLemma DEF Pin, TypeOK, ListMatchesHash
  <2>3. ASSUME NEW f \in Frame, Unpin(f) PROVE Inv'
    BY <2>3, AfterUnpinLemma DEF Unpin, TypeOK, ListMatchesHash
  <2>4. CASE UNCHANGED lru
    BY <2>4 DEF TypeOK, ListMatchesHash
  <2> QED
    BY <2>1, <2>2, <2>3, <2>4 DEF Next
<1> QED
  BY <1>1, <1>2, PTL DEF Spec
-----------------------------------------------------------------------------
\* Taking one element out of a list without repetitions takes it out of the order,
\* and changes nothing between two others.
LEMMA OlderWithout ==
  ASSUME NEW s \in Seq(Frame), Distinct(s), NEW k \in 1..Len(s), NEW t \in Seq(Frame),
         Len(t) = Len(s) - 1,
         \A i \in 1..(k - 1) : t[i] = s[i],
         \A i \in k..(Len(s) - 1) : t[i] = s[i + 1]
  PROVE  Older(t) = {e \in Older(s) : s[k] \notin {e[1], e[2]}}
<1>1. Len(s) \in Nat /\ Len(t) \in Nat /\ k \in Int
  OBVIOUS
<1>2. \A i, j \in 1..Len(s) : s[i] = s[j] => i = j
  BY DEF Distinct
<1> DEFINE at(i) == IF i < k THEN i ELSE i + 1
<1>3. \A i \in 1..Len(t) : at(i) \in 1..Len(s) /\ at(i) # k /\ t[i] = s[at(i)]
  BY <1>1
<1>4. \A i, j \in 1..Len(t) : i > j => at(i) > at(j)
  BY <1>1
<1>5. ASSUME NEW i \in 1..Len(s), i # k
      PROVE  \E a \in 1..Len(t) : at(a) = i
  <2>1. CASE i < k
    <3>1. i \in 1..Len(t) /\ at(i) = i
      BY <1>1, <2>1
    <3> QED
      BY <3>1
  <2>2. CASE i > k
    <3>1. i - 1 \in 1..Len(t) /\ at(i - 1) = i
      BY <1>1, <2>2
    <3> QED
      BY <3>1
  <2> QED
    BY <1>1, <1>5, <2>1, <2>2
<1>6. \A i, j \in 1..Len(t) : at(i) > at(j) => i > j
  BY <1>1
<1>7. \A i \in 1..Len(t) : at(i) \in Int
  BY <1>1
<1> HIDE DEF at
<1>8. ASSUME NEW e \in Older(t) PROVE e \in Older(s) /\ s[k] \notin {e[1], e[2]}
  <2>1. PICK i, j \in 1..Len(t) : i > j /\ t[i] = e[1] /\ t[j] = e[2]
    BY <1>8 DEF Older
  <2>2. at(i) > at(j) /\ s[at(i)] = e[1] /\ s[at(j)] = e[2]
    BY <1>3, <1>4, <2>1
  <2>3. s[k] # e[1] /\ s[k] # e[2]
    BY <1>2, <1>3, <2>2
  <2>4. e \in Frame \X Frame
    BY <1>8 DEF Older
  <2> QED
    BY <1>3, <2>2, <2>3, <2>4 DEF Older
<1>9. ASSUME NEW e \in Older(s), s[k] \notin {e[1], e[2]} PROVE e \in Older(t)
  <2>1. PICK i, j \in 1..Len(s) : i > j /\ s[i] = e[1] /\ s[j] = e[2]
    BY <1>9 DEF Older
  <2>2. i # k /\ j # k
    BY <1>9, <2>1
  <2>3. PICK a \in 1..Len(t) : at(a) = i
    BY <1>5, <2>2
  <2>4. PICK b \in 1..Len(t) : at(b) = j
    BY <1>5, <2>2
  <2>5. a > b
    BY <1>6, <2>1, <2>3, <2>4
  <2>6. t[a] = e[1] /\ t[b] = e[2]
    BY <1>3, <2>1, <2>3, <2>4
  <2>7. e \in Frame \X Frame
    BY <1>9 DEF Older
  <2> QED
    BY <2>5, <2>6, <2>7 DEF Older
<1> QED
  BY <1>8, <1>9

\* A frame that is not in the list becomes the youngest of all.
LEMMA OlderWith ==
  ASSUME NEW s \in Seq(Frame), NEW f \in Frame, f \notin Range(s)
  PROVE  Older(push_front(f, s)) = Older(s) \cup (Range(s) \X {f})
<1> DEFINE t == push_front(f, s)
<1>1. /\ Len(s) \in Nat /\ Range(s) = {s[i] : i \in 1..Len(s)}
      /\ \A i \in 1..Len(s) : s[i] \in Frame
  BY DEF Range
<1>2. /\ Len(t) = Len(s) + 1 /\ t[1] = f
      /\ \A i \in 1..Len(s) : t[i + 1] = s[i]
  BY <1>1 DEF push_front
<1> HIDE DEF t
<1>3. \A i \in 1..Len(t) : i = 1 \/ (i - 1 \in 1..Len(s) /\ t[i] = s[i - 1])
  BY <1>1, <1>2
<1>4. ASSUME NEW e \in Older(t) PROVE e \in Older(s) \cup (Range(s) \X {f})
  <2>1. PICK i, j \in 1..Len(t) : i > j /\ t[i] = e[1] /\ t[j] = e[2]
    BY <1>4 DEF Older
  <2>2. i - 1 \in 1..Len(s) /\ t[i] = s[i - 1]
    BY <1>1, <1>2, <1>3, <2>1
  <2>3. e \in Frame \X Frame
    BY <1>4 DEF Older
  <2>4. CASE j = 1
    BY <1>1, <1>2, <2>1, <2>2, <2>3, <2>4
  <2>5. CASE j # 1
    <3>1. j - 1 \in 1..Len(s) /\ t[j] = s[j - 1] /\ i - 1 > j - 1
      BY <1>3, <2>1, <2>5
    <3> QED
      BY <2>1, <2>2, <2>3, <3>1 DEF Older
  <2> QED
    BY <2>4, <2>5
<1>5. ASSUME NEW e \in Older(s) PROVE e \in Older(t)
  <2>1. PICK i, j \in 1..Len(s) : i > j /\ s[i] = e[1] /\ s[j] = e[2]
    BY <1>5 DEF Older
  <2>2. /\ i + 1 \in 1..Len(t) /\ j + 1 \in 1..Len(t) /\ i + 1 > j + 1
        /\ t[i + 1] = e[1] /\ t[j + 1] = e[2]
    BY <1>1, <1>2, <2>1
  <2>3. e \in Frame \X Frame
    BY <1>5 DEF Older
  <2> QED
    BY <2>2, <2>3 DEF Older
<1>6. ASSUME NEW g \in Range(s) PROVE <<g, f>> \in Older(t)
  <2>1. PICK i \in 1..Len(s) : s[i] = g
    BY <1>1, <1>6
  <2>2. i + 1 \in 1..Len(t) /\ 1 \in 1..Len(t) /\ i + 1 > 1 /\ t[i + 1] = g /\ t[1] = f
    BY <1>1, <1>2, <2>1
  <2>3. <<g, f>> \in Frame \X Frame
    BY <1>1, <2>1
  <2> QED
    BY <2>2, <2>3 DEF Older
<1> QED
  BY <1>4, <1>5, <1>6 DEF t

\* The last element of a list without repetitions is older than every other.
LEMMA BackIsOldest ==
  ASSUME NEW s \in Seq(Frame), s # <<>>, Distinct(s), NEW g \in Range(s) \ {back(s)}
  PROVE  <<back(s), g>> \in Older(s)
<1>1. /\ Len(s) \in Nat /\ Len(s) > 0 /\ Range(s) = {s[i] : i \in 1..Len(s)}
      /\ \A i \in 1..Len(s) : s[i] \in Frame
  BY DEF Range
<1>2. PICK j \in 1..Len(s) : s[j] = g
  BY <1>1
<1>3. Len(s) \in 1..Len(s) /\ Len(s) > j
  BY <1>1, <1>2 DEF back
<1>4. <<back(s), g>> \in Frame \X Frame
  BY <1>1, <1>2, <1>3 DEF back
<1> QED
  BY <1>2, <1>3, <1>4 DEF Older, back

\* Pin and Victim take a frame of the list out of the set and of the order.
LEMMA ForgetLemma ==
  ASSUME TypeOK, ListMatchesHash, NEW k \in 1..Len(lru.list),
         lru' = [list |-> erase(lru.list, k), hash |-> lru.hash \ {lru.list[k]}]
  PROVE  Policy!Forget(lru.list[k])
<1>1. lru.list \in Seq(Frame) /\ Distinct(lru.list)
  BY DEF TypeOK, LRU, ListMatchesHash, Consistent
<1>2. /\ erase(lru.list, k) \in Seq(Frame)
      /\ Len(erase(lru.list, k)) = Len(lru.list) - 1
      /\ \A i \in 1..(k - 1) : erase(lru.list, k)[i] = lru.list[i]
      /\ \A i \in k..(Len(lru.list) - 1) : erase(lru.list, k)[i] = lru.list[i + 1]
  BY <1>1, EraseLemma
<1>3. Older(erase(lru.list, k)) = {e \in Older(lru.list) : lru.list[k] \notin {e[1], e[2]}}
  BY <1>1, <1>2, OlderWithout
<1>4. lru'.list = erase(lru.list, k) /\ lru'.hash = lru.hash \ {lru.list[k]}
  OBVIOUS
<1> QED
  BY <1>3, <1>4 DEF Policy!Forget

\* The last element is erased by pop_back too.
LEMMA PopBackErases ==
  ASSUME NEW S, NEW s \in Seq(S), s # <<>>
  PROVE  Len(s) \in 1..Len(s) /\ pop_back(s) = erase(s, Len(s))
<1>1. Len(s) \in Nat /\ Len(s) > 0
  OBVIOUS
<1>2. Len(s) \in 1..Len(s)
  BY <1>1
<1>3. /\ pop_back(s) \in Seq(S) /\ Len(pop_back(s)) = Len(s) - 1
      /\ \A i \in 1..(Len(s) - 1) : pop_back(s)[i] = s[i]
  <2>1. Len(s) - 1 \in 0..Len(s)
    BY <1>1
  <2> QED
    BY <2>1, BeginningLemma DEF pop_back
<1>4. /\ erase(s, Len(s)) \in Seq(S) /\ Len(erase(s, Len(s))) = Len(s) - 1
      /\ \A i \in 1..(Len(s) - 1) : erase(s, Len(s))[i] = s[i]
  BY <1>2, EraseLemma
<1>5. \A i \in 1..(Len(s) - 1) : pop_back(s)[i] = erase(s, Len(s))[i]
  BY <1>3, <1>4
<1> QED
  BY <1>2, <1>3, <1>4, <1>5

\* The list and the hash are the policy's set and order: Victim hands out the frame
\* that has been evictable for longest, Pin and Victim forget exactly one frame, and
\* Unpin makes a frame the youngest unless it was evictable already.
THEOREM ReplacerImplementsPolicy == Spec => ImplementsPolicy
<1>1. Init => Policy!Init
  <2> SUFFICES ASSUME Init PROVE Policy!Init
    OBVIOUS
  <2>1. lru.list = <<>> /\ lru.hash = {}
    BY DEF Init, EmptyLRU
  <2>2. Older(<<>>) = {}
    BY DEF Older
  <2> QED
    BY <2>1, <2>2 DEF Policy!Init
<1>2. TypeOK /\ ListMatchesHash /\ [Next]_lru => [Policy!Next]_(Policy!policyVars)
  <2> SUFFICES ASSUME TypeOK, ListMatchesHash, [Next]_lru
               PROVE  [Policy!Next]_(Policy!policyVars)
    OBVIOUS
  <2>1. /\ lru.list \in Seq(Frame) /\ lru.hash \subseteq Frame
        /\ Range(lru.list) = lru.hash /\ Distinct(lru.list)
        /\ DOMAIN lru.list = 1..Len(lru.list)
    BY DEF TypeOK, LRU, ListMatchesHash, Consistent
  <2>2. CASE Victim
    <3> DEFINE f == back(lru.list)
    <3>1. lru.list # <<>> /\ lru' = [list |-> pop_back(lru.list), hash |-> lru.hash \ {f}]
      BY <2>2 DEF Victim, HasVictim, AfterVictim, VictimOf
    <3>2. Len(lru.list) \in 1..Len(lru.list) /\ f = lru.list[Len(lru.list)]
      BY <2>1, <3>1, PopBackErases DEF back
    <3>3. Policy!Forget(f)
      BY <2>1, <3>1, <3>2, PopBackErases, ForgetLemma
    <3>4. f \in lru.hash
      BY <2>1, <3>2 DEF Range
    <3>5. \A g \in lru.hash \ {f} : <<f, g>> \in Older(lru.list)
      BY <2>1, <3>1, BackIsOldest
    <3> QED
      BY <3>3, <3>4, <3>5 DEF Policy!Next, Policy!Victim
  <2>3. ASSUME NEW f \in Frame, Pin(f) PROVE [Policy!Next]_(Policy!policyVars)
    <3>1. CASE f \in lru.hash
      <4> DEFINE k == Position(lru.list, f)
      <4>1. k \in 1..Len(lru.list) /\ lru.list[k] = f
        BY <2>1, <3>1 DEF Position, Range
      <4>2. lru' = [list |-> erase(lru.list, k), hash |-> lru.hash \ {f}]
        BY <2>3, <3>1 DEF Pin, AfterPin
      <4>3. Policy!Forget(f)
        BY <4>1, <4>2, ForgetLemma
      <4> QED
        BY <4>3 DEF Policy!Next, Policy!Pin
    <3>2. CASE f \notin lru.hash
      BY <2>3, <3>2 DEF Pin, AfterPin, Policy!policyVars
    <3> QED
      BY <3>1, <3>2
  <2>4. ASSUME NEW f \in Frame, Unpin(f) PROVE [Policy!Next]_(Policy!policyVars)
    <3>1. CASE f \in lru.hash
      BY <2>4, <3>1 DEF Unpin, AfterUnpin, Policy!policyVars
    <3>2. CASE f \notin lru.hash
      <4>1. lru' = [list |-> push_front(f, lru.list), hash |-> lru.hash \cup {f}]
        BY <2>4, <3>2 DEF Unpin, AfterUnpin
      <4>2. Older(push_front(f, lru.list)) = Older(lru.list) \cup (lru.hash \X {f})
        BY <2>1, <3>2, OlderWith
      <4>3. lru'.list = push_front(f, lru.list) /\ lru'.hash = lru.hash \cup {f}
        BY <4>1
      <4>4. Policy!Unpin(f)
        BY <3>2, <4>2, <4>3 DEF Policy!Unpin
      <4> QED
        BY <4>4 DEF Policy!Next
    <3> QED
      BY <3>1, <3>2
  <2>5. CASE UNCHANGED lru
    BY <2>5 DEF Policy!policyVars
  <2> QED
    BY <2>2, <2>3, <2>4, <2>5 DEF Next
<1> QED
  BY <1>1, <1>2, ListAndHashAgree, PTL DEF Spec, ImplementsPolicy, Policy!Spec
=============================================================================
