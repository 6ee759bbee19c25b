--------------------------- MODULE LRUListProofs ---------------------------
(***************************************************************************)
(* What each operation of the replacer does to a consistent list and hash. *)
(* The buffer pool's proofs and the replacer's own cite these lemmas.      *)
(***************************************************************************)
EXTENDS LRUList, TLAPS

\* Two lists in a row.
LEMMA ConcatLemma ==
  ASSUME NEW S, NEW a \in Seq(S), NEW b \in Seq(S)
  PROVE  /\ a \o b \in Seq(S)
         /\ Len(a \o b) = Len(a) + Len(b)
         /\ \A i \in 1..(Len(a) + Len(b)) :
              (a \o b)[i] = IF i <= Len(a) THEN a[i] ELSE b[i - Len(a)]
<1>1. a \o b \in Seq(S)
  OBVIOUS
<1>2. Len(a \o b) = Len(a) + Len(b)
  OBVIOUS
<1>3. ASSUME NEW i \in 1..(Len(a) + Len(b))
      PROVE  (a \o b)[i] = IF i <= Len(a) THEN a[i] ELSE b[i - Len(a)]
  OBVIOUS
<1> QED
  BY <1>1, <1>2, <1>3

\* Taking the head of a list without repetitions removes exactly that element.
LEMMA PopFrontLemma ==
  ASSUME NEW S, NEW s \in Seq(S), s # <<>>, Distinct(s)
  PROVE  /\ Head(s) \in S /\ Head(s) \in Range(s)
         /\ Tail(s) \in Seq(S)
         /\ Range(Tail(s)) = Range(s) \ {Head(s)}
         /\ Distinct(Tail(s))
<1> DEFINE t == Tail(s)
<1>1. Len(s) \in Nat /\ Len(s) > 0 /\ DOMAIN s = 1..Len(s)
  OBVIOUS
<1>2. Head(s) = s[1] /\ s[1] \in S
  BY <1>1
<1>3. /\ t \in Seq(S) /\ Len(t) = Len(s) - 1
      /\ \A i \in 1..Len(t) : t[i] = s[i + 1]
  BY <1>1
<1>4. DOMAIN t = 1..Len(t)
  BY <1>3
<1> HIDE DEF t
<1>5. Distinct(t)
  BY <1>1, <1>3 DEF Distinct
<1>6. ASSUME NEW x \in Range(t) PROVE x \in Range(s) \ {Head(s)}
  <2>1. PICK i \in 1..Len(t) : t[i] = x
    BY <1>4, <1>6 DEF Range
  <2>2. i + 1 \in 1..Len(s) /\ i + 1 # 1 /\ s[i + 1] = x
    BY <1>1, <1>3, <2>1
  <2> QED
    BY <1>1, <1>2, <2>2 DEF Distinct, Range
<1>7. ASSUME NEW x \in Range(s) \ {Head(s)} PROVE x \in Range(t)
  <2>1. PICK i \in 1..Len(s) : s[i] = x /\ i # 1
    BY <1>1, <1>2, <1>7 DEF Range
  <2>2. i - 1 \in 1..Len(t) /\ (i - 1) + 1 = i
    BY <1>1, <1>3, <2>1
  <2>3. t[i - 1] = x
    BY <1>3, <2>1, <2>2
  <2> QED
    BY <1>4, <2>2, <2>3 DEF Range
<1>8. Range(t) = Range(s) \ {Head(s)}
  BY <1>6, <1>7
<1>9. Head(s) \in Range(s)
  BY <1>1, <1>2 DEF Range
<1> QED
  BY <1>2, <1>3, <1>5, <1>8, <1>9 DEF t

\* Appending an element that is not in the list keeps it free of repetitions.
LEMMA PushBackLemma ==
  ASSUME NEW S, NEW s \in Seq(S), NEW x \in S, x \notin Range(s), Distinct(s)
  PROVE  /\ Append(s, x) \in Seq(S)
         /\ Range(Append(s, x)) = Range(s) \cup {x}
         /\ Distinct(Append(s, x))
<1> DEFINE t == Append(s, x)
<1>1. /\ Len(s) \in Nat /\ DOMAIN s = 1..Len(s)
      /\ t \in Seq(S) /\ Len(t) = Len(s) + 1
      /\ t[Len(s) + 1] = x
      /\ \A i \in 1..Len(s) : t[i] = s[i]
  OBVIOUS
<1>2. DOMAIN t = 1..Len(t)
  BY <1>1
<1> HIDE DEF t
<1>3. \A i \in 1..Len(s) : s[i] # x
  BY <1>1 DEF Range
<1>4. \A i \in 1..Len(t) : i = Len(s) + 1 \/ i \in 1..Len(s)
  BY <1>1
<1>5. Distinct(t)
  BY <1>1, <1>3, <1>4 DEF Distinct
<1>6. Range(t) = Range(s) \cup {x}
  <2>1. ASSUME NEW y \in Range(t) PROVE y \in Range(s) \cup {x}
    BY <1>1, <1>2, <1>4, <2>1 DEF Range
  <2>2. ASSUME NEW y \in Range(s) \cup {x} PROVE y \in Range(t)
    BY <1>1, <1>2, <2>2 DEF Range
  <2> QED
    BY <2>1, <2>2
<1> QED
  BY <1>1, <1>5, <1>6 DEF t

\* The empty replacer the constructor builds is consistent.
LEMMA EmptyLRULemma ==
  ASSUME NEW Frame
  PROVE  EmptyLRU \in LRU(Frame) /\ Consistent(EmptyLRU)
BY DEF EmptyLRU, LRU, Consistent, Distinct, Range

\* Victim hands out a frame of the hash and removes exactly that frame.
LEMMA AfterVictimLemma ==
  ASSUME NEW Frame, NEW r \in LRU(Frame), Consistent(r), HasVictim(r)
  PROVE  /\ VictimOf(r) \in r.hash
         /\ AfterVictim(r) \in LRU(Frame)
         /\ AfterVictim(r).hash = r.hash \ {VictimOf(r)}
         /\ Consistent(AfterVictim(r))
<1> DEFINE s == r.list
           t == pop_back(s)
<1>1. s \in Seq(Frame) /\ s # <<>> /\ r.hash \subseteq Frame
  BY DEF LRU, HasVictim
<1>2. Len(s) \in Nat /\ Len(s) > 0
  BY <1>1
<1>3. /\ t \in Seq(Frame)
      /\ Len(t) = Len(s) - 1
      /\ \A i \in 1..Len(t) : t[i] = s[i]
  BY <1>1, <1>2 DEF pop_back
<1>4. VictimOf(r) = s[Len(s)]
  BY DEF VictimOf, back
<1>5. DOMAIN s = 1..Len(s) /\ DOMAIN t = 1..Len(t)
  BY <1>1, <1>3
<1>6. AfterVictim(r) = [list |-> t, hash |-> r.hash \ {VictimOf(r)}]
  BY DEF AfterVictim
<1>a. /\ \A i, j \in 1..Len(s) : s[i] = s[j] => i = j
      /\ r.hash = {s[i] : i \in 1..Len(s)}
  BY <1>5 DEF Consistent, Distinct, Range
<1> HIDE DEF s, t
<1>7. Range(t) = r.hash \ {VictimOf(r)}
  <2>1. \A i \in 1..Len(t) : i \in 1..Len(s) /\ i # Len(s)
    BY <1>2, <1>3
  <2>2. \A i \in 1..Len(s) : i \in 1..Len(t) \/ i = Len(s)
    BY <1>2, <1>3
  <2>3. Len(s) \in 1..Len(s)
    BY <1>2
  <2>4. Range(t) = {t[i] : i \in 1..Len(t)}
    BY <1>5 DEF Range
  <2>5. ASSUME NEW g \in Range(t) PROVE g \in r.hash \ {VictimOf(r)}
    <3>1. PICK i \in 1..Len(t) : g = t[i]
      BY <2>4, <2>5
    <3> QED
      BY <1>3, <1>4, <1>a, <2>1, <2>3, <3>1
  <2>6. ASSUME NEW g \in r.hash \ {VictimOf(r)} PROVE g \in Range(t)
    <3>1. PICK i \in 1..Len(s) : g = s[i]
      BY <1>a, <2>6
    <3>2. i \in 1..Len(t)
      BY <1>4, <2>2, <2>6, <3>1
    <3> QED
      BY <1>3, <2>4, <3>1, <3>2
  <2> QED
    BY <2>5, <2>6
<1>8. \A i, j \in 1..Len(t) : t[i] = t[j] => i = j
  <2>1. \A i \in 1..Len(t) : i \in 1..Len(s)
    BY <1>2, <1>3
  <2> QED
    BY <1>3, <1>a, <2>1
<1>9. VictimOf(r) \in r.hash
  BY <1>2, <1>4, <1>a
<1>10. AfterVictim(r).list = t /\ AfterVictim(r).hash = r.hash \ {VictimOf(r)}
  BY <1>6
<1>11. AfterVictim(r) \in LRU(Frame)
  BY <1>1, <1>3, <1>6 DEF LRU
<1>12. Consistent(AfterVictim(r))
  BY <1>7, <1>8, <1>10 DEF Consistent, Distinct
<1> QED
  BY <1>9, <1>10, <1>11, <1>12

\* The beginning of a list as far as position m.
LEMMA BeginningLemma ==
  ASSUME NEW S, NEW s \in Seq(S), NEW m \in 0..Len(s)
  PROVE  /\ SubSeq(s, 1, m) \in Seq(S)
         /\ Len(SubSeq(s, 1, m)) = m
         /\ \A i \in 1..m : SubSeq(s, 1, m)[i] = s[i]
OBVIOUS

\* The end of a list from position m on.
LEMMA EndLemma ==
  ASSUME NEW S, NEW s \in Seq(S), NEW m \in 1..(Len(s) + 1)
  PROVE  /\ SubSeq(s, m, Len(s)) \in Seq(S)
         /\ Len(SubSeq(s, m, Len(s))) = Len(s) - m + 1
         /\ \A i \in 1..(Len(s) - m + 1) : SubSeq(s, m, Len(s))[i] = s[m + i - 1]
OBVIOUS

\* Erasing the element at position k moves the ones behind it up by one.
LEMMA EraseLemma ==
  ASSUME NEW S, NEW s \in Seq(S), NEW k \in 1..Len(s)
  PROVE  /\ erase(s, k) \in Seq(S)
         /\ Len(erase(s, k)) = Len(s) - 1
         /\ \A i \in 1..(k - 1) : erase(s, k)[i] = s[i]
         /\ \A i \in k..(Len(s) - 1) : erase(s, k)[i] = s[i + 1]
<1> DEFINE t == erase(s, k)
<1>0. Len(s) \in Nat /\ DOMAIN s = 1..Len(s) /\ k \in Int
  OBVIOUS
<1> DEFINE a == SubSeq(s, 1, k - 1)
           b == SubSeq(s, k + 1, Len(s))
<1>1. a \in Seq(S) /\ Len(a) = k - 1 /\ \A i \in 1..(k - 1) : a[i] = s[i]
  BY <1>0
<1>2. b \in Seq(S) /\ Len(b) = Len(s) - k /\ \A i \in 1..(Len(s) - k) : b[i] = s[k + i]
  <2>1. k + 1 \in 1..(Len(s) + 1) /\ Len(s) \in ((k + 1) - 1)..Len(s)
    BY <1>0
  <2>2. /\ b \in Seq(S) /\ Len(b) = Len(s) - (k + 1) + 1
        /\ \A i \in 1..(Len(s) - (k + 1) + 1) : b[i] = s[(k + 1) + i - 1]
    BY <1>0, <2>1, EndLemma
  <2> HIDE DEF b
  <2>3. Len(s) - (k + 1) + 1 = Len(s) - k
    BY <1>0
  <2>4. \A i \in 1..(Len(s) - k) : (k + 1) + i - 1 = k + i
    BY <1>0
  <2> QED
    BY <2>2, <2>3, <2>4
<1>3. t = a \o b
  BY DEF erase
<1> HIDE DEF a, b, t
<1>4. /\ t \in Seq(S)
      /\ Len(t) = Len(a) + Len(b)
      /\ \A i \in 1..(Len(a) + Len(b)) : t[i] = IF i <= Len(a) THEN a[i] ELSE b[i - Len(a)]
  BY <1>1, <1>2, <1>3, ConcatLemma, ZenonT(30)
<1>5. Len(t) = Len(s) - 1
  BY <1>0, <1>1, <1>2, <1>4
<1>6. ASSUME NEW i \in 1..(k - 1) PROVE t[i] = s[i]
  <2>1. i \in 1..(Len(a) + Len(b)) /\ i <= Len(a)
    BY <1>0, <1>1, <1>2, <1>6
  <2> QED
    BY <1>1, <1>4, <1>6, <2>1
<1>7. ASSUME NEW i \in k..(Len(s) - 1) PROVE t[i] = s[i + 1]
  <2>1. i \in 1..(Len(a) + Len(b)) /\ ~ (i <= Len(a)) /\ i - Len(a) \in 1..(Len(s) - k)
    BY <1>0, <1>1, <1>2, <1>7
  <2>2. t[i] = b[i - Len(a)]
    BY <1>4, <2>1
  <2>3. b[i - Len(a)] = s[k + (i - Len(a))]
    BY <1>2, <2>1
  <2>4. k + (i - Len(a)) = i + 1
    BY <1>0, <1>1, <1>7
  <2> QED
    BY <2>2, <2>3, <2>4
<1> QED
  BY <1>4, <1>5, <1>6, <1>7 DEF t

\* Pin leaves a consistent structure whose hash lacks the frame.
LEMMA AfterPinLemma ==
  ASSUME NEW Frame, NEW r \in LRU(Frame), Consistent(r), NEW f \in Frame
  PROVE  /\ AfterPin(r, f) \in LRU(Frame)
         /\ AfterPin(r, f).hash = r.hash \ {f}
         /\ Consistent(AfterPin(r, f))
<1> DEFINE s == r.list
           k == Position(s, f)
           t == erase(s, k)
<1>1. CASE f \notin r.hash
  BY <1>1 DEF AfterPin
<1>2. CASE f \in r.hash
  <2>1. s \in Seq(Frame) /\ r.hash \subseteq Frame /\ Len(s) \in Nat /\ DOMAIN s = 1..Len(s)
    BY DEF LRU
  <2>2. \E i \in 1..Len(s) : s[i] = f
    BY <1>2, <2>1 DEF Consistent, Distinct, Range
  <2>3. k \in 1..Len(s) /\ s[k] = f
    BY <2>2 DEF Position
  <2>4. /\ t \in Seq(Frame)
        /\ Len(t) = Len(s) - 1
        /\ \A i \in 1..(k - 1) : t[i] = s[i]
        /\ \A i \in k..(Len(s) - 1) : t[i] = s[i + 1]
    BY <2>1, <2>3, EraseLemma
  <2> HIDE DEF t, k
  <2>5. DOMAIN t = 1..Len(t)
    BY <2>4
  <2>6. AfterPin(r, f) = [list |-> t, hash |-> r.hash \ {f}]
    BY <1>2 DEF AfterPin, t, k
  <2>7. \A i, j \in 1..Len(s) : s[i] = s[j] => i = j
    BY DEF Consistent, Distinct
  <2>8. Range(t) = r.hash \ {f}
    <3>1. ASSUME NEW g \in Range(t) PROVE g \in r.hash \ {f}
      <4>1. PICK i \in 1..Len(t) : t[i] = g
        BY <2>5, <3>1 DEF Range
      <4>2. PICK j \in 1..Len(s) : j # k /\ s[j] = g
        BY <2>1, <2>3, <2>4, <4>1
      <4> QED
        BY <2>1, <2>3, <2>7, <4>2 DEF Consistent, Distinct, Range
    <3>2. ASSUME NEW g \in r.hash \ {f} PROVE g \in Range(t)
      <4>1. PICK j \in 1..Len(s) : s[j] = g
        BY <2>1, <3>2 DEF Consistent, Distinct, Range
      <4>2. j # k
        BY <2>3, <3>2, <4>1
      <4>3. \E i \in 1..Len(t) : t[i] = g
        <5>1. CASE j < k
          BY <2>1, <2>3, <2>4, <4>1, <5>1
        <5>2. CASE j > k
          <6>1. j - 1 \in k..(Len(s) - 1) /\ (j - 1) + 1 = j /\ j - 1 \in 1..Len(t)
            BY <2>1, <2>3, <2>4, <4>1, <5>2
          <6> QED
            BY <2>4, <4>1, <6>1
        <5> QED
          BY <2>1, <2>3, <4>2, <5>1, <5>2
      <4> QED
        BY <2>5, <4>3 DEF Range
    <3> QED
      BY <3>1, <3>2
  <2>9. \A i, j \in 1..Len(t) : t[i] = t[j] => i = j
    <3> DEFINE at(i) == IF i < k THEN i ELSE i + 1
    <3>1. \A i \in 1..Len(t) : at(i) \in 1..Len(s) /\ t[i] = s[at(i)]
      BY <2>1, <2>3, <2>4
    <3>2. \A i, j \in 1..Len(t) : at(i) = at(j) => i = j
      BY <2>1, <2>3, <2>4
    <3> HIDE DEF at
    <3> QED
      BY <2>7, <3>1, <3>2, SMTT(30)
  <2>10. AfterPin(r, f).list = t /\ AfterPin(r, f).hash = r.hash \ {f}
    BY <2>6
  <2>11. AfterPin(r, f) \in LRU(Frame)
    BY <2>1, <2>4, <2>6 DEF LRU
  <2>12. Consistent(AfterPin(r, f))
    BY <2>8, <2>9, <2>10 DEF Consistent, Distinct
  <2> QED
    BY <2>10, <2>11, <2>12
<1> QED
  BY <1>1, <1>2

\* Unpin leaves a consistent structure whose hash has the frame.
LEMMA AfterUnpinLemma ==
  ASSUME NEW Frame, NEW r \in LRU(Frame), Consistent(r), NEW f \in Frame
  PROVE  /\ AfterUnpin(r, f) \in LRU(Frame)
         /\ AfterUnpin(r, f).hash = r.hash \cup {f}
         /\ Consistent(AfterUnpin(r, f))
<1> DEFINE s == r.list
           t == push_front(f, s)
<1>1. CASE f \in r.hash
  BY <1>1 DEF AfterUnpin
<1>2. CASE f \notin r.hash
  <2>1. s \in Seq(Frame) /\ r.hash \subseteq Frame /\ Len(s) \in Nat /\ DOMAIN s = 1..Len(s)
    BY DEF LRU
  <2>2. /\ t \in Seq(Frame)
        /\ Len(t) = Len(s) + 1
        /\ t[1] = f
        /\ \A i \in 2..Len(t) : t[i] = s[i - 1]
    BY <2>1 DEF push_front
  <2> HIDE DEF t
  <2>3. DOMAIN t = 1..Len(t)
    BY <2>2
  <2>4. AfterUnpin(r, f) = [list |-> t, hash |-> r.hash \cup {f}]
    BY <1>2 DEF AfterUnpin, t
  <2>5. \A i \in 1..Len(s) : s[i] \in r.hash /\ s[i] # f /\ t[i + 1] = s[i] /\ i + 1 \in 1..Len(t)
    BY <1>2, <2>1, <2>2 DEF Consistent, Distinct, Range
  <2>6. Range(t) = r.hash \cup {f}
    <3>1. ASSUME NEW g \in Range(t) PROVE g \in r.hash \cup {f}
      <4>1. PICK i \in 1..Len(t) : t[i] = g
        BY <2>3, <3>1 DEF Range
      <4>2. CASE i = 1
        BY <2>2, <4>1, <4>2
      <4>3. CASE i # 1
        <5>1. i - 1 \in 1..Len(s) /\ t[i] = s[i - 1]
          BY <2>1, <2>2, <4>1, <4>3
        <5> QED
          BY <2>5, <4>1, <5>1
      <4> QED
        BY <4>2, <4>3
    <3>2. ASSUME NEW g \in r.hash PROVE g \in Range(t)
      <4>1. PICK i \in 1..Len(s) : s[i] = g
        BY <2>1, <3>2 DEF Consistent, Distinct, Range
      <4> QED
        BY <2>3, <2>5, <4>1 DEF Range
    <3>3. f \in Range(t)
      BY <2>1, <2>2, <2>3 DEF Range
    <3> QED
      BY <3>1, <3>2, <3>3
  <2>7. \A i, j \in 1..Len(t) : t[i] = t[j] => i = j
    <3>1. \A i, j \in 1..Len(s) : s[i] = s[j] => i = j
      BY DEF Consistent, Distinct
    <3>2. ASSUME NEW i \in 1..Len(t), i # 1
          PROVE  i - 1 \in 1..Len(s) /\ t[i] = s[i - 1] /\ t[i] # t[1]
      <4>1. i - 1 \in 1..Len(s) /\ i \in 2..Len(t)
        BY <2>1, <2>2, <3>2
      <4> QED
        BY <2>2, <2>5, <4>1
    <3>3. ASSUME NEW i \in 1..Len(t), NEW j \in 1..Len(t), t[i] = t[j] PROVE i = j
      <4>1. CASE i = 1 \/ j = 1
        BY <3>2, <3>3, <4>1
      <4>2. CASE i # 1 /\ j # 1
        <5>1. s[i - 1] = s[j - 1] /\ i - 1 \in 1..Len(s) /\ j - 1 \in 1..Len(s)
          BY <3>2, <3>3, <4>2
        <5>2. i - 1 = j - 1
          BY <3>1, <5>1
        <5> QED
          BY <2>1, <2>2, <5>2
      <4> QED
        BY <4>1, <4>2
    <3> QED
      BY <3>3
  <2>8. AfterUnpin(r, f).list = t /\ AfterUnpin(r, f).hash = r.hash \cup {f}
    BY <2>4
  <2>9. AfterUnpin(r, f) \in LRU(Frame)
    BY <2>1, <2>2, <2>4 DEF LRU
  <2>10. Consistent(AfterUnpin(r, f))
    BY <2>6, <2>7, <2>8 DEF Consistent, Distinct
  <2> QED
    BY <2>8, <2>9, <2>10
<1> QED
  BY <1>1, <1>2
=============================================================================
