-------------------------- MODULE QueryPlanProofs ---------------------------
(***************************************************************************)
(* The theorems about QueryPlan, for any schema, any number of tables in a *)
(* statement, any set of conditions and any set of columns that is_col     *)
(* finds: what a scan makes of a condition has the condition's truth       *)
(* value, a query stops in the middle only for a condition on a table that *)
(* is not in the statement, and the scans together decide the where        *)
(* clause.                                                                 *)
(***************************************************************************)
EXTENDS QueryPlan, FiniteSetTheorems, WellFoundedInduction, TLAPS

\* Most leaves are first-order; the others name the prover they need.
USE Zenon

Condition(C) ==
  [lhs_col : C, op : CompOp, is_rhs_val : BOOLEAN, rhs_val : Int, rhs_col : C]

\* What the column has in the tuples.
In(tuples, col) == tuples[col.tab_name][col.col_name]

\* The constructor of SeqScanExecutor: a condition it may be given faces the table of
\* the scan once it is turned.
LEMMA TurnedForm ==
  ASSUME NEW C, NEW cond \in Condition(C), NEW t, CanTurn(cond, t)
  PROVE  LET turned == Turned(cond, t) IN
         /\ turned \in Condition(C) /\ turned.is_rhs_val = cond.is_rhs_val
         /\ turned.lhs_col.tab_name = t
         /\ turned.rhs_col \in {cond.lhs_col, cond.rhs_col}
         /\ cond.lhs_col.tab_name # t =>
              /\ ~ turned.is_rhs_val /\ turned.op = swap_op[cond.op]
              /\ turned.lhs_col = cond.rhs_col /\ turned.rhs_col = cond.lhs_col
<1>1. CASE cond.lhs_col.tab_name = t
  BY <1>1 DEF Turned
<1>2. CASE cond.lhs_col.tab_name # t
  <2>1. ~ cond.is_rhs_val /\ cond.rhs_col.tab_name = t
    BY <1>2 DEF CanTurn
  <2>2. cond.op \in CompOp /\ cond.lhs_col \in C /\ cond.rhs_col \in C
    BY DEF Condition
  <2>3. \A op \in CompOp : swap_op[op] \in CompOp
    BY SMTT(30) DEF swap_op, CompOp
  <2> QED
    BY <1>2, <2>1, <2>2, <2>3 DEF Turned, Condition
<1> QED
  BY <1>1, <1>2

\* It keeps its truth value.
LEMMA TurnKeepsMeaning ==
  ASSUME NEW C, NEW cond \in Condition(C), NEW t, CanTurn(cond, t), NEW tuples,
         In(tuples, cond.lhs_col) \in Int,
         ~ cond.is_rhs_val => In(tuples, cond.rhs_col) \in Int
  PROVE  eval_cond(Turned(cond, t), tuples) <=> eval_cond(cond, tuples)
<1>1. CASE cond.lhs_col.tab_name = t
  BY <1>1 DEF Turned
<1>2. CASE cond.lhs_col.tab_name # t
  <2> DEFINE turned == Turned(cond, t)
             l == In(tuples, cond.lhs_col)
             r == In(tuples, cond.rhs_col)
  <2>1. ~ cond.is_rhs_val /\ l \in Int /\ r \in Int /\ cond.op \in CompOp
    BY <1>2 DEF CanTurn, Condition
  <2>2. /\ ~ turned.is_rhs_val /\ turned.op = swap_op[cond.op]
        /\ turned.lhs_col = cond.rhs_col /\ turned.rhs_col = cond.lhs_col
    BY <1>2, TurnedForm, SMTT(30)
  <2> HIDE DEF turned
  <2>3. \A a, b \in Int : /\ (a < b <=> b > a) /\ (a <= b <=> b >= a)
    BY SMTT(30)
  <2>4. \A op \in CompOp : cond.op = op /\ turned.op = swap_op[op]
                            => (eval_cond(turned, tuples) <=> eval_cond(cond, tuples))
    <3>1. ASSUME cond.op = "OP_EQ", turned.op = "OP_EQ"
          PROVE  eval_cond(turned, tuples) <=> eval_cond(cond, tuples)
      BY <2>1, <2>2, <3>1 DEF eval_cond, In
    <3>2. ASSUME cond.op = "OP_NE", turned.op = "OP_NE"
          PROVE  eval_cond(turned, tuples) <=> eval_cond(cond, tuples)
      BY <2>1, <2>2, <3>2 DEF eval_cond, In
    <3>3. ASSUME cond.op = "OP_LT", turned.op = "OP_GT"
          PROVE  eval_cond(turned, tuples) <=> eval_cond(cond, tuples)
      BY <2>1, <2>3, <2>2, <3>3 DEF eval_cond, In
    <3>4. ASSUME cond.op = "OP_GT", turned.op = "OP_LT"
          PROVE  eval_cond(turned, tuples) <=> eval_cond(cond, tuples)
      BY <2>1, <2>3, <2>2, <3>4 DEF eval_cond, In
    <3>5. ASSUME cond.op = "OP_LE", turned.op = "OP_GE"
          PROVE  eval_cond(turned, tuples) <=> eval_cond(cond, tuples)
      BY <2>1, <2>3, <2>2, <3>5 DEF eval_cond, In
    <3>6. ASSUME cond.op = "OP_GE", turned.op = "OP_LE"
          PROVE  eval_cond(turned, tuples) <=> eval_cond(cond, tuples)
      BY <2>1, <2>3, <2>2, <3>6 DEF eval_cond, In
    <3> QED
      BY <3>1, <3>2, <3>3, <3>4, <3>5, <3>6, SMTT(30) DEF CompOp, swap_op
  <2> QED
    BY <2>1, <2>2, <2>4 DEF turned
<1> QED
  BY <1>1, <1>2

\* SeqScanExecutor::feed: if what is fed is the tuple that the other table is at, a
\* condition keeps its truth value, and compares only what is on the scan's table.
LEMMA FeedKeepsMeaning ==
  ASSUME NEW C, NEW cond \in Condition(C), NEW t, NEW tuples, NEW feed_dict,
         cond.is_rhs_val \/ cond.rhs_col.tab_name = t
           \/ feed_dict[cond.rhs_col.tab_name] = tuples[cond.rhs_col.tab_name]
  PROVE  LET fed == FedCond(cond, t, feed_dict) IN
         /\ eval_cond(fed, tuples) <=> eval_cond(cond, tuples)
         /\ fed.lhs_col = cond.lhs_col
         /\ fed.is_rhs_val \/ fed.rhs_col.tab_name = t
<1>1. CASE cond.is_rhs_val \/ cond.rhs_col.tab_name = t
  BY <1>1 DEF FedCond
<1>2. CASE ~ (cond.is_rhs_val \/ cond.rhs_col.tab_name = t)
  <2> DEFINE fed == FedCond(cond, t, feed_dict)
  <2>1. /\ fed.is_rhs_val = TRUE /\ fed.lhs_col = cond.lhs_col /\ fed.op = cond.op
        /\ fed.rhs_val = tuples[cond.rhs_col.tab_name][cond.rhs_col.col_name]
    BY <1>2 DEF FedCond, Condition
  <2> HIDE DEF fed
  <2>2. eval_cond(fed, tuples) <=> eval_cond(cond, tuples)
    BY <1>2, <2>1 DEF eval_cond
  <2> QED
    BY <2>1, <2>2 DEF fed
<1> QED
  BY <1>1, <1>2

\* A condition that a scan was given, turned by its constructor and fed with the tuples
\* the other tables are at, is on the scan's table alone and true exactly when the
\* condition of the statement is.
THEOREM ScanDecidesCondition ==
  ASSUME NEW C, NEW cond \in Condition(C), NEW t, CanTurn(cond, t),
         NEW tuples, NEW feed_dict,
         In(tuples, cond.lhs_col) \in Int,
         ~ cond.is_rhs_val => In(tuples, cond.rhs_col) \in Int,
         ~ cond.is_rhs_val =>
           \A u \in {cond.lhs_col.tab_name, cond.rhs_col.tab_name} \ {t} : feed_dict[u] = tuples[u]
  PROVE  LET fed == FedCond(Turned(cond, t), t, feed_dict) IN
         /\ eval_cond(fed, tuples) <=> eval_cond(cond, tuples)
         /\ fed.lhs_col.tab_name = t
         /\ fed.is_rhs_val \/ fed.rhs_col.tab_name = t
<1> DEFINE turned == Turned(cond, t)
<1>1. /\ eval_cond(turned, tuples) <=> eval_cond(cond, tuples)
      /\ turned \in Condition(C) /\ turned.lhs_col.tab_name = t
      /\ turned.is_rhs_val = cond.is_rhs_val
      /\ turned.rhs_col \in {cond.lhs_col, cond.rhs_col}
  <2>1. eval_cond(turned, tuples) <=> eval_cond(cond, tuples)
    BY TurnKeepsMeaning
  <2>2. /\ turned \in Condition(C) /\ turned.lhs_col.tab_name = t
        /\ turned.is_rhs_val = cond.is_rhs_val
        /\ turned.rhs_col \in {cond.lhs_col, cond.rhs_col}
    BY TurnedForm, SMTT(30)
  <2> QED
    BY <2>1, <2>2
<1> HIDE DEF turned
<1>2. \/ turned.is_rhs_val \/ turned.rhs_col.tab_name = t
      \/ feed_dict[turned.rhs_col.tab_name] = tuples[turned.rhs_col.tab_name]
  BY <1>1
<1>3. LET fed == FedCond(turned, t, feed_dict) IN
      /\ eval_cond(fed, tuples) <=> eval_cond(turned, tuples)
      /\ fed.lhs_col = turned.lhs_col
      /\ fed.is_rhs_val \/ fed.rhs_col.tab_name = t
  BY <1>1, <1>2, FeedKeepsMeaning, SMTT(30)
<1> QED
  BY <1>1, <1>3 DEF turned
-----------------------------------------------------------------------------
Cols == {NoCol} \cup AllCols

\* The conditions of the statement that the first i tables decide, and no fewer.
Popped(i) == {cond \in checked : Solved(cond, First(i)) /\ ~ Solved(cond, First(i - 1))}

\* What select_from has handed out is what the tables so far decide, and every scan is
\* fed a tuple of each table before it.
PlanInv ==
  /\ TypeOK
  /\ StopsOnlyForForeignTable
  /\ scans \in Seq(Range(scans))
  /\ status \in {"selector", "where"} => Len(scans) = 0 /\ checked = {}
  /\ conds = {cond \in checked : ~ Solved(cond, First(Len(scans)))}
  /\ \A i \in DOMAIN scans :
       /\ {"tab_name", "conds", "fed_conds"} \subseteq DOMAIN scans[i]
       /\ scans[i].conds = {Turned(cond, tab_names[i]) : cond \in Popped(i)}
  /\ status # "run" => Len(rows) = 0 /\ \A i \in DOMAIN scans : scans[i].fed_conds = scans[i].conds
  /\ status = "run" => Len(scans) = Len(tab_names)
  /\ \A j \in 1..(Len(rows) + 1) : DOMAIN prev_feed_dict[j] = First(j - 1)

LEMMA CondLemma ==
  ASSUME NEW cond \in CondsOn(AllCols)
  PROVE  /\ cond \in Condition(Cols)
         /\ cond.lhs_col.tab_name \in Tables /\ cond.lhs_col \in ColsOf(cond.lhs_col.tab_name)
         /\ ~ cond.is_rhs_val => /\ cond.rhs_col.tab_name \in Tables
                                 /\ cond.rhs_col \in ColsOf(cond.rhs_col.tab_name)
<1> DEFINE C == AllCols
<1>1. ASSUME NEW c \in C PROVE c \in Cols /\ c.tab_name \in Tables /\ c \in ColsOf(c.tab_name)
  <2>1. PICK t \in Tables : c \in ColsOf(t)
    BY DEF AllCols
  <2>2. PICK i \in DOMAIN Schema[t] : c = TabCol(t, Schema[t][i].name)
    BY <2>1 DEF ColsOf
  <2>3. c.tab_name = t
    BY <2>2 DEF TabCol
  <2> QED
    BY <2>1, <2>3 DEF Cols
<1>2. Values \subseteq Int /\ 0 \in Int
  BY QueryPlanAssumption, SMTT(30)
<1>3. NoCol \in Cols
  BY DEF Cols
<1> HIDE DEF C
<1>4. CASE \E c \in C, op \in CompOp, v \in Values : cond = ValCond(c, op, v)
  <2> PICK c \in C, op \in CompOp, v \in Values : cond = ValCond(c, op, v)
    BY <1>4
  <2>1. cond.lhs_col = c /\ cond.is_rhs_val = TRUE
    BY DEF ValCond
  <2>2. cond \in Condition(Cols)
    BY <1>1, <1>2, <1>3 DEF ValCond, Condition
  <2> QED
    BY <1>1, <2>1, <2>2
<1>5. CASE \E c \in C, op \in CompOp, d \in C : cond = ColCond(c, op, d)
  <2> PICK c \in C, op \in CompOp, d \in C : cond = ColCond(c, op, d)
    BY <1>5
  <2>1. cond.lhs_col = c /\ cond.is_rhs_val = FALSE /\ cond.rhs_col = d
    BY DEF ColCond
  <2>2. cond \in Condition(Cols)
    BY <1>1, <1>2 DEF ColCond, Condition
  <2> QED
    BY <1>1, <2>1, <2>2
<1>6. cond \in {ValCond(c, op, v) : c \in C, op \in CompOp, v \in Values}
                \cup {ColCond(c, op, d) : c \in C, op \in CompOp, d \in C}
  BY SMTT(30) DEF CondsOn, C
<1> QED
  BY <1>4, <1>5, <1>6, SMTT(30)

LEMMA FirstLemma ==
  ASSUME tab_names \in Seq(Tables)
  PROVE  /\ First(0) = {} /\ First(Len(tab_names)) = Range(tab_names) /\ Range(tab_names) \subseteq Tables
         /\ Len(tab_names) \in Nat /\ DOMAIN tab_names = 1..Len(tab_names)
         /\ \A i \in DOMAIN tab_names : First(i) = First(i - 1) \cup {tab_names[i]}
<1>1. /\ Len(tab_names) \in Nat /\ DOMAIN tab_names = 1..Len(tab_names)
      /\ \A i \in DOMAIN tab_names : tab_names[i] \in Tables
  BY SMTT(30)
<1>2. 1..0 = {} /\ \A i \in 1..Len(tab_names) : i \in Nat /\ 1..i = 1..(i - 1) \cup {i}
  BY <1>1, SMTT(30)
<1>3. First(0) = {}
  BY <1>2 DEF First
<1>4. First(Len(tab_names)) = Range(tab_names) /\ Range(tab_names) \subseteq Tables
  BY <1>1 DEF First, Range
<1>5. ASSUME NEW i \in DOMAIN tab_names PROVE First(i) = First(i - 1) \cup {tab_names[i]}
  <2> DEFINE D == 1..(i - 1)
  <2>1. 1..i = D \cup {i}
    BY <1>1, <1>2
  <2> HIDE DEF D
  <2>2. First(i) = {tab_names[k] : k \in D \cup {i}} /\ First(i - 1) = {tab_names[k] : k \in D}
    BY <2>1 DEF First, D
  <2> QED
    BY <2>2
<1> QED
  BY <1>1, <1>3, <1>4, <1>5
LEMMA AppendLemma ==
  ASSUME NEW s, s \in Seq(Range(s)), NEW x
  PROVE  /\ Len(s) \in Nat /\ DOMAIN s = 1..Len(s)
         /\ Append(s, x) \in Seq(Range(Append(s, x)))
         /\ Len(Append(s, x)) = Len(s) + 1 /\ DOMAIN Append(s, x) = 1..(Len(s) + 1)
         /\ \A i \in 1..Len(s) : Append(s, x)[i] = s[i]
         /\ Append(s, x)[Len(s) + 1] = x
<1> DEFINE S == Range(s) \cup {x}
           a == Append(s, x)
<1>1. s \in Seq(S)
  <2> DEFINE R == Range(s)
  <2> HIDE DEF R
  <2>1. s \in Seq(R)
    BY DEF R
  <2>2. s \in Seq(R \cup {x})
    BY <2>1, SMTT(30)
  <2> QED
    BY <2>2 DEF R
<1> HIDE DEF S
<1>2. /\ Len(s) \in Nat /\ DOMAIN s = 1..Len(s) /\ x \in S
  BY <1>1, SMTT(30) DEF S
<1>3. /\ a \in Seq(S) /\ Len(a) = Len(s) + 1 /\ DOMAIN a = 1..(Len(s) + 1)
      /\ \A i \in 1..Len(s) : a[i] = s[i]
      /\ a[Len(s) + 1] = x
  BY <1>1, <1>2, SMTT(30)
<1> HIDE DEF a
<1>4. \A i \in DOMAIN a : a[i] \in Range(a)
  BY DEF Range
<1>5. a \in Seq(Range(a))
  BY <1>3, <1>4, SMTT(30)
<1> QED
  BY <1>2, <1>3, <1>5 DEF a

LEMMA LenLemma ==
  ASSUME NEW n \in Nat, NEW f(_)
  PROVE  LET s == [i \in 1..n |-> f(i)] IN Len(s) = n /\ DOMAIN s = 1..n
BY SMTT(30)

\* A scan is given what its table completes: it can be turned to face that table, and
\* the tables before supply the rest.
LEMMA PoppedLemma ==
  ASSUME TypeOK, NEW i \in DOMAIN tab_names, NEW cond \in Popped(i)
  PROVE  LET t == tab_names[i]
             turned == Turned(cond, t)
         IN  /\ cond \in Condition(Cols) /\ CanTurn(cond, t)
             /\ turned \in Condition(Cols) /\ turned.lhs_col.tab_name = t
             /\ turned.is_rhs_val \/ turned.rhs_col.tab_name \in {t} \cup First(i - 1)
<1> DEFINE t == tab_names[i]
<1>1. cond \in CondsOn(AllCols)
  BY DEF TypeOK, Popped
<1>2. cond \in Condition(Cols)
  BY <1>1, CondLemma
<1>3. First(i) = First(i - 1) \cup {t}
  BY FirstLemma DEF TypeOK
<1>4. Solved(cond, First(i)) /\ ~ Solved(cond, First(i - 1))
  BY DEF Popped
<1> HIDE DEF t
<1>5. CanTurn(cond, t)
  BY <1>3, <1>4 DEF Solved, CanTurn
<1>6. /\ Turned(cond, t) \in Condition(Cols)
      /\ Turned(cond, t).lhs_col.tab_name = t
      /\ Turned(cond, t).is_rhs_val = cond.is_rhs_val
      /\ Turned(cond, t).rhs_col \in {cond.lhs_col, cond.rhs_col}
  BY <1>2, <1>5, TurnedForm, SMTT(30)
<1>7. Turned(cond, t).is_rhs_val \/ Turned(cond, t).rhs_col.tab_name \in {t} \cup First(i - 1)
  BY <1>3, <1>4, <1>6 DEF Solved
<1> QED
  BY <1>2, <1>5, <1>6, <1>7 DEF t

LEMMA FedForm ==
  ASSUME NEW C, NEW cond \in Condition(C), NEW t, NEW feed_dict
  PROVE  LET fed == FedCond(cond, t, feed_dict) IN
         /\ fed.lhs_col = cond.lhs_col
         /\ fed.is_rhs_val \/ fed.rhs_col.tab_name = t
         /\ cond.is_rhs_val \/ cond.rhs_col.tab_name = t => fed = cond
BY DEF FedCond, Condition

LEMMA InitLemma ==
  ASSUME Init
  PROVE  PlanInv
<1> PICK s \in Statements : tab_names = s.tab_names /\ where = s.where
  BY DEF Init
<1>1. /\ tab_names \in Seq(Tables) /\ Len(tab_names) > 0
      /\ where \subseteq CondsOn(Written)
  BY QueryPlanAssumption
<1>2. Len(tab_names) \in Nat /\ DOMAIN tab_names = 1..Len(tab_names) /\ First(0) = {}
  BY <1>1, FirstLemma
<1>3. /\ Len(scans) = 0 /\ DOMAIN scans = 1..Len(scans) /\ scans \in Seq(Range(scans))
      /\ Len(rows) = 0 /\ DOMAIN rows = 1..Len(rows)
  BY SMTT(30) DEF Init
<1>4. 1..0 = {} /\ DOMAIN <<>> = {} /\ 0 \in 0..Len(tab_names) /\ 0 \in 0..(Len(tab_names) - 1)
      /\ 1 \in 1..Len(tab_names) /\ \A j \in 1..(0 + 1) : j = 1 /\ j - 1 = 0
  BY <1>1, <1>2, SMTT(30)
<1>5. /\ checked = {} /\ conds = {} /\ status = "selector"
      /\ prev_feed_dict = [i \in DOMAIN tab_names |-> <<>>]
  BY DEF Init
<1>6. TypeOK
  BY <1>1, <1>2, <1>3, <1>4, <1>5 DEF TypeOK
<1>7. conds = {cond \in checked : ~ Solved(cond, First(0))}
  BY <1>2, <1>5 DEF Solved
<1>8. \A j \in 1..(Len(rows) + 1) : DOMAIN prev_feed_dict[j] = First(j - 1)
  BY <1>2, <1>3, <1>4, <1>5
<1> QED
  BY <1>3, <1>4, <1>5, <1>6, <1>7, <1>8 DEF PlanInv, StopsOnlyForForeignTable

LEMMA SelectorLemma ==
  ASSUME PlanInv, ParseSelector
  PROVE  PlanInv'
<1>1. status' \in {"error", "where"} /\ status = "selector"
  BY DEF ParseSelector
<1>2. UNCHANGED <<tab_names, where, checked, conds, scans, rows, prev_feed_dict>>
  BY DEF ParseSelector, statement
<1>3. \A i : First(i)' = First(i) /\ Popped(i)' = Popped(i)
  BY <1>2 DEF First, Popped
<1>4. TypeOK'
  BY <1>1, <1>2 DEF TypeOK, PlanInv
<1> QED
  BY <1>1, <1>2, <1>3, <1>4, ZenonT(60) DEF PlanInv, StopsOnlyForForeignTable

\* check_column throws or finds a column that exists, if not always one of a table of
\* the statement.
LEMMA ColumnLemma ==
  ASSUME tab_names \in Seq(Tables), NEW target \in Written
  PROVE  check_column(tab_names, target) \in {NoCol} \cup AllCols
<1> DEFINE named(i) == {k \in DOMAIN Schema[tab_names[i]] :
                          Schema[tab_names[i]][k].name = target.col_name}
           found == UNION {{<<i, k>> : k \in named(i)} : i \in DOMAIN tab_names}
<1>1. CASE target.tab_name = "" /\ Cardinality(found) = 1
  <2>1. found # {}
    <3>1. Cardinality({}) = 0
      BY FS_EmptySet
    <3>2. 0 # 1
      BY SMTT(30)
    <3> QED
      BY <1>1, <3>1, <3>2
  <2> DEFINE p == CHOOSE p \in found : TRUE
  <2>2. p \in found
    BY <2>1
  <2>3. PICK i \in DOMAIN tab_names : \E k \in named(i) : p = <<i, k>>
    BY <2>2
  <2>4. PICK k \in named(i) : p = <<i, k>>
    BY <2>3
  <2>5. tab_names[i] \in Tables
    BY SMTT(30)
  <2>6. check_column(tab_names, target) = TabCol(tab_names[p[1]], target.col_name)
    BY <1>1 DEF check_column
  <2> HIDE DEF p
  <2>7. check_column(tab_names, target) \in ColsOf(tab_names[i])
    BY <2>4, <2>6 DEF ColsOf
  <2> QED
    BY <2>5, <2>7 DEF AllCols
<1>2. CASE target.tab_name = "" /\ Cardinality(found) # 1
  <2>1. check_column(tab_names, target) = NoCol
    BY <1>2 DEF check_column
  <2> QED
    BY <2>1
<1>3. CASE target.tab_name # ""
  <2>1. target = TabCol(target.tab_name, target.col_name)
    BY DEF Written, TabCol
  <2>2. is_col(target.tab_name, target.col_name) => target \in AllCols
    BY <2>1, QueryPlanAssumption DEF is_col
  <2>3. check_column(tab_names, target) =
          IF target.tab_name \in Tables /\ is_col(target.tab_name, target.col_name)
          THEN target ELSE NoCol
    BY <1>3 DEF check_column
  <2> QED
    BY <2>2, <2>3
<1> QED
  BY <1>1, <1>2, <1>3

\* What check_where_clause lets pass is on columns that exist.
LEMMA CheckedLemma ==
  ASSUME tab_names \in Seq(Tables), NEW cond \in CondsOn(Written), ~ Rejected(CheckedCond(cond))
  PROVE  CheckedCond(cond) \in CondsOn(AllCols)
<1> DEFINE new(c) == check_column(tab_names, c)
<1>1. \A c \in Written : new(c) \in {NoCol} \cup AllCols
  BY ColumnLemma
<1> HIDE DEF new
<1>2. CASE \E c \in Written, op \in CompOp, v \in Values : cond = ValCond(c, op, v)
  <2> PICK c \in Written, op \in CompOp, v \in Values : cond = ValCond(c, op, v)
    BY <1>2
  <2>1. CheckedCond(cond) = ValCond(new(c), op, v)
    <3>1. cond.lhs_col = c /\ cond.is_rhs_val = TRUE /\ cond.rhs_col = NoCol
      BY DEF ValCond
    <3>2. CheckedCond(cond) = [cond EXCEPT !.lhs_col = new(c), !.rhs_col = NoCol]
      BY <3>1 DEF CheckedCond, new
    <3> QED
      BY <3>2 DEF ValCond
  <2>2. ValCond(new(c), op, v).lhs_col = new(c)
    BY DEF ValCond
  <2>3. new(c) \in AllCols
    BY <1>1, <2>1, <2>2 DEF Rejected
  <2> QED
    BY <2>1, <2>3, SMTT(30) DEF CondsOn
<1>3. CASE \E c \in Written, op \in CompOp, d \in Written : cond = ColCond(c, op, d)
  <2> PICK c \in Written, op \in CompOp, d \in Written : cond = ColCond(c, op, d)
    BY <1>3
  <2>1. CheckedCond(cond) = ColCond(new(c), op, new(d))
    <3>1. cond.lhs_col = c /\ cond.is_rhs_val = FALSE /\ cond.rhs_col = d
      BY DEF ColCond
    <3>2. CheckedCond(cond) = [cond EXCEPT !.lhs_col = new(c), !.rhs_col = new(d)]
      BY <3>1 DEF CheckedCond, new
    <3> QED
      BY <3>2 DEF ColCond
  <2>2. LET col == ColCond(new(c), op, new(d)) IN
        col.lhs_col = new(c) /\ col.rhs_col = new(d) /\ col.is_rhs_val = FALSE
    BY DEF ColCond
  <2>3. new(c) \in AllCols /\ new(d) \in AllCols
    BY <1>1, <2>1, <2>2 DEF Rejected
  <2> QED
    BY <2>1, <2>3, SMTT(30) DEF CondsOn
<1>4. cond \in {ValCond(c, op, v) : c \in Written, op \in CompOp, v \in Values}
                \cup {ColCond(c, op, d) : c \in Written, op \in CompOp, d \in Written}
  BY SMTT(30) DEF CondsOn
<1> QED
  BY <1>2, <1>3, <1>4, SMTT(30)

LEMMA WhereLemma ==
  ASSUME PlanInv, check_where_clause
  PROVE  PlanInv'
<1> DEFINE res_conds == {CheckedCond(cond) : cond \in where}
<1>1. /\ status = "where" /\ status' \in {"error", "scans"} /\ TypeOK /\ Len(rows) = 0
      /\ Len(scans) = 0 /\ checked = {} /\ conds = {} /\ scans \in Seq(Range(scans))
      /\ \A j \in 1..(Len(rows) + 1) : DOMAIN prev_feed_dict[j] = First(j - 1)
  BY DEF check_where_clause, PlanInv
<1>2. UNCHANGED <<tab_names, where, scans, rows, prev_feed_dict>>
  BY DEF check_where_clause, statement
<1>3. DOMAIN scans = {} /\ First(0) = {}
  <2>1. DOMAIN scans = 1..0 /\ First(0) = {}
    BY <1>1, FirstLemma DEF TypeOK
  <2> QED
    BY <2>1, SMTT(30)
<1>4. checked' \subseteq CondsOn(AllCols) /\ conds' = checked'
  <2>1. CASE \E cond \in res_conds : Rejected(cond)
    <3>1. checked' = {} /\ conds' = {}
      BY <1>1, <2>1 DEF check_where_clause
    <3> QED
      BY <3>1
  <2>2. CASE \A cond \in res_conds : ~ Rejected(cond)
    <3>1. checked' = res_conds /\ conds' = res_conds
      BY <2>2 DEF check_where_clause
    <3>2. ASSUME NEW cond \in where PROVE CheckedCond(cond) \in CondsOn(AllCols)
      <4>1. cond \in CondsOn(Written) /\ ~ Rejected(CheckedCond(cond))
        BY <1>1, <2>2 DEF TypeOK
      <4> QED
        BY <1>1, <4>1, CheckedLemma DEF TypeOK
    <3> QED
      BY <3>1, <3>2
  <2> QED
    BY <2>1, <2>2
<1>5. TypeOK'
  BY <1>1, <1>2, <1>4 DEF TypeOK
<1>6. \A i : First(i)' = First(i)
  BY <1>2 DEF First
<1>7. (conds = {cond \in checked : ~ Solved(cond, First(Len(scans)))})'
  BY <1>1, <1>2, <1>3, <1>4, <1>6 DEF Solved
<1> QED
  BY <1>1, <1>2, <1>3, <1>5, <1>6, <1>7 DEF PlanInv, StopsOnlyForForeignTable

LEMMA ScanLemma ==
  ASSUME PlanInv, MakeScan
  PROVE  PlanInv'
<1> DEFINE i == Len(scans) + 1
           new == SeqScan(tab_names[i], Popped(i))
<1>1. /\ TypeOK /\ status = "scans" /\ scans \in Seq(Range(scans)) /\ Len(rows) = 0
      /\ Len(scans) < Len(tab_names) /\ conds = {cond \in checked : ~ Solved(cond, First(Len(scans)))}
  BY DEF PlanInv, MakeScan
<1>2. Len(tab_names) \in Nat /\ DOMAIN tab_names = 1..Len(tab_names)
  BY <1>1, FirstLemma DEF TypeOK
<1>3. Len(scans) \in Nat /\ DOMAIN scans = 1..Len(scans)
  BY <1>1, AppendLemma
<1>4. /\ i \in Nat /\ i \in DOMAIN tab_names /\ i - 1 = Len(scans) /\ i \in 0..Len(tab_names)
      /\ 1..i = 1..Len(scans) \cup {i} /\ i \notin 1..Len(scans)
  BY <1>1, <1>2, <1>3, SMTT(30)
<1>5. First(i) = First(Len(scans)) \cup {tab_names[i]}
  BY <1>1, <1>4, FirstLemma DEF TypeOK
<1>6. pop_conds(conds, First(i)).solved = Popped(i)
  BY <1>1, <1>4 DEF pop_conds, Popped
<1>7. pop_conds(conds, First(i)).left = {cond \in checked : ~ Solved(cond, First(i))}
  BY <1>1, <1>5 DEF pop_conds, Solved
<1>8. \A cond \in Popped(i) : CanTurn(cond, tab_names[i])
  BY <1>1, <1>4, PoppedLemma
<1>9. /\ conds' = {cond \in checked : ~ Solved(cond, First(i))} /\ scans' = Append(scans, new)
      /\ status' = status
  BY <1>6, <1>7, <1>8 DEF MakeScan, StoreScan
<1>10. UNCHANGED <<tab_names, where, checked, rows, prev_feed_dict>>
  BY DEF MakeScan, statement
<1>11. \A k : First(k)' = First(k) /\ Popped(k)' = Popped(k)
  BY <1>10 DEF First, Popped
<1>12. /\ {"tab_name", "conds", "fed_conds"} \subseteq DOMAIN new /\ new.tab_name = tab_names[i]
       /\ new.conds = {Turned(cond, tab_names[i]) : cond \in Popped(i)}
       /\ new.fed_conds = new.conds
  BY DEF SeqScan
<1> HIDE DEF new
<1>13. /\ scans' \in Seq(Range(scans')) /\ Len(scans') = i /\ DOMAIN scans' = 1..i
       /\ \A k \in 1..Len(scans) : scans'[k] = scans[k]
       /\ scans'[i] = new
  <2>1. /\ Append(scans, new) \in Seq(Range(Append(scans, new)))
        /\ Len(Append(scans, new)) = i /\ DOMAIN Append(scans, new) = 1..i
        /\ \A k \in 1..Len(scans) : Append(scans, new)[k] = scans[k]
        /\ Append(scans, new)[i] = new
    BY <1>1, AppendLemma, SMTT(30)
  <2> HIDE DEF i
  <2> QED
    BY <1>9, <2>1
<1> HIDE DEF i
<1>14. TypeOK'
  BY <1>1, <1>3, <1>4, <1>9, <1>10, <1>12, <1>13, ZenonT(60) DEF TypeOK
<1>15. \A k \in DOMAIN scans' :
         /\ {"tab_name", "conds", "fed_conds"} \subseteq DOMAIN scans'[k]
         /\ scans'[k].conds = {Turned(cond, tab_names[k]) : cond \in Popped(k)}
         /\ scans'[k].fed_conds = scans'[k].conds
  <2> TAKE k \in DOMAIN scans'
  <2>1. CASE k = i
    BY <1>12, <1>13, <2>1
  <2>2. CASE k \in 1..Len(scans)
    BY <1>1, <1>3, <1>13, <2>2 DEF PlanInv
  <2> QED
    BY <1>4, <1>13, <2>1, <2>2
<1>16. status' = "scans" /\ Len(rows') = 0
       /\ \A j \in 1..(Len(rows) + 1) : DOMAIN prev_feed_dict[j] = First(j - 1)
  BY <1>1, <1>9, <1>10 DEF PlanInv
<1>17. (conds = {cond \in checked : ~ Solved(cond, First(Len(scans)))})'
  BY <1>9, <1>10, <1>11, <1>13
<1>18. (\A k \in DOMAIN scans : scans[k].conds = {Turned(cond, tab_names[k]) : cond \in Popped(k)})'
  BY <1>10, <1>11, <1>15
<1>19. (\A j \in 1..(Len(rows) + 1) : DOMAIN prev_feed_dict[j] = First(j - 1))'
  BY <1>10, <1>11, <1>16
<1> QED
  BY <1>13, <1>14, <1>15, <1>16, <1>17, <1>18, <1>19 DEF PlanInv, StopsOnlyForForeignTable

\* What the first scan compares when nobody has fed it.
LEMMA FirstScan ==
  ASSUME TypeOK, NEW cond \in {Turned(c, tab_names[1]) : c \in Popped(1)}, NEW feed_dict
  PROVE  /\ cond.lhs_col.tab_name = tab_names[1]
         /\ cond.is_rhs_val \/ cond.rhs_col.tab_name = tab_names[1]
         /\ FedCond(cond, tab_names[1], feed_dict) = cond
<1>1. 1 \in DOMAIN tab_names /\ 1 - 1 = 0 /\ First(0) = {}
  <2>1. Len(tab_names) \in Nat /\ DOMAIN tab_names = 1..Len(tab_names) /\ First(0) = {}
    BY FirstLemma DEF TypeOK
  <2> QED
    BY <2>1, SMTT(30) DEF TypeOK
<1>2. PICK c \in Popped(1) : cond = Turned(c, tab_names[1])
  OBVIOUS
<1>3. /\ cond \in Condition(Cols) /\ cond.lhs_col.tab_name = tab_names[1]
      /\ cond.is_rhs_val \/ cond.rhs_col.tab_name \in {tab_names[1]} \cup First(1 - 1)
  BY <1>1, <1>2, PoppedLemma
<1>4. cond.is_rhs_val \/ cond.rhs_col.tab_name = tab_names[1]
  BY <1>1, <1>3
<1> QED
  BY <1>3, <1>4, FedForm

LEMMA PlanLemma ==
  ASSUME PlanInv, MakePlan
  PROVE  PlanInv'
<1>1. /\ TypeOK /\ status = "scans" /\ Len(rows) = 0 /\ Len(scans) = Len(tab_names)
      /\ conds = {cond \in checked : ~ Solved(cond, First(Len(scans)))}
      /\ \A i \in DOMAIN scans : /\ scans[i].fed_conds = scans[i].conds
                                /\ scans[i].conds = {Turned(cond, tab_names[i]) : cond \in Popped(i)}
  BY DEF PlanInv, MakePlan
<1>2. conds = {cond \in checked : ~ Solved(cond, Range(tab_names))}
  <2>1. First(Len(tab_names)) = Range(tab_names)
    BY <1>1, FirstLemma DEF TypeOK
  <2> QED
    BY <1>1, <2>1
<1>3. 1 \in DOMAIN scans /\ scans[1].tab_name = tab_names[1]
  BY <1>1, SMTT(30) DEF TypeOK
<1>4. check_runtime_conds(scans[1])
  BY <1>1, <1>3, FirstScan DEF check_runtime_conds
<1>5. /\ UNCHANGED <<tab_names, where, checked, conds, scans, rows, prev_feed_dict>>
      /\ status' \in {"conds_left", "error", "run"}
      /\ status' = "conds_left" => conds # {}
      /\ status' = "run" => conds = {}
  BY <1>4 DEF MakePlan, statement
<1>6. StopsOnlyForForeignTable'
  <2>1. Range(tab_names)' = Range(tab_names) /\ checked' = checked
    BY <1>5
  <2> QED
    BY <1>2, <1>5, <2>1 DEF StopsOnlyForForeignTable
<1>7. \A i : First(i)' = First(i) /\ Popped(i)' = Popped(i)
  BY <1>5 DEF First, Popped
<1>8. TypeOK'
  BY <1>1, <1>5 DEF TypeOK
<1> QED
  BY <1>1, <1>5, <1>6, <1>7, <1>8, ZenonT(60) DEF PlanInv

\* A join that feeds its right side stops nowhere: what the scan there compares with
\* other tables is in feed_dict.
LEMMA FeedLemma ==
  ASSUME PlanInv, status = "run", NEW j \in 1..(Len(tab_names) - 1), j <= Len(rows) + 1,
         NEW tuple \in Tuples(tab_names[j]), feed_right(j, tuple)
  PROVE  LET feed_dict == Inserted(prev_feed_dict[j], tab_names[j], tuple) IN
         /\ PlanInv' /\ status' = "run" /\ UNCHANGED <<tab_names, where, checked>>
         /\ Len(rows') = j /\ \A i \in 1..j : rows'[i] = IF i < j THEN rows[i] ELSE tuple
         /\ scans' = [scans EXCEPT ![j + 1] = feed(scans[j + 1], feed_dict)]
         /\ prev_feed_dict' = [prev_feed_dict EXCEPT ![j + 1] = feed_dict]
<1> DEFINE feed_dict == Inserted(prev_feed_dict[j], tab_names[j], tuple)
           right == scans[j + 1]
           fed == feed(right, feed_dict)
           t == tab_names[j + 1]
<1>1. TypeOK /\ Len(scans) = Len(tab_names) /\ scans \in Seq(Range(scans))
  BY DEF PlanInv
<1>2. /\ Len(tab_names) \in Nat /\ DOMAIN tab_names = 1..Len(tab_names)
      /\ \A i \in DOMAIN tab_names : First(i) = First(i - 1) \cup {tab_names[i]}
  BY <1>1, FirstLemma DEF TypeOK
<1>3. Len(rows) \in Nat /\ DOMAIN scans = 1..Len(tab_names)
  BY <1>1, SMTT(30) DEF TypeOK
<1>4. /\ j \in Nat /\ j \in DOMAIN tab_names /\ j + 1 \in DOMAIN tab_names
      /\ j + 1 \in DOMAIN scans /\ (j + 1) - 1 = j /\ j \in 1..(Len(rows) + 1)
      /\ \A i \in 1..j : i < j => i \in 1..Len(rows)
      /\ \A i \in 1..j : i \in 1..(Len(rows) + 1) /\ i # j + 1
      /\ \A i \in 1..j : ~ (i < j) => i = j
      /\ 1..(j + 1) = 1..j \cup {j + 1} /\ j \in 0..(Len(tab_names) - 1)
  BY <1>2, <1>3, SMTT(30)
<1>5. DOMAIN feed_dict = First(j)
  BY <1>2, <1>4 DEF Inserted, PlanInv
<1>6. /\ right.tab_name = t /\ {"tab_name", "conds", "fed_conds"} \subseteq DOMAIN right
      /\ right.conds = {Turned(cond, t) : cond \in Popped(j + 1)}
  BY <1>1, <1>4 DEF PlanInv, TypeOK
<1>7. /\ DOMAIN fed = DOMAIN right /\ fed.tab_name = t /\ fed.conds = right.conds
      /\ fed.fed_conds = {FedCond(cond, t, feed_dict) : cond \in right.conds}
  BY <1>6 DEF feed
<1> HIDE DEF right, fed, feed_dict
<1>8. ASSUME NEW cond \in right.conds
      PROVE  /\ cond.is_rhs_val \/ cond.rhs_col.tab_name \in {t} \cup First(j)
             /\ FedCond(cond, t, feed_dict).lhs_col.tab_name = t
             /\ \/ FedCond(cond, t, feed_dict).is_rhs_val
                \/ FedCond(cond, t, feed_dict).rhs_col.tab_name = t
  <2>1. PICK c \in Popped(j + 1) : cond = Turned(c, t)
    BY <1>6
  <2>2. /\ cond \in Condition(Cols) /\ cond.lhs_col.tab_name = t
        /\ cond.is_rhs_val \/ cond.rhs_col.tab_name \in {t} \cup First((j + 1) - 1)
    BY <1>1, <1>4, <2>1, PoppedLemma
  <2>3. /\ FedCond(cond, t, feed_dict).lhs_col = cond.lhs_col
        /\ \/ FedCond(cond, t, feed_dict).is_rhs_val
           \/ FedCond(cond, t, feed_dict).rhs_col.tab_name = t
    BY <2>2, FedForm, SMTT(30)
  <2> QED
    BY <1>4, <2>2, <2>3
<1>9. CanFeed(right, feed_dict)
  BY <1>5, <1>6, <1>8 DEF CanFeed
<1>10. check_runtime_conds(fed)
  <2> SUFFICES ASSUME NEW d \in fed.fed_conds
               PROVE  d.lhs_col.tab_name = t /\ (d.is_rhs_val \/ d.rhs_col.tab_name = t)
    BY <1>7 DEF check_runtime_conds
  <2>1. PICK cond \in right.conds : d = FedCond(cond, t, feed_dict)
    BY <1>7
  <2> QED
    BY <1>8, <2>1
<1>11. /\ status' = "run" /\ scans' = [scans EXCEPT ![j + 1] = fed]
       /\ prev_feed_dict' = [prev_feed_dict EXCEPT ![j + 1] = feed_dict]
       /\ rows' = [i \in 1..j |-> IF i < j THEN rows[i] ELSE tuple]
  BY <1>9, <1>10 DEF feed_right, right, fed, feed_dict
<1>12. UNCHANGED <<tab_names, where, checked, conds>>
  BY DEF feed_right, statement
<1>13. Len(rows') = j /\ DOMAIN rows' = 1..j /\ \A i \in 1..j : rows'[i] = IF i < j THEN rows[i] ELSE tuple
  BY <1>4, <1>11, SMTT(30)
<1>14. /\ scans' \in Seq(Range(scans')) /\ Len(scans') = Len(scans) /\ DOMAIN scans' = DOMAIN scans
       /\ \A i \in DOMAIN scans : i # j + 1 => scans'[i] = scans[i]
       /\ scans'[j + 1] = fed
  <2> DEFINE n == Len(tab_names)
  <2>1. /\ DOMAIN scans' = 1..n /\ scans' = [i \in 1..n |-> scans'[i]]
        /\ \A i \in DOMAIN scans : i # j + 1 => scans'[i] = scans[i]
        /\ scans'[j + 1] = fed
    BY <1>3, <1>4, <1>11
  <2>2. \A i \in 1..n : scans'[i] \in Range(scans')
    BY <2>1 DEF Range
  <2>3. n \in Nat
    BY <1>2
  <2> HIDE DEF n
  <2>4. scans' \in Seq(Range(scans')) /\ Len(scans') = n
    BY <2>1, <2>2, <2>3, SMTT(30)
  <2> QED
    BY <1>1, <1>3, <2>1, <2>4 DEF n
<1>15. /\ DOMAIN prev_feed_dict = DOMAIN tab_names /\ DOMAIN prev_feed_dict' = DOMAIN tab_names
       /\ prev_feed_dict'[j + 1] = feed_dict
       /\ \A i \in 1..j : prev_feed_dict'[i] = prev_feed_dict[i]
  <2>1. DOMAIN prev_feed_dict = DOMAIN tab_names
    BY <1>1 DEF TypeOK
  <2>2. 1..j \subseteq DOMAIN tab_names
    BY <1>2, SMTT(30)
  <2> QED
    BY <1>4, <1>11, <2>1, <2>2
<1>16. \A i : First(i)' = First(i) /\ Popped(i)' = Popped(i)
  BY <1>12 DEF First, Popped
<1>17. TypeOK'
  <2>1. \A i \in 1..j : rows'[i] \in Tuples(tab_names[i])
    BY <1>1, <1>4, <1>13 DEF TypeOK
  <2>2. \A i \in DOMAIN scans' : scans'[i].tab_name = tab_names[i]
    BY <1>1, <1>7, <1>14 DEF TypeOK
  <2>3. DOMAIN scans' = 1..Len(scans') /\ Len(scans') \in 0..Len(tab_names)
    BY <1>1, <1>14 DEF TypeOK
  <2>4. (/\ DOMAIN rows = 1..Len(rows) /\ Len(rows) \in 0..(Len(tab_names) - 1)
         /\ \A i \in DOMAIN rows : rows[i] \in Tuples(tab_names[i]))'
    BY <1>4, <1>12, <1>13, <2>1
  <2> QED
    BY <1>1, <1>11, <1>12, <1>15, <2>2, <2>3, <2>4 DEF TypeOK
<1>18. \A i \in DOMAIN scans' :
         /\ {"tab_name", "conds", "fed_conds"} \subseteq DOMAIN scans'[i]
         /\ scans'[i].conds = {Turned(cond, tab_names[i]) : cond \in Popped(i)}
  <2> TAKE i \in DOMAIN scans'
  <2>1. CASE i = j + 1
    BY <1>6, <1>7, <1>14, <2>1
  <2>2. CASE i # j + 1
    BY <1>14, <2>2 DEF PlanInv
  <2> QED
    BY <2>1, <2>2
<1>19. \A i \in 1..(j + 1) : DOMAIN prev_feed_dict'[i] = First(i - 1)
  <2> TAKE i \in 1..(j + 1)
  <2>1. CASE i = j + 1
    BY <1>4, <1>5, <1>15, <2>1
  <2>2. CASE i \in 1..j
    BY <1>4, <1>15, <2>2 DEF PlanInv
  <2> QED
    BY <1>4, <2>1, <2>2
<1>20. conds' = {cond \in checked : ~ Solved(cond, First(Len(scans)))}
  BY <1>12 DEF PlanInv
<1>21. PlanInv'
  <2>1. (\A i \in DOMAIN scans : /\ {"tab_name", "conds", "fed_conds"} \subseteq DOMAIN scans[i]
                                /\ scans[i].conds = {Turned(cond, tab_names[i]) : cond \in Popped(i)})'
    BY <1>12, <1>16, <1>18
  <2>2. (\A i \in 1..(Len(rows) + 1) : DOMAIN prev_feed_dict[i] = First(i - 1))'
    BY <1>13, <1>16, <1>19
  <2>3. (conds = {cond \in checked : ~ Solved(cond, First(Len(scans)))})'
    BY <1>12, <1>14, <1>16, <1>20
  <2> QED
    BY <1>1, <1>11, <1>12, <1>14, <1>17, <2>1, <2>2, <2>3 DEF PlanInv, StopsOnlyForForeignTable
<1> QED
  BY <1>11, <1>12, <1>13, <1>21 DEF fed, right, feed_dict

LEMMA PlanStep ==
  ASSUME PlanInv, [Next]_vars
  PROVE  PlanInv'
<1>1. CASE MoveLeft
  <2> PICK j \in 1..(Len(tab_names) - 1) :
        /\ j <= Len(rows) + 1
        /\ \E tuple \in Tuples(tab_names[j]) : feed_right(j, tuple)
    BY <1>1 DEF MoveLeft
  <2> PICK tuple \in Tuples(tab_names[j]) : feed_right(j, tuple)
    OBVIOUS
  <2>1. status = "run"
    BY <1>1 DEF MoveLeft
  <2> QED
    BY <2>1, FeedLemma
<1>2. CASE UNCHANGED vars
  <2>1. UNCHANGED <<tab_names, where, checked, conds, scans, rows, prev_feed_dict, status>>
    BY <1>2 DEF vars
  <2>2. \A i : First(i)' = First(i) /\ Popped(i)' = Popped(i)
    BY <2>1 DEF First, Popped
  <2>3. TypeOK'
    BY <2>1 DEF TypeOK, PlanInv
  <2> QED
    BY <2>1, <2>2, <2>3, ZenonT(60) DEF PlanInv, StopsOnlyForForeignTable
<1> QED
  BY <1>1, <1>2, SelectorLemma, WhereLemma, ScanLemma, PlanLemma DEF Next

\* At every moment the conditions not handed out yet are those that the tables so far
\* do not decide, each scan holds those that its table completes, and the joins keep a
\* tuple of every table before a scan to feed to it.
THEOREM PlanInvariant == Spec => []PlanInv
<1>1. Init => PlanInv
  BY InitLemma
<1>2. PlanInv /\ [Next]_vars => PlanInv'
  BY PlanStep
<1> QED
  BY <1>1, <1>2, PTL DEF Spec

\* No assertion of the constructor of SeqScanExecutor or of check_runtime_conds fails and
\* feed_dict.at never throws, whatever columns is_col finds and whatever the statement,
\* even when it names a table twice; and the assertion of select_from, that no
\* condition is left, fails for a where clause with a column of a table that is not in
\* the statement and for no other.
THEOREM QueriesStopOnlyForForeignTable == Spec => []StopsOnlyForForeignTable
<1>1. PlanInv => StopsOnlyForForeignTable
  BY DEF PlanInv
<1> QED
  BY <1>1, PlanInvariant, PTL

-----------------------------------------------------------------------------
\* What scan j has been fed is what the tables before it are at.
FedAt(j) ==
  /\ \A i \in 1..(j - 1) : prev_feed_dict[j][tab_names[i]] = rows[i]
  /\ scans[j].fed_conds =
       {FedCond(cond, tab_names[j], prev_feed_dict[j]) : cond \in scans[j].conds}

FedInv ==
  /\ IsInjective(tab_names)
  /\ status = "run" => \A j \in 1..(Len(rows) + 1) : FedAt(j)

LEMMA FedStep ==
  ASSUME PlanInv, FedInv, [Next]_vars
  PROVE  FedInv'
<1>1. CASE MoveLeft
  <2> PICK j \in 1..(Len(tab_names) - 1) :
        /\ j <= Len(rows) + 1
        /\ \E tuple \in Tuples(tab_names[j]) : feed_right(j, tuple)
    BY <1>1 DEF MoveLeft
  <2> PICK tuple \in Tuples(tab_names[j]) : feed_right(j, tuple)
    OBVIOUS
  <2> DEFINE feed_dict == Inserted(prev_feed_dict[j], tab_names[j], tuple)
  <2>1. status = "run"
    BY <1>1 DEF MoveLeft
  <2>2. /\ UNCHANGED tab_names
        /\ Len(rows') = j /\ \A i \in 1..j : rows'[i] = IF i < j THEN rows[i] ELSE tuple
        /\ scans' = [scans EXCEPT ![j + 1] = feed(scans[j + 1], feed_dict)]
        /\ prev_feed_dict' = [prev_feed_dict EXCEPT ![j + 1] = feed_dict]
    BY <2>1, FeedLemma
  <2>3. /\ Len(tab_names) \in Nat /\ DOMAIN tab_names = 1..Len(tab_names)
        /\ Len(rows) \in Nat /\ DOMAIN scans = 1..Len(tab_names)
        /\ DOMAIN prev_feed_dict = 1..Len(tab_names)
    BY <2>1, SMTT(30) DEF PlanInv, TypeOK
  <2>4. /\ j \in Nat /\ j \in DOMAIN tab_names /\ j + 1 \in 1..Len(tab_names)
        /\ j \in 1..(Len(rows) + 1) /\ (j + 1) - 1 = j /\ 1..(j + 1) = 1..j \cup {j + 1}
        /\ \A k \in 1..j : /\ k # j + 1 /\ k \in 1..(Len(rows) + 1) /\ k \in 1..Len(tab_names)
                           /\ \A i \in 1..(k - 1) : i \in 1..j /\ i < j
        /\ \A i \in 1..j : i \in DOMAIN tab_names /\ ((i = j /\ ~ (i < j)) \/ (i # j /\ i < j /\ i \in 1..(j - 1)))
    BY <2>3, SMTT(30)
  <2>5. ASSUME NEW k \in 1..j PROVE FedAt(k)'
    <3>1. scans'[k] = scans[k] /\ prev_feed_dict'[k] = prev_feed_dict[k]
      BY <2>2, <2>3, <2>4
    <3>2. \A i \in 1..(k - 1) : rows'[i] = rows[i]
      BY <2>2, <2>4
    <3>3. FedAt(k)
      BY <2>1, <2>4 DEF FedInv
    <3> QED
      BY <2>2, <3>1, <3>2, <3>3, SMTT(30) DEF FedAt
  <2>6. /\ scans'[j + 1] = feed(scans[j + 1], feed_dict)
        /\ prev_feed_dict'[j + 1] = feed_dict
    BY <2>2, <2>3, <2>4
  <2>7. ASSUME NEW i \in 1..j PROVE feed_dict[tab_names[i]] = rows'[i]
    <3>1. DOMAIN prev_feed_dict[j] = First(j - 1)
      BY <2>4 DEF PlanInv
    <3>2. CASE i = j
      <4>1. tab_names[j] \notin First(j - 1)
        <5> SUFFICES ASSUME NEW k \in 1..(j - 1), tab_names[k] = tab_names[j] PROVE FALSE
          BY DEF First
        <5>1. k \in DOMAIN tab_names /\ k # j
          BY <2>3, <2>4, SMTT(30)
        <5> QED
          BY <2>4, <5>1 DEF FedInv, IsInjective
      <4> QED
        BY <2>2, <2>4, <3>1, <3>2, <4>1 DEF Inserted
    <3>3. CASE i # j
      <4>1. tab_names[i] \in First(j - 1) /\ i \in 1..(j - 1) /\ i < j
        BY <2>4, <3>3 DEF First
      <4>2. prev_feed_dict[j][tab_names[i]] = rows[i]
        BY <2>1, <2>4, <4>1 DEF FedInv, FedAt
      <4> QED
        BY <2>2, <3>1, <4>1, <4>2 DEF Inserted
    <3> QED
      BY <3>2, <3>3
  <2> HIDE DEF feed_dict
  <2> DEFINE right == scans[j + 1]
  <2>8. right.tab_name = tab_names[j + 1] /\ "conds" \in DOMAIN right /\ "fed_conds" \in DOMAIN right
    <3>1. j + 1 \in DOMAIN scans
      BY <2>3, <2>4
    <3> QED
      BY <3>1 DEF PlanInv, TypeOK
  <2> HIDE DEF right
  <2>9. scans'[j + 1].fed_conds =
          {FedCond(cond, tab_names[j + 1], feed_dict) : cond \in scans'[j + 1].conds}
    <3>1. LET fed == feed(right, feed_dict) IN
          /\ fed.conds = right.conds
          /\ fed.fed_conds = {FedCond(cond, tab_names[j + 1], feed_dict) : cond \in right.conds}
      BY <2>8 DEF feed
    <3> QED
      BY <2>6, <3>1 DEF right
  <2>10. FedAt(j + 1)'
    <3>1. \A i \in 1..((j + 1) - 1) : prev_feed_dict'[j + 1][tab_names'[i]] = rows'[i]
      BY <2>2, <2>4, <2>6, <2>7
    <3>2. scans'[j + 1].fed_conds =
            {FedCond(cond, tab_names'[j + 1], prev_feed_dict'[j + 1]) : cond \in scans'[j + 1].conds}
      BY <2>2, <2>6, <2>9, SMTT(30)
    <3> QED
      BY <3>1, <3>2, SMTT(30) DEF FedAt
  <2>11. \A k \in 1..(j + 1) : FedAt(k)'
    BY <2>4, <2>5, <2>10
  <2>12. IsInjective(tab_names)'
    BY <2>2 DEF FedInv
  <2> QED
    BY <2>2, <2>11, <2>12 DEF FedInv
<1>2. CASE MakePlan
  <2>1. /\ status = "scans" /\ UNCHANGED <<tab_names, scans, rows, prev_feed_dict>> /\ Len(rows) = 0
        /\ TypeOK /\ Len(scans) = Len(tab_names)
        /\ \A i \in DOMAIN scans : /\ scans[i].fed_conds = scans[i].conds
                                  /\ scans[i].conds = {Turned(cond, tab_names[i]) : cond \in Popped(i)}
    BY <1>2 DEF MakePlan, PlanInv, statement
  <2>2. 1 \in DOMAIN scans /\ \A j \in 1..(0 + 1) : j = 1 /\ 1..(j - 1) = {}
    BY <2>1, SMTT(30) DEF TypeOK
  <2>3. \A cond \in scans[1].conds : FedCond(cond, tab_names[1], prev_feed_dict[1]) = cond
    BY <2>1, <2>2, FirstScan
  <2>4. scans[1].fed_conds = {FedCond(cond, tab_names[1], prev_feed_dict[1]) : cond \in scans[1].conds}
    <3> DEFINE S == scans[1].conds
    <3> HIDE DEF S
    <3>1. \A cond \in S : FedCond(cond, tab_names[1], prev_feed_dict[1]) = cond
      BY <2>3 DEF S
    <3>2. S = {FedCond(cond, tab_names[1], prev_feed_dict[1]) : cond \in S}
      BY <3>1
    <3> QED
      BY <2>1, <2>2, <3>2 DEF S
  <2>5. \A j \in 1..(Len(rows) + 1) : FedAt(j)
    <3>1. FedAt(1)
      BY <2>2, <2>4, SMTT(30) DEF FedAt
    <3> QED
      BY <2>1, <2>2, <3>1
  <2>6. IsInjective(tab_names)' /\ Len(rows)' = Len(rows)
    BY <2>1 DEF FedInv
  <2>7. \A j : FedAt(j)' <=> FedAt(j)
    BY <2>1, SMTT(30) DEF FedAt
  <2> QED
    BY <2>5, <2>6, <2>7 DEF FedInv
<1>3. CASE ParseSelector \/ check_where_clause \/ MakeScan
  <2>1. UNCHANGED tab_names /\ status' # "run"
    <3>1. CASE ParseSelector
      BY <3>1 DEF ParseSelector, statement
    <3>2. CASE check_where_clause
      BY <3>2 DEF check_where_clause, statement
    <3>3. CASE MakeScan
      BY <3>3 DEF MakeScan, StoreScan, statement
    <3> QED
      BY <1>3, <3>1, <3>2, <3>3
  <2>2. IsInjective(tab_names)'
    BY <2>1 DEF FedInv
  <2> QED
    BY <2>1, <2>2 DEF FedInv
<1>4. CASE UNCHANGED vars
  <2>1. UNCHANGED <<tab_names, scans, rows, prev_feed_dict, status>>
    BY <1>4 DEF vars
  <2>2. IsInjective(tab_names)' /\ Len(rows)' = Len(rows)
    BY <2>1 DEF FedInv
  <2>3. \A j : FedAt(j)' <=> FedAt(j)
    BY <2>1, SMTT(30) DEF FedAt
  <2> QED
    BY <2>1, <2>2, <2>3 DEF FedInv
<1> QED
  BY <1>1, <1>2, <1>3, <1>4 DEF Next

LEMMA LeastOf ==
  ASSUME NEW S \in SUBSET Nat, S # {}
  PROVE  \E x \in S : \A y \in S : ~ (y < x)
<1> DEFINE R == OpToRel(<, Nat)
<1>1. IsWellFoundedOn(R, Nat)
  BY NatLessThanWellFounded
<1>2. PICK x \in S : \A y \in S : <<y, x>> \notin R
  <2> HIDE DEF R
  <2> QED
    BY <1>1, WFMin, ZenonT(60)
<1>3. ASSUME NEW y \in S, y < x PROVE FALSE
  <2>1. <<y, x>> \in Nat \X Nat /\ <<y, x>>[1] = y /\ <<y, x>>[2] = x
    OBVIOUS
  <2> QED
    BY <1>2, <1>3, <2>1 DEF OpToRel
<1> QED
  BY <1>3

LEMMA FirstGrows ==
  ASSUME NEW n \in Nat, NEW i \in 1..n
  PROVE  First(i) \subseteq First(n)
<1>1. 1..i \subseteq 1..n
  BY SMTT(30)
<1> QED
  BY <1>1 DEF First

\* The conditions that the first n tables decide are shared out among their scans.
LEMMA SharedOut ==
  ASSUME TypeOK, NEW n \in DOMAIN tab_names,
         NEW cond \in checked, Solved(cond, First(n))
  PROVE  \E i \in 1..n : cond \in Popped(i)
<1> DEFINE S == {i \in 1..n : Solved(cond, First(i))}
<1>1. Len(tab_names) \in Nat /\ DOMAIN tab_names = 1..Len(tab_names) /\ First(0) = {}
  BY FirstLemma DEF TypeOK
<1>2. n \in Nat /\ n \in 1..n /\ 1..n \subseteq Nat
  BY <1>1, SMTT(30)
<1>3. S \in SUBSET Nat /\ n \in S
  BY <1>2
<1>4. PICK i \in S : \A y \in S : ~ (y < i)
  <2> HIDE DEF S
  <2> QED
    BY <1>3, LeastOf
<1>5. i \in 1..n /\ Solved(cond, First(i))
  BY <1>4
<1>6. i - 1 = 0 \/ (i - 1 \in 1..n /\ i - 1 < i)
  BY <1>2, <1>5, SMTT(30)
<1>7. ~ Solved(cond, First(0))
  BY <1>1 DEF Solved
<1>8. ~ Solved(cond, First(i - 1))
  BY <1>4, <1>6, <1>7
<1> QED
  BY <1>5, <1>8 DEF Popped

\* The tuples that the scans are at, and one of the innermost scan.
At(tuple) ==
  LET n == Len(rows) + 1
  IN  [t \in First(n) |-> IF t = tab_names[n] THEN tuple
                          ELSE rows[CHOOSE i \in 1..(n - 1) : tab_names[i] = t]]

LEMMA AtLemma ==
  ASSUME PlanInv, FedInv, NEW tuple \in Tuples(tab_names[Len(rows) + 1])
  PROVE  LET n == Len(rows) + 1 IN
         /\ n \in Nat /\ n \in DOMAIN tab_names /\ n - 1 = Len(rows)
         /\ 1..n \subseteq DOMAIN tab_names
         /\ \A i \in 1..n : At(tuple)[tab_names[i]] \in Tuples(tab_names[i])
         /\ \A i \in 1..(n - 1) : At(tuple)[tab_names[i]] = rows[i]
<1> DEFINE n == Len(rows) + 1
<1>1. /\ Len(rows) \in Nat /\ n \in Nat /\ n \in DOMAIN tab_names /\ n - 1 = Len(rows)
      /\ 1..n \subseteq DOMAIN tab_names /\ n \notin 1..(n - 1)
      /\ \A i \in 1..n : i = n \/ i \in 1..(n - 1)
      /\ \A i \in 1..(n - 1) : i \in 1..n /\ i \in DOMAIN tab_names /\ i \in DOMAIN rows
  BY SMTT(30) DEF PlanInv, TypeOK
<1>2. \A i \in DOMAIN rows : rows[i] \in Tuples(tab_names[i])
  BY DEF PlanInv, TypeOK
<1>3. \A i \in 1..n : tab_names[i] \in First(n)
  BY DEF First
<1>4. \A t \in First(n) : At(tuple)[t] = IF t = tab_names[n] THEN tuple
                                        ELSE rows[CHOOSE i \in 1..(n - 1) : tab_names[i] = t]
  BY DEF At
<1>5. IsInjective(tab_names)
  BY DEF FedInv
<1>6. tuple \in Tuples(tab_names[n])
  OBVIOUS
<1> HIDE DEF n
<1>7. ASSUME NEW i \in 1..(n - 1) PROVE At(tuple)[tab_names[i]] = rows[i]
  <2>1. tab_names[i] # tab_names[n]
    BY <1>1, <1>5 DEF IsInjective
  <2>2. \A k \in 1..(n - 1) : tab_names[k] = tab_names[i] => k = i
    BY <1>1, <1>5 DEF IsInjective
  <2> DEFINE k == CHOOSE k \in 1..(n - 1) : tab_names[k] = tab_names[i]
  <2>3. k \in 1..(n - 1) /\ tab_names[k] = tab_names[i]
    OBVIOUS
  <2>4. At(tuple)[tab_names[i]] = rows[k]
    BY <1>1, <1>3, <1>4, <2>1
  <2> HIDE DEF k
  <2> QED
    BY <2>2, <2>3, <2>4
<1>8. At(tuple)[tab_names[n]] = tuple
  <2>1. tab_names[n] \in First(n)
    BY <1>1, <1>3, SMTT(30)
  <2> QED
    BY <1>4, <2>1
<1>9. ASSUME NEW i \in 1..n PROVE At(tuple)[tab_names[i]] \in Tuples(tab_names[i])
  <2>1. CASE i = n
    BY <1>6, <1>8, <2>1
  <2>2. CASE i \in 1..(n - 1)
    BY <1>1, <1>2, <1>7, <2>2
  <2> QED
    BY <1>1, <2>1, <2>2
<1> QED
  BY <1>1, <1>7, <1>9 DEF n

\* A scan accepts its tuple if and only if it meets the conditions it was given.
LEMMA ScanAccepts ==
  ASSUME PlanInv, FedInv, status = "run", NEW tuple \in Tuples(tab_names[Len(rows) + 1]),
         NEW i \in 1..(Len(rows) + 1)
  PROVE  eval_conds(scans[i].fed_conds, At(tuple)) <=> eval_conds(Popped(i), At(tuple))
<1> DEFINE n == Len(rows) + 1
           at == At(tuple)
           t == tab_names[i]
           dict == prev_feed_dict[i]
           fed(cond) == FedCond(Turned(cond, t), t, dict)
<1>1. /\ n \in Nat /\ n \in DOMAIN tab_names /\ 1..n \subseteq DOMAIN tab_names
      /\ \A k \in 1..n : at[tab_names[k]] \in Tuples(tab_names[k])
      /\ \A k \in 1..(n - 1) : at[tab_names[k]] = rows[k]
  BY AtLemma
<1>2. /\ TypeOK /\ i \in DOMAIN tab_names /\ i \in DOMAIN scans /\ \A k \in 1..(i - 1) : k \in 1..(n - 1)
      /\ \A k \in 1..i : k \in 1..n
  <2>1. TypeOK /\ Len(scans) = Len(tab_names)
    BY DEF PlanInv
  <2>2. DOMAIN scans = 1..Len(tab_names) /\ DOMAIN tab_names = 1..Len(tab_names)
    BY <2>1, FirstLemma DEF TypeOK
  <2>3. \A k \in 1..(i - 1) : k \in 1..(n - 1)
    BY <1>1, SMTT(30)
  <2>4. \A k \in 1..i : k \in 1..n
    BY <1>1, SMTT(30)
  <2> QED
    BY <1>1, <2>1, <2>2, <2>3, <2>4
<1>3. /\ scans[i].conds = {Turned(cond, t) : cond \in Popped(i)}
      /\ scans[i].fed_conds = {FedCond(cond, t, dict) : cond \in scans[i].conds}
      /\ \A k \in 1..(i - 1) : dict[tab_names[k]] = rows[k]
  <2>1. FedAt(i)
    BY DEF FedInv
  <2> QED
    BY <1>2, <2>1 DEF PlanInv, FedAt
<1>4. First(i) = First(i - 1) \cup {t}
  BY <1>2, FirstLemma DEF TypeOK
<1> HIDE DEF n, at, t, dict
<1>5. ASSUME NEW c \in Cols, c.tab_name \in First(i), c \in ColsOf(c.tab_name)
      PROVE  In(at, c) \in Int
  <2>1. PICK k \in 1..i : c.tab_name = tab_names[k]
    BY <1>5 DEF First
  <2>2. at[c.tab_name] \in Tuples(c.tab_name)
    BY <1>1, <1>2, <2>1
  <2>3. at[c.tab_name][c.col_name] \in Values
    BY <1>5, <2>2 DEF Tuples
  <2> QED
    BY <2>3, QueryPlanAssumption DEF In
<1>6. ASSUME NEW u \in First(i - 1) PROVE dict[u] = at[u]
  <2>1. PICK k \in 1..(i - 1) : u = tab_names[k]
    BY DEF First
  <2> QED
    BY <1>1, <1>2, <1>3, <2>1
<1>7. ASSUME NEW cond \in Popped(i)
      PROVE  eval_cond(fed(cond), at) <=> eval_cond(cond, at)
  <2>1. cond \in CondsOn(AllCols)
    BY <1>2 DEF TypeOK, Popped
  <2>2. /\ cond.lhs_col \in ColsOf(cond.lhs_col.tab_name)
        /\ ~ cond.is_rhs_val => cond.rhs_col \in ColsOf(cond.rhs_col.tab_name)
    BY <2>1, CondLemma
  <2>3. cond \in Condition(Cols) /\ CanTurn(cond, t)
    BY <1>2, PoppedLemma DEF t
  <2>4. /\ cond.lhs_col.tab_name \in First(i)
        /\ ~ cond.is_rhs_val => cond.rhs_col.tab_name \in First(i)
    BY DEF Popped, Solved
  <2>5. cond.lhs_col \in Cols /\ cond.rhs_col \in Cols
    BY <2>3 DEF Condition
  <2>6. In(at, cond.lhs_col) \in Int /\ (~ cond.is_rhs_val => In(at, cond.rhs_col) \in Int)
    BY <1>5, <2>2, <2>4, <2>5
  <2>7. ~ cond.is_rhs_val =>
          \A u \in {cond.lhs_col.tab_name, cond.rhs_col.tab_name} \ {t} : dict[u] = at[u]
    BY <1>4, <1>6, <2>4
  <2> QED
    BY <2>3, <2>6, <2>7, ScanDecidesCondition, SMTT(30)
<1> HIDE DEF fed
<1>8. \A d : d \in scans[i].fed_conds <=> \E cond \in Popped(i) : d = fed(cond)
  BY <1>3 DEF fed
<1> QED
  BY <1>7, <1>8 DEF eval_conds, at

\* If no statement names a table twice, the scans drop exactly the tuples that the where
\* clause drops, and each as early as the tables so far decide it.
THEOREM ScansDecideWhere ==
  ASSUME \A s \in Statements : IsInjective(s.tab_names)
  PROVE  Spec => []ScansKeepWhere
<1>1. Init => FedInv
  BY SMTT(30) DEF Init, FedInv
<1>2. PlanInv /\ FedInv /\ [Next]_vars => FedInv'
  BY FedStep
<1>3. PlanInv /\ FedInv => ScansKeepWhere
  <2> SUFFICES ASSUME PlanInv, FedInv, status = "run", NEW tuple \in Tuples(tab_names[Len(rows) + 1])
               PROVE  LET n == Len(rows) + 1
                          known == {cond \in checked : Solved(cond, First(n))}
                      IN  (\A i \in 1..n : eval_conds(scans[i].fed_conds, At(tuple)))
                            <=> eval_conds(known, At(tuple))
    BY DEF ScansKeepWhere, At
  <2> DEFINE n == Len(rows) + 1
             known == {cond \in checked : Solved(cond, First(n))}
  <2>1. TypeOK /\ n \in Nat /\ n \in DOMAIN tab_names
    BY AtLemma DEF PlanInv
  <2>2. \A i \in 1..n : eval_conds(scans[i].fed_conds, At(tuple)) <=> eval_conds(Popped(i), At(tuple))
    BY ScanAccepts
  <2> HIDE DEF n
  <2>3. \A cond \in known : \E i \in 1..n : cond \in Popped(i)
    BY <2>1, SharedOut
  <2>4. \A i \in 1..n : \A cond \in Popped(i) : cond \in known
    BY <2>1, FirstGrows DEF Popped, Solved
  <2> HIDE DEF known
  <2> QED
    BY <2>2, <2>3, <2>4 DEF eval_conds, known, n
<1> QED
  BY <1>1, <1>2, <1>3, PlanInvariant, PTL DEF Spec
=============================================================================
