------------------------------ MODULE QueryPlan ------------------------------
(***************************************************************************)
(* What QlManager (src/src/execution) and its executors do with a select:  *)
(* the columns it names are looked up (check_column), its conditions are   *)
(* handed out to the scans of the tables (pop_conds), each scan turns them *)
(* to face its table (SeqScanExecutor), joins and projections lay out the  *)
(* tuples, and while the query runs a scan is fed the tuples of the tables *)
(* before it (feed), again and again.                                      *)
(*                                                                         *)
(* Four pieces of this path are exercises not written yet, and are taken   *)
(* from the code around them.  TabMeta::is_col answers no (lab3 task1):    *)
(* what it is to answer is the constant Known.  TabMeta::get_col returns   *)
(* an iterator to nowhere: here it finds the column, all columns have one  *)
(* type and none has an index.  select_from stores no scan and does not    *)
(* join them (lab3 task2): StoreScan calls the constructor that is there,  *)
(* and JoinedFrom follows that of the join and what feed expects.  Values  *)
(* are integers.  A vector of conditions is the set of them: all must      *)
(* hold, in whatever order.                                                *)
(***************************************************************************)
EXTENDS Integers, Sequences, FiniteSets, Functions

CONSTANTS
  Statements,  \* the select statements: [tab_names, targets, where]
  Schema,      \* table -> sequence of [name, len], as created
  Known,       \* the columns is_col finds; {} as it stands
  Values       \* the values in tuples and literals

VARIABLES
  tab_names,   \* the tables of the statement
  targets,     \* the columns it names; none for all
  where,       \* its conditions
  sel_cols,    \* the columns, each with its table
  checked,     \* history: what check_where_clause returned
  conds,       \* the conditions not handed out yet
  scans,       \* the scans made so far: [tab_name, conds, fed_conds, cols, len]
  root,        \* the layout of the result: [cols, len]
  rows,        \* the tuples that the scans but the innermost positioned one are at
  prev_feed_dict, \* of the join above each scan: table -> tuple
  status       \* "selector", "where", "scans", "run", "error",
               \* or how the program stopped

statement == <<tab_names, targets, where>>
vars == <<tab_names, targets, where, sel_cols, checked, conds, scans, root, rows,
          prev_feed_dict, status>>

Tables == DOMAIN Schema
TabCol(t, c) == [tab_name |-> t, col_name |-> c]
NoCol == TabCol("", "")
NoLayout == [cols |-> <<>>, len |-> 0]
CompOp == {"OP_EQ", "OP_NE", "OP_LT", "OP_GT", "OP_LE", "OP_GE"}

ValCond(lhs, op, v) ==
  [lhs_col |-> lhs, op |-> op, is_rhs_val |-> TRUE, rhs_val |-> v, rhs_col |-> NoCol]
ColCond(lhs, op, rhs) ==
  [lhs_col |-> lhs, op |-> op, is_rhs_val |-> FALSE, rhs_val |-> 0, rhs_col |-> rhs]

-----------------------------------------------------------------------------
(***************************************************************************)
(* The columns.                                                            *)
(***************************************************************************)
LenBefore(cols, i) == FoldFunctionOnSet(+, 0, [j \in DOMAIN cols |-> cols[j].len], 1..(i - 1))

\* create_table: the fields of a record follow each other.
TabCols(t) ==
  [i \in DOMAIN Schema[t] |->
     [tab_name |-> t, name |-> Schema[t][i].name, len |-> Schema[t][i].len,
      offset |-> LenBefore(Schema[t], i)]]

get_all_cols(tabs) ==
  LET upto[i \in 0..Len(tabs)] == IF i = 0 THEN <<>> ELSE upto[i - 1] \o TabCols(tabs[i])
  IN  upto[Len(tabs)]

is_col(t, c) == TabCol(t, c) \in Known

\* The table of a column of the tables `tabs'; NoCol stands for the error, not found or
\* ambiguous.  A column that comes with its table may be of any table.
check_column(tabs, target) ==
  LET found == UNION {{<<i, k>> : k \in {k \in DOMAIN Schema[tabs[i]] :
                                           Schema[tabs[i]][k].name = target.col_name}} :
                      i \in DOMAIN tabs}
  IN  IF target.tab_name = ""
      THEN IF Cardinality(found) # 1 THEN NoCol
           ELSE TabCol(tabs[(CHOOSE p \in found : TRUE)[1]], target.col_name)
      ELSE IF target.tab_name \in Tables /\ is_col(target.tab_name, target.col_name)
           THEN target ELSE NoCol

\* The selector of select_from: no columns are all columns.
Selector(tabs, cols) ==
  LET all_cols == get_all_cols(tabs)
  IN  IF cols = <<>>
      THEN [i \in DOMAIN all_cols |-> TabCol(all_cols[i].tab_name, all_cols[i].name)]
      ELSE [i \in DOMAIN cols |-> check_column(tabs, cols[i])]

\* AbstractExecutor::get_col
get_col(cols, target) ==
  SelectSeq(cols, LAMBDA col : col.tab_name = target.tab_name /\ col.name = target.col_name)

-----------------------------------------------------------------------------
(***************************************************************************)
(* The conditions.                                                         *)
(***************************************************************************)
\* Variant: only the left side is looked at.
SolvedByLeftSide(cond, tabs) == cond.lhs_col.tab_name \in tabs

\* A condition whose columns all belong to the tables `tabs'.
Solved(cond, tabs) ==
  /\ cond.lhs_col.tab_name \in tabs
  /\ cond.is_rhs_val \/ cond.rhs_col.tab_name \in tabs

\* pop_conds: the conditions that can be decided on `tabs', and the others.
pop_conds(cs, tabs) ==
  [solved |-> {cond \in cs : Solved(cond, tabs)}, left |-> {cond \in cs : ~ Solved(cond, tabs)}]

swap_op ==
  [OP_EQ |-> "OP_EQ", OP_NE |-> "OP_NE", OP_LT |-> "OP_GT", OP_GT |-> "OP_LT",
   OP_LE |-> "OP_GE", OP_GE |-> "OP_LE"]

\* The constructor of SeqScanExecutor on a condition, and its assertion.
Turned(cond, t) ==
  IF cond.lhs_col.tab_name = t THEN cond
  ELSE [cond EXCEPT !.lhs_col = cond.rhs_col, !.rhs_col = cond.lhs_col,
                    !.op = swap_op[cond.op]]

CanTurn(cond, t) ==
  cond.lhs_col.tab_name # t => ~ cond.is_rhs_val /\ cond.rhs_col.tab_name = t

SeqScan(t, cs) ==
  LET cols   == TabCols(t)
      turned == {Turned(cond, t) : cond \in cs}
  IN  [tab_name |-> t, conds |-> turned, fed_conds |-> turned, cols |-> cols,
       len |-> cols[Len(cols)].offset + cols[Len(cols)].len]

\* SeqScanExecutor::feed on a condition: a column of another table becomes the value
\* that the tuples fed have there.
FedCond(cond, t, feed_dict) ==
  IF ~ cond.is_rhs_val /\ cond.rhs_col.tab_name # t
  THEN [cond EXCEPT !.is_rhs_val = TRUE,
                    !.rhs_val = feed_dict[cond.rhs_col.tab_name][cond.rhs_col.col_name]]
  ELSE cond

\* feed_dict.at throws for a table that has not been fed.
CanFeed(scan, feed_dict) ==
  \A cond \in scan.conds :
    cond.is_rhs_val \/ cond.rhs_col.tab_name \in {scan.tab_name} \cup DOMAIN feed_dict

\* Variant: the conditions fed last are fed again.
FeedOnTop(scan, feed_dict) ==
  [scan EXCEPT !.fed_conds = {FedCond(cond, scan.tab_name, feed_dict) : cond \in @}]

feed(scan, feed_dict) ==
  [scan EXCEPT !.fed_conds = {FedCond(cond, scan.tab_name, feed_dict) : cond \in scan.conds}]

\* check_runtime_conds: what a scan compares is on its table.
check_runtime_conds(scan) ==
  \A cond \in scan.fed_conds :
    /\ cond.lhs_col.tab_name = scan.tab_name
    /\ cond.is_rhs_val \/ cond.rhs_col.tab_name = scan.tab_name

\* eval_cond, on tuples whose columns are looked up by name.
eval_cond(cond, tuples) ==
  LET lhs == tuples[cond.lhs_col.tab_name][cond.lhs_col.col_name]
      rhs == IF cond.is_rhs_val THEN cond.rhs_val
             ELSE tuples[cond.rhs_col.tab_name][cond.rhs_col.col_name]
  IN  CASE cond.op = "OP_EQ" -> lhs = rhs
        [] cond.op = "OP_NE" -> lhs # rhs
        [] cond.op = "OP_LT" -> lhs < rhs
        [] cond.op = "OP_GT" -> lhs > rhs
        [] cond.op = "OP_LE" -> lhs <= rhs
        [] cond.op = "OP_GE" -> lhs >= rhs

eval_conds(cs, tuples) == \A cond \in cs : eval_cond(cond, tuples)

-----------------------------------------------------------------------------
(***************************************************************************)
(* The layout of tuples.                                                   *)
(***************************************************************************)
\* Variant: the columns of the right side stay where they were.
JoinUnshifted(left, right) ==
  [cols |-> left.cols \o right.cols, len |-> left.len + right.len]

\* The constructor of NestedLoopJoinExecutor.
NestedLoopJoin(left, right) ==
  [cols |-> left.cols \o [i \in DOMAIN right.cols |->
                            [right.cols[i] EXCEPT !.offset = @ + left.len]],
   len |-> left.len + right.len]

\* The scans joined from the last to the first.
JoinedFrom(ss) ==
  LET from[i \in 1..Len(ss)] == IF i = Len(ss) THEN [cols |-> ss[i].cols, len |-> ss[i].len]
                                ELSE NestedLoopJoin(ss[i], from[i + 1])
  IN  from[1]

\* The constructor of ProjectionExecutor.
Projection(prev, cols) ==
  LET found == [i \in DOMAIN cols |-> get_col(prev.cols, cols[i])[1]]
  IN  [cols |-> [i \in DOMAIN cols |-> [found[i] EXCEPT !.offset = LenBefore(found, i)]],
       len |-> LenBefore(found, Len(cols) + 1)]

-----------------------------------------------------------------------------
ColsOf(t) == {TabCol(t, Schema[t][i].name) : i \in DOMAIN Schema[t]}
AllCols == UNION {ColsOf(t) : t \in Tables}

\* The conditions on the columns C.
CondsOn(C) ==
  {ValCond(c, op, v) : c \in C, op \in CompOp, v \in Values}
    \cup {ColCond(c, op, d) : c \in C, op \in CompOp, d \in C}

\* A column as a statement writes it: with or without a table, there or not.
Written == [tab_name : Tables \cup {""}, col_name : {c.col_name : c \in AllCols}]
Tuples(t) == [{c.col_name : c \in ColsOf(t)} -> Values]

\* The parser lets no statement without a table pass, and any column in its conditions.
ASSUME QueryPlanAssumption ==
  /\ Values \subseteq Int /\ Known \subseteq AllCols
  /\ \A s \in Statements : /\ s.tab_names \in Seq(Tables) /\ Len(s.tab_names) > 0
                            /\ s.where \subseteq CondsOn(Written)

Init ==
  /\ \E s \in Statements : tab_names = s.tab_names /\ targets = s.targets /\ where = s.where
  /\ sel_cols = <<>> /\ checked = {} /\ conds = {}
  /\ scans = <<>> /\ root = NoLayout /\ rows = <<>>
  /\ prev_feed_dict = [i \in DOMAIN tab_names |-> <<>>]
  /\ status = "selector"

\* select_from as far as the selector.
ParseSelector ==
  /\ status = "selector"
  /\ LET cols == Selector(tab_names, targets)
     IN  IF NoCol \in Range(cols)
         THEN status' = "error" /\ UNCHANGED sel_cols
         ELSE status' = "where" /\ sel_cols' = cols
  /\ UNCHANGED <<statement, checked, conds, scans, root, rows, prev_feed_dict>>

\* check_where_clause on a condition: its columns get their tables.
CheckedCond(cond) ==
  [cond EXCEPT !.lhs_col = check_column(tab_names, cond.lhs_col),
               !.rhs_col = IF cond.is_rhs_val THEN cond.rhs_col
                           ELSE check_column(tab_names, cond.rhs_col)]

\* check_where_clause throws.
Rejected(cond) ==
  cond.lhs_col = NoCol \/ (~ cond.is_rhs_val /\ cond.rhs_col = NoCol)

check_where_clause ==
  /\ status = "where"
  /\ LET res_conds == {CheckedCond(cond) : cond \in where}
     IN  IF \E cond \in res_conds : Rejected(cond)
         THEN status' = "error" /\ UNCHANGED <<checked, conds>>
         ELSE status' = "scans" /\ checked' = res_conds /\ conds' = res_conds
  /\ UNCHANGED <<statement, sel_cols, scans, root, rows, prev_feed_dict>>

\* The tables as far as the i-th.
First(i) == {tab_names[k] : k \in 1..i}

\* The scan of a table is made, with the assertion of its constructor, and stored.
StoreScan(t, cs) ==
  IF \A cond \in cs : CanTurn(cond, t)
  THEN scans' = Append(scans, SeqScan(t, cs)) /\ UNCHANGED status
  ELSE status' = "assert" /\ UNCHANGED scans

\* One turn of the loop over the tables.
MakeScan ==
  /\ status = "scans" /\ Len(scans) < Len(tab_names)
  /\ LET i      == Len(scans) + 1
         popped == pop_conds(conds, First(i))
     IN  conds' = popped.left /\ StoreScan(tab_names[i], popped.solved)
  /\ UNCHANGED <<statement, sel_cols, checked, root, rows, prev_feed_dict>>

\* A selected column that the tables of the statement do not have.
NotJoined == \E i \in DOMAIN sel_cols : get_col(JoinedFrom(scans).cols, sel_cols[i]) = <<>>

\* After the loop: the assertion on conds, the tree of executors, whose projection
\* throws when it does not find a column, and the beginTuple of the first scan, which
\* nobody feeds.
MakePlan ==
  /\ status = "scans" /\ Len(scans) = Len(tab_names)
  /\ \/ conds # {} /\ status' = "conds_left" /\ UNCHANGED root
     \/ conds = {} /\ NotJoined /\ status' = "error" /\ UNCHANGED root
     \/ /\ conds = {} /\ ~ NotJoined
        /\ root' = Projection(JoinedFrom(scans), sel_cols)
        /\ status' = IF check_runtime_conds(scans[1]) THEN "run" ELSE "assert"
  /\ UNCHANGED <<statement, sel_cols, checked, conds, scans, rows, prev_feed_dict>>

\* std::map::insert: a table that is in the map stays as it is.
Inserted(dict, t, tuple) ==
  [u \in DOMAIN dict \cup {t} |-> IF u \in DOMAIN dict THEN dict[u] ELSE tuple]

\* The join above scan j has its left side at a tuple (beginTuple, nextTuple) and feeds
\* its right side: scan j + 1, through the feed of the next join if there is one.
feed_right(j, tuple) ==
  LET feed_dict == Inserted(prev_feed_dict[j], tab_names[j], tuple)
      fed       == feed(scans[j + 1], feed_dict)
  IN  /\ rows' = [i \in 1..j |-> IF i < j THEN rows[i] ELSE tuple]
      /\ IF CanFeed(scans[j + 1], feed_dict)
         THEN /\ scans' = [scans EXCEPT ![j + 1] = fed]
              /\ prev_feed_dict' = [prev_feed_dict EXCEPT ![j + 1] = feed_dict]
              /\ status' = IF check_runtime_conds(fed) THEN status ELSE "assert"
         ELSE status' = "out_of_range" /\ UNCHANGED <<scans, prev_feed_dict>>
      /\ UNCHANGED <<statement, sel_cols, checked, conds, root>>

\* Scan j can be at a tuple once it has been fed: the scans before it are.
MoveLeft ==
  /\ status = "run"
  /\ \E j \in 1..Len(tab_names) - 1 :
       /\ j <= Len(rows) + 1
       /\ \E tuple \in Tuples(tab_names[j]) : feed_right(j, tuple)

Next == ParseSelector \/ check_where_clause \/ MakeScan \/ MakePlan \/ MoveLeft

Spec == Init /\ [][Next]_vars

-----------------------------------------------------------------------------
\* Every variable has its type; in particular a scan only ever holds conditions on
\* columns that exist, and a tuple of every table fed to it.
TypeOK ==
  /\ tab_names \in Seq(Tables) /\ Len(tab_names) > 0
  /\ where \subseteq CondsOn(Written)
  /\ checked \subseteq CondsOn(AllCols) /\ conds \subseteq checked
  /\ DOMAIN scans = 1..Len(scans) /\ Len(scans) \in 0..Len(tab_names)
  /\ \A i \in DOMAIN scans : scans[i].tab_name = tab_names[i]
  /\ DOMAIN rows = 1..Len(rows) /\ Len(rows) \in 0..(Len(tab_names) - 1)
  /\ \A i \in DOMAIN rows : rows[i] \in Tuples(tab_names[i])
  /\ DOMAIN prev_feed_dict = DOMAIN tab_names
  /\ status \in {"selector", "where", "scans", "run", "error", "conds_left", "assert",
                "out_of_range"}

\* A query stops in the middle for one reason only.  A scan is given only conditions it
\* can turn to face its table (its constructor asserts it), what it is fed holds every
\* column it needs, and then all that it compares is on its table (check_runtime_conds
\* asserts it).  What select_from asserts when every table has its scan, that no
\* condition is left, fails exactly for a where clause with a column of a table that
\* is not in the statement: check_column lets it pass.
StopsOnlyForForeignTable ==
  /\ status \notin {"assert", "out_of_range"}
  /\ status = "conds_left" => \E cond \in checked : ~ Solved(cond, Range(tab_names))
  /\ status = "run" => \A cond \in checked : Solved(cond, Range(tab_names))

\* The scans drop the tuples that the where clause drops, and as soon as possible: at
\* every moment the scans positioned so far accept their tuples if and only if these
\* meet all conditions that the tables so far decide.  No condition is lost between
\* two pops, turned the wrong way, or compared with a tuple the join has left.
ScansKeepWhere ==
  status = "run" =>
    LET n     == Len(rows) + 1
        known == {cond \in checked : Solved(cond, First(n))}
    IN  \A tuple \in Tuples(tab_names[n]) :
          LET at == [t \in First(n) |->
                       IF t = tab_names[n] THEN tuple
                       ELSE rows[CHOOSE i \in 1..(n - 1) : tab_names[i] = t]]
          IN  (\A i \in 1..n : eval_conds(scans[i].fed_conds, at)) <=> eval_conds(known, at)

Covers(col, p) == col.offset <= p /\ p < col.offset + col.len

Tiled(node) ==
  /\ \A p \in 0..node.len - 1 :
       Cardinality({i \in DOMAIN node.cols : Covers(node.cols[i], p)}) = 1
  /\ \A i \in DOMAIN node.cols : node.cols[i].offset + node.cols[i].len <= node.len

\* The columns of a join and of the result lie in their tuple side by side: each byte
\* belongs to exactly one column, whatever create_table, the constructors of the joins
\* and that of the projection added up.
ColumnsTile == status = "run" => Tiled(root) /\ Tiled(JoinedFrom(scans))
=============================================================================
