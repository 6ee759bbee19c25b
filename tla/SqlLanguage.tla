------------------------------ MODULE SqlLanguage ------------------------------
(***************************************************************************)
(* The language of SQL statements, as the grammar of src/parser/yacc.y     *)
(* defines it.  What may follow the tokens read so far is a set of         *)
(* sequences of symbols: the tokens are a sentence when the set holds the  *)
(* empty sequence, and cannot become one when the set is empty.            *)
(*                                                                         *)
(* yacc.y writes its lists left-recursively.  Here a list of `item' is one *)
(* item followed by more of them, which derives the same sentences and     *)
(* lets the first token be read first.                                     *)
(*                                                                         *)
(* The rules of txnStmt are left out: they were written after yacc.tab.c   *)
(* and lex.yy.c, the automata that SqlParser and SqlLexer model, were      *)
(* generated, and these know none of their tokens.                         *)
(***************************************************************************)
EXTENDS SqlAst, SequencesExt

-----------------------------------------------------------------------------
(* The rules of a list: an item, and what follows it. *)
List(name, more, item, seps) ==
  [n \in {name, more} |->
     IF n = name THEN {<<item, more>>}
                 ELSE {<<>>} \cup {<<s, item, more>> : s \in seps}]

Statements ==
  [start |-> {<<"stmt", ";">>, <<"HELP">>, <<"EXIT">>, <<"T_EOF">>},
   stmt |-> {<<"dbStmt">>, <<"ddl">>, <<"dml">>},
   dbStmt |-> {<<"SHOW", "TABLES">>},
   ddl |-> {<<"CREATE", "TABLE", "tbName", "(", "fieldList", ")">>,
            <<"DROP", "TABLE", "tbName">>,
            <<"DESC", "tbName">>,
            <<"CREATE", "INDEX", "tbName", "(", "colName", ")">>,
            <<"DROP", "INDEX", "tbName", "(", "colName", ")">>},
   dml |-> {<<"INSERT", "INTO", "tbName", "VALUES", "(", "valueList", ")">>,
            <<"DELETE", "FROM", "tbName", "optWhereClause">>,
            <<"UPDATE", "tbName", "SET", "setClauses", "optWhereClause">>,
            <<"SELECT", "selector", "FROM", "tableList", "optWhereClause">>}]

Parts ==
  [field |-> {<<"colName", "type">>},
   type |-> {<<"INT">>, <<"CHAR", "(", "VALUE_INT", ")">>, <<"FLOAT">>},
   value |-> {<<"VALUE_INT">>, <<"VALUE_FLOAT">>, <<"VALUE_STRING">>},
   condition |-> {<<"col", "op", "expr">>},
   optWhereClause |-> {<<>>, <<"WHERE", "whereClause">>},
   col |-> {<<"tbName", ".", "colName">>, <<"colName">>},
   op |-> {<<"=">>, <<"<">>, <<">">>, <<"NEQ">>, <<"LEQ">>, <<"GEQ">>},
   expr |-> {<<"value">>, <<"col">>},
   setClause |-> {<<"colName", "=", "value">>},
   selector |-> {<<"*">>, <<"colList">>},
   tbName |-> {<<"IDENTIFIER">>},
   colName |-> {<<"IDENTIFIER">>}]

Lists ==
  List("fieldList", "moreFields", "field", {","})
    @@ List("valueList", "moreValues", "value", {","})
    @@ List("whereClause", "moreConditions", "condition", {"AND"})
    @@ List("colList", "moreCols", "col", {","})
    @@ List("setClauses", "moreSetClauses", "setClause", {","})
    @@ List("tableList", "moreTables", "tbName", {",", "JOIN"})

Rules == Statements @@ Parts @@ Lists

-----------------------------------------------------------------------------
(* The sequences of P with their first symbols derived down to tokens. *)
RECURSIVE Expand(_)
Expand(P) ==
  LET N == {p \in P : p # <<>> /\ Head(p) \in DOMAIN Rules}
  IN  IF N = {} THEN P
      ELSE Expand((P \ N) \cup UNION {{r \o Tail(p) : r \in Rules[Head(p)]} : p \in N})

(* What may follow before a token is read. *)
Statement == {<<"start">>}

Terminals == UNION {UNION {Range(r) : r \in Rules[n]} : n \in DOMAIN Rules} \ DOMAIN Rules

(* What may follow each token, by the definition of a derivation. *)
Derivatives(P) ==
  LET E == {p \in Expand(P) : p # <<>>}
  IN  [t \in Terminals |-> {Tail(p) : p \in {q \in E : Head(q) = t}}]

(* The language is regular, so only finitely many sets can follow: they    *)
(* are computed once, from Done and the newly found New.                   *)
RECURSIVE Reached(_, _)
Reached(Done, New) ==
  LET Table == [P \in New |-> Derivatives(P)]
      Found == UNION {Range(Table[P]) : P \in New}
      Known == Table @@ Done
  IN  IF Found \subseteq DOMAIN Known THEN Known
      ELSE Reached(Known, Found \ DOMAIN Known)

FollowTable == Reached(<<>>, {Statement})

(* What may follow each token when P may follow now. *)
Follow(P) == FollowTable[P]

After(P, t) == Follow(P)[t]

Allows(P, t) == After(P, t) # {}

-----------------------------------------------------------------------------
(***************************************************************************)
(* The statement a syntax tree stands for: for every token the kinds it    *)
(* may have and, when it has a value, its place in the statement (0 when   *)
(* it has none).                                                           *)
(***************************************************************************)
Word(kind) == << <<{kind}, 0>> >>
Named(kind, place) == << <<{kind}, place>> >>
Comma == << <<{","}, 0>> >>
CommaOrJoin == << <<{",", "JOIN"}, 0>> >>

(* The texts of a list's items with a separator between them. *)
Separated(texts, sep) ==
  FoldLeft(LAMBDA text, item : IF text = <<>> THEN item ELSE text \o sep \o item, <<>>, texts)

OpToken == [SV_OP_EQ |-> "=", SV_OP_NE |-> "NEQ", SV_OP_LT |-> "<",
            SV_OP_GT |-> ">", SV_OP_LE |-> "LEQ", SV_OP_GE |-> "GEQ"]

LitToken == [IntLit |-> "VALUE_INT", FloatLit |-> "VALUE_FLOAT",
             StringLit |-> "VALUE_STRING"]

Id(place) == Named("IDENTIFIER", place)

ColText(col) ==
  IF col.tab_name = 0 THEN Id(col.col_name)
  ELSE Id(col.tab_name) \o Word(".") \o Id(col.col_name)

ExprText(expr) ==
  IF expr.node = "Col" THEN ColText(expr) ELSE Named(LitToken[expr.node], expr.val)

TypeText(t) ==
  IF t.type = "SV_TYPE_STRING"
  THEN Word("CHAR") \o Word("(") \o Named("VALUE_INT", t.len) \o Word(")")
  ELSE Word(IF t.type = "SV_TYPE_INT" THEN "INT" ELSE "FLOAT")

ListText(list, Text(_), sep) == Separated([i \in DOMAIN list |-> Text(list[i])], sep)

FieldText(field) == Id(field.col_name) \o TypeText(field.type_len)
CondText(cond) == ColText(cond.lhs) \o Word(OpToken[cond.op]) \o ExprText(cond.rhs)
SetText(clause) == Id(clause.col_name) \o Word("=") \o ExprText(clause.val)

WhereText(conds) ==
  IF conds = <<>> THEN <<>> ELSE Word("WHERE") \o ListText(conds, CondText, Word("AND"))

StmtText(t) ==
  CASE t.node = "ShowTables" -> Word("SHOW") \o Word("TABLES")
    [] t.node = "CreateTable" ->
         Word("CREATE") \o Word("TABLE") \o Id(t.tab_name)
           \o Word("(") \o ListText(t.fields, FieldText, Comma) \o Word(")")
    [] t.node = "DropTable" -> Word("DROP") \o Word("TABLE") \o Id(t.tab_name)
    [] t.node = "DescTable" -> Word("DESC") \o Id(t.tab_name)
    [] t.node \in {"CreateIndex", "DropIndex"} ->
         Word(IF t.node = "CreateIndex" THEN "CREATE" ELSE "DROP") \o Word("INDEX")
           \o Id(t.tab_name) \o Word("(") \o Id(t.col_name) \o Word(")")
    [] t.node = "InsertStmt" ->
         Word("INSERT") \o Word("INTO") \o Id(t.tab_name) \o Word("VALUES")
           \o Word("(") \o ListText(t.vals, ExprText, Comma) \o Word(")")
    [] t.node = "DeleteStmt" ->
         Word("DELETE") \o Word("FROM") \o Id(t.tab_name) \o WhereText(t.conds)
    [] t.node = "UpdateStmt" ->
         Word("UPDATE") \o Id(t.tab_name) \o Word("SET")
           \o ListText(t.set_clauses, SetText, Comma) \o WhereText(t.conds)
    [] t.node = "SelectStmt" ->
         Word("SELECT")
           \o (IF t.cols = <<>> THEN Word("*") ELSE ListText(t.cols, ColText, Comma))
           \o Word("FROM") \o ListText(t.tabs, Id, CommaOrJoin) \o WhereText(t.conds)

(* Is tree the syntax tree of these tokens?  Leaving has no tree. *)
TreeOf(tree, tokens) ==
  CASE tokens \in {<<"EXIT">>, <<"T_EOF">>} -> tree = nullptr
    [] tokens = <<"HELP">> -> tree = Help
    [] OTHER ->
         LET text == StmtText(tree) \o Word(";")
         IN  /\ Len(text) = Len(tokens)
             /\ \A i \in DOMAIN text : tokens[i] \in text[i][1] /\ text[i][2] \in {0, i}
================================================================================
