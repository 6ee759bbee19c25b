------------------------------ MODULE SqlParser ------------------------------
(***************************************************************************)
(* yyparse of src/parser/yacc.tab.c: the LALR driver over the tables of    *)
(* SqlParserTables, with the semantic actions that build the syntax tree   *)
(* of src/parser/ast.h.                                                    *)
(*                                                                         *)
(* Every value stack slot is a whole SemValue.  A SemValue is a function   *)
(* that has only the fields set so far; a popped slot keeps its value      *)
(* until it is written again, as in the code's array.  What an identifier  *)
(* or a literal says is the place of its token in the statement, so two of *)
(* them are never alike.                                                   *)
(*                                                                         *)
(* The parser is checked twice in one run.  Without values the states of   *)
(* the automaton are finitely many, and statements of every length are     *)
(* covered.  With values, statements have at most MaxTokens tokens and are *)
(* cut short only by the end of the text.                                  *)
(***************************************************************************)
EXTENDS SqlParserTables, SqlAst, SqlLanguage, FiniteSets

CONSTANT MaxTokens      \* longest statement parsed with values

VARIABLES
  values,       \* are semantic values kept in this behaviour?
  yyss,         \* the stack of states
  yyvs,         \* the array of semantic values, popped ones included
  yychar,       \* the lookahead token, or YYEMPTY
  yylval,       \* its semantic value
  yyresult,     \* RUNNING, or what yyparse returned
  parse_tree,   \* the global the server reads
  yyarg,        \* the tokens the error message says were expected
  consumed,     \* the tokens shifted so far
  rest          \* what the grammar allows to follow them

vars == <<values, yyss, yyvs, yychar, yylval, yyresult, parse_tree, yyarg,
          consumed, rest>>

YYEMPTY == "YYEMPTY"
RUNNING == -1
RECOVERING == -2

Earlier == [node |-> "tree of an earlier statement"]
Unknown == [node |-> "tree without values"]

(* The scanner returns every token but these three. *)
Tokens == DOMAIN YYTRANSLATE \ {"$end", "error", "$undefined"}

Verdict == CASE yyresult = RUNNING -> "reading"
             [] yyresult = 0 -> "accepted"
             [] OTHER -> "refused"

Grammar == INSTANCE SqlGrammar WITH None <- YYEMPTY, token <- yychar, verdict <- Verdict

-----------------------------------------------------------------------------
(* Semantic values. *)

Slot(i) == IF i <= Len(yyvs) THEN yyvs[i] ELSE NoValue

Store(i, value) ==
  IF ~values THEN yyvs
  ELSE IF i <= Len(yyvs) THEN [yyvs EXCEPT ![i] = value]
  ELSE [j \in 1..i |-> IF j = i THEN value ELSE Slot(j)]

(***************************************************************************)
(* The actions of the rules: v is the right-hand side, and yyval what $$   *)
(* is before the action.                                                   *)
(***************************************************************************)
DdlAction(rule, yyval, v) ==
  Assign(yyval, "sv_node",
    CASE rule = 9 -> ShowTables
      [] rule = 10 -> CreateTable(v[3].sv_str, Vector(v[5], "sv_fields"))
      [] rule = 11 -> DropTable(v[3].sv_str)
      [] rule = 12 -> DescTable(v[2].sv_str)
      [] rule = 13 -> CreateIndex(v[3].sv_str, v[5].sv_str)
      [] rule = 14 -> DropIndex(v[3].sv_str, v[5].sv_str))

DmlAction(rule, yyval, v) ==
  Assign(yyval, "sv_node",
    CASE rule = 15 -> InsertStmt(v[3].sv_str, Vector(v[6], "sv_vals"))
      [] rule = 16 -> DeleteStmt(v[3].sv_str, Vector(v[4], "sv_conds"))
      [] rule = 17 -> UpdateStmt(v[2].sv_str, Vector(v[4], "sv_set_clauses"),
                                 Vector(v[5], "sv_conds"))
      [] rule = 18 -> SelectStmt(Vector(v[2], "sv_cols"), Vector(v[4], "sv_strs"),
                                 Vector(v[5], "sv_conds")))

(* sizeof(int) and sizeof(float) are 4. *)
FieldAction(rule, yyval, v) ==
  CASE rule = 19 -> Assign(yyval, "sv_fields", <<v[1].sv_field>>)
    [] rule = 20 -> PushBack(yyval, "sv_fields", v[3].sv_field)
    [] rule = 21 -> Assign(yyval, "sv_field", ColDef(v[1].sv_str, v[2].sv_type_len))
    [] rule = 22 -> Assign(yyval, "sv_type_len", TypeLen("SV_TYPE_INT", 4))
    [] rule = 23 -> Assign(yyval, "sv_type_len", TypeLen("SV_TYPE_STRING", v[3].sv_int))
    [] rule = 24 -> Assign(yyval, "sv_type_len", TypeLen("SV_TYPE_FLOAT", 4))

ValueAction(rule, yyval, v) ==
  CASE rule = 25 -> Assign(yyval, "sv_vals", <<v[1].sv_val>>)
    [] rule = 26 -> PushBack(yyval, "sv_vals", v[3].sv_val)
    [] rule = 27 -> Assign(yyval, "sv_val", IntLit(v[1].sv_int))
    [] rule = 28 -> Assign(yyval, "sv_val", FloatLit(v[1].sv_float))
    [] rule = 29 -> Assign(yyval, "sv_val", StringLit(v[1].sv_str))

(* Rule 31 is the missing WHERE clause: its action does nothing. *)
ConditionAction(rule, yyval, v) ==
  CASE rule = 30 -> Assign(yyval, "sv_cond",
                           BinaryExpr(v[1].sv_col, v[2].sv_comp_op, v[3].sv_expr))
    [] rule = 31 -> yyval
    [] rule = 32 -> Assign(yyval, "sv_conds", Vector(v[2], "sv_conds"))
    [] rule = 33 -> Assign(yyval, "sv_conds", <<v[1].sv_cond>>)
    [] rule = 34 -> PushBack(yyval, "sv_conds", v[3].sv_cond)

(* A column without a table has an empty table name, written 0 here. *)
ColAction(rule, yyval, v) ==
  CASE rule = 35 -> Assign(yyval, "sv_col", Col(v[1].sv_str, v[3].sv_str))
    [] rule = 36 -> Assign(yyval, "sv_col", Col(0, v[1].sv_str))
    [] rule = 37 -> Assign(yyval, "sv_cols", <<v[1].sv_col>>)
    [] rule = 38 -> PushBack(yyval, "sv_cols", v[3].sv_col)

OpAction(rule, yyval, v) ==
  CASE rule = 39 -> Assign(yyval, "sv_comp_op", "SV_OP_EQ")
    [] rule = 40 -> Assign(yyval, "sv_comp_op", "SV_OP_LT")
    [] rule = 41 -> Assign(yyval, "sv_comp_op", "SV_OP_GT")
    [] rule = 42 -> Assign(yyval, "sv_comp_op", "SV_OP_NE")
    [] rule = 43 -> Assign(yyval, "sv_comp_op", "SV_OP_LE")
    [] rule = 44 -> Assign(yyval, "sv_comp_op", "SV_OP_GE")
    [] rule = 45 -> Assign(yyval, "sv_expr", v[1].sv_val)
    [] rule = 46 -> Assign(yyval, "sv_expr", v[1].sv_col)

SetClauseAction(rule, yyval, v) ==
  CASE rule = 47 -> Assign(yyval, "sv_set_clauses", <<v[1].sv_set_clause>>)
    [] rule = 48 -> PushBack(yyval, "sv_set_clauses", v[3].sv_set_clause)
    [] rule = 49 -> Assign(yyval, "sv_set_clause", SetClause(v[1].sv_str, v[3].sv_val))

(* Variant: a further table replaces the ones before it. *)
LastTableOnly(rule, yyval, v) ==
  CASE rule = 50 -> Assign(yyval, "sv_cols", <<>>)
    [] rule \in 52..54 -> Assign(yyval, "sv_strs", <<v[Len(v)].sv_str>>)

SelectorAction(rule, yyval, v) ==
  CASE rule = 50 -> Assign(yyval, "sv_cols", <<>>)
    [] rule = 52 -> Assign(yyval, "sv_strs", <<v[1].sv_str>>)
    [] rule \in {53, 54} -> PushBack(yyval, "sv_strs", v[3].sv_str)

(* Rules without an action of their own pass $1 on. *)
SemanticAction(rule, yyval, v) ==
  CASE rule \in 9..14 -> DdlAction(rule, yyval, v)
    [] rule \in 15..18 -> DmlAction(rule, yyval, v)
    [] rule \in 19..24 -> FieldAction(rule, yyval, v)
    [] rule \in 25..29 -> ValueAction(rule, yyval, v)
    [] rule \in 30..34 -> ConditionAction(rule, yyval, v)
    [] rule \in 35..38 -> ColAction(rule, yyval, v)
    [] rule \in 39..46 -> OpAction(rule, yyval, v)
    [] rule \in 47..49 -> SetClauseAction(rule, yyval, v)
    [] rule \in {50, 52, 53, 54} -> SelectorAction(rule, yyval, v)
    [] OTHER -> yyval

-----------------------------------------------------------------------------
(* The driver. *)

State == Last(yyss)

Running == yyresult = RUNNING

(* Some states know what to do without a lookahead token. *)
NeedsToken == At(yypact, State) # YYPACT_NINF /\ yychar = YYEMPTY

Action == IF At(yypact, State) = YYPACT_NINF
          THEN - At(yydefact, State)
          ELSE ActionOf(State, YYTRANSLATE[yychar])

Init ==
  /\ values \in BOOLEAN
  /\ yyss = <<0>>
  /\ yyvs = <<>>
  /\ yychar = YYEMPTY
  /\ yylval = NoValue
  /\ yyresult = RUNNING
  /\ parse_tree = Earlier
  /\ yyarg = {}
  /\ consumed = <<>>
  /\ rest = Statement

(* Texts that are parsed with values: sentences, and beginnings of them. *)
MayCome(token) ==
  \/ ~values
  \/ token = "T_EOF"
  \/ Len(consumed) < MaxTokens /\ Allows(rest, token)

(* yylex sets the fields of yylval its token has, and leaves the others. *)
LexValue(token) ==
  LET place == Len(consumed) + 1
  IN  CASE token \in {"IDENTIFIER", "VALUE_STRING"} -> Assign(yylval, "sv_str", place)
        [] token = "VALUE_INT" -> Assign(yylval, "sv_int", place)
        [] token = "VALUE_FLOAT" -> Assign(yylval, "sv_float", place)
        [] OTHER -> yylval

yylex ==
  /\ Running /\ NeedsToken
  /\ \E token \in Tokens :
       /\ MayCome(token)
       /\ yychar' = token
       /\ yylval' = IF values THEN LexValue(token) ELSE yylval
  /\ UNCHANGED <<values, yyss, yyvs, yyresult, parse_tree, yyarg, consumed, rest>>

(* What entering a state returns: the stack cannot grow, because SemValue  *)
(* is a class and must not be moved as bytes.                              *)
Entering(stack) ==
  IF Len(stack) >= YYINITDEPTH THEN 2
  ELSE IF Last(stack) = YYFINAL THEN 0 ELSE RUNNING

Shift ==
  /\ Running /\ ~NeedsToken
  /\ Action > 0
  /\ yyss' = Append(yyss, Action)
  /\ yyvs' = Store(Len(yyss) + 1, yylval)
  /\ yychar' = YYEMPTY
  /\ yyresult' = Entering(yyss')
  /\ consumed' = IF values THEN Append(consumed, yychar) ELSE consumed
  /\ rest' = After(rest, yychar)
  /\ UNCHANGED <<values, yylval, parse_tree, yyarg>>

(* $$ before the action: $1, or for an empty rule the slot above the top. *)
DefaultValue(rule) == Slot(Len(yyss) + 1 - At(yyr2, rule))

RightSide(rule) ==
  LET n == At(yyr2, rule)
  IN  [i \in 1..n |-> Slot(Len(yyss) - n + i)]

(* The stack after the right-hand side is popped. *)
Popped(rule) == SubSeq(yyss, 1, Len(yyss) - At(yyr2, rule))

(* Variant: a rule with one symbol leaves the state as it is. *)
UnitRuleStays ==
  LET rule == - Action
      stack == IF At(yyr2, rule) = 1 THEN yyss
               ELSE Append(Popped(rule), Goto(Last(Popped(rule)), rule))
      yyval == IF values THEN SemanticAction(rule, DefaultValue(rule), RightSide(rule)) ELSE NoValue
  IN  /\ Running /\ ~NeedsToken
      /\ Action < 0 /\ rule \notin 2..5
      /\ yyss' = stack
      /\ yyvs' = Store(Len(stack), yyval)
      /\ yyresult' = Entering(stack)
      /\ UNCHANGED <<values, yychar, yylval, parse_tree, yyarg, consumed, rest>>

Reduce ==
  LET rule == - Action
      stack == Append(Popped(rule), Goto(Last(Popped(rule)), rule))
      yyval == IF values THEN SemanticAction(rule, DefaultValue(rule), RightSide(rule)) ELSE NoValue
  IN  /\ Running /\ ~NeedsToken
      /\ Action < 0 /\ rule \notin 2..5
      /\ yyss' = stack
      /\ yyvs' = Store(Len(stack), yyval)
      /\ yyresult' = Entering(stack)
      /\ UNCHANGED <<values, yychar, yylval, parse_tree, yyarg, consumed, rest>>

(* The four rules of start end in YYACCEPT. *)
StartTree(rule) ==
  CASE rule = 2 -> IF values THEN Slot(Len(yyss) - 1).sv_node ELSE Unknown
    [] rule = 3 -> Help
    [] rule \in {4, 5} -> nullptr

Accept ==
  /\ Running /\ ~NeedsToken
  /\ -Action \in 2..5
  /\ parse_tree' = StartTree(-Action)
  /\ yyresult' = 0
  /\ yyss' = <<0>>
  /\ UNCHANGED <<values, yyvs, yychar, yylval, yyarg, consumed, rest>>

(* Variant: the table is read one entry too far. *)
ExpectedNextEntry(state) ==
  LET base == At(yypact, state)
      known == {t \in 0..YYNTOKENS-1 : t # YYTERROR /\ HasEntry(base, t + 1)}
  IN  IF Cardinality(known) > 4 THEN {} ELSE {At(yytname, t) : t \in known}

(* The tokens the message names: at most four, or none at all. *)
Expected(state) ==
  LET base == At(yypact, state)
      known == {t \in 0..YYNTOKENS-1 : t # YYTERROR /\ HasEntry(base, t)}
  IN  IF Cardinality(known) > 4 THEN {} ELSE {At(yytname, t) : t \in known}

(* A state on the stack that could go on after the error token. *)
Recovers(state) ==
  LET base == At(yypact, state)
  IN  base # YYPACT_NINF /\ HasEntry(base, YYTERROR) /\ Entry(base, YYTERROR) > 0

SyntaxError ==
  /\ Running /\ ~NeedsToken
  /\ Action = 0
  /\ yyarg' = Expected(State)
  /\ yyresult' = IF \E i \in DOMAIN yyss : Recovers(yyss[i]) THEN RECOVERING ELSE 1
  /\ yyss' = <<0>>
  /\ UNCHANGED <<values, yyvs, yychar, yylval, parse_tree, consumed, rest>>

Step == Shift \/ Reduce \/ Accept \/ SyntaxError

Returned == ~Running /\ UNCHANGED vars

Next == Step \/ Returned \/ yylex

Spec == Init /\ [][Next]_vars /\ WF_vars(Step)

-----------------------------------------------------------------------------
(* The states of the automaton, whole numbers of yacc.tab.c's range, and   *)
(* a result that yyparse can return: it never tries to go on after an      *)
(* error, because no state takes the error token.                          *)
TypeOK ==
  /\ values \in BOOLEAN
  /\ Range(yyss) \subseteq 0..110
  /\ yychar \in Tokens \cup {YYEMPTY}
  /\ yyresult \in {RUNNING, 0, 1, 2}
  /\ yyarg \subseteq Tokens
  /\ Range(consumed) \subseteq Tokens

(* yyparse accepts the sentences of the grammar in yacc.y and no others,   *)
(* and refuses a statement at its first token that cannot follow, for      *)
(* statements of every length.                                             *)
ImplementsGrammar == Grammar!Spec

(* The tree yyparse leaves in parse_tree says exactly what the statement   *)
(* said: every name and literal in its place, no condition from a popped   *)
(* slot when there is no WHERE clause.                                     *)
TreeOfStatement ==
  values /\ yyresult = 0 => TreeOf(parse_tree, consumed)

(* The stack is at most thirteen deep, however long the statement is, so   *)
(* yyparse, which cannot enlarge it, never ends with "memory exhausted".   *)
NeverExhausted == Len(yyss) <= 13 /\ yyresult # 2

(* Every token the error message calls expected could really have come.    *)
ExpectedTokensAllowed == \A token \in yyarg : Allows(rest, token)

(* A token that was read is shifted or the parse ends: no endless chain of *)
(* reductions.                                                             *)
TokenDecided == (yychar # YYEMPTY /\ Running) ~> (yychar = YYEMPTY \/ ~Running)
==============================================================================
