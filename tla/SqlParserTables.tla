--------------------------- MODULE SqlParserTables ---------------------------
(***************************************************************************)
(* The tables of the LALR automaton in src/parser/yacc.tab.c, number by    *)
(* number, and the look-ups yyparse makes in them.  Table[i] of the code   *)
(* is At(Table, i) here, because sequences count from one.                 *)
(***************************************************************************)
EXTENDS Integers, Sequences

(* The names of the tokens, in the order of their internal numbers. *)
yytname == <<
  "$end", "error", "$undefined", "SHOW", "TABLES", "CREATE", "TABLE", "DROP",
  "DESC", "INSERT", "INTO", "VALUES", "DELETE", "FROM", "WHERE", "UPDATE",
  "SET", "SELECT", "INT", "CHAR", "FLOAT", "INDEX", "AND", "JOIN", "EXIT",
  "HELP", "LEQ", "NEQ", "GEQ", "T_EOF", "IDENTIFIER", "VALUE_STRING",
  "VALUE_INT", "VALUE_FLOAT", ";", "(", ")", ",", ".", "=", "<", ">", "*">>

YYFINAL == 34
YYLAST == 101
YYNTOKENS == 43
YYPACT_NINF == -62
YYTERROR == 1

(* Variant: room for as many states as most statements need. *)
SmallStack == 12

YYINITDEPTH == 200

(* Where a state's actions start in yytable, and what it does by default. *)
yypact == <<
  42, 10, 7, 17, -19, 9, 12, -19, 1, -62, -62, -62, 27, -4, -62, -62, -62,
  -62, -19, -19, -19, -19, -62, -62, -19, -19, 21, 6, -62, -62, 11, 20, 8,
  -62, -62, -62, 23, 33, -62, 37, 44, 69, 26, 54, -19, 26, 26, 26, 26, 50,
  54, -62, -62, -5, -62, 47, -62, -11, -62, -62, 3, -62, 45, 52, 53, 49, -62,
  68, 34, 26, -62, 49, -19, -19, -62, -62, 26, -62, 56, -62, -62, -62, -62,
  -62, -62, -62, 16, -62, 54, -62, -62, -62, -62, -62, -62, 46, -62, -62,
  -62, -62, -62, 60, -62, 49, -62, -62, -62, -62, 57, -62, -62>>

yydefact == <<
  0, 0, 0, 0, 0, 0, 0, 0, 0, 4, 3, 5, 0, 0, 6, 7, 8, 9, 0, 0, 0, 0, 55, 12,
  0, 0, 0, 56, 50, 37, 51, 0, 0, 36, 1, 2, 0, 0, 11, 0, 0, 31, 0, 0, 0, 0, 0,
  0, 0, 0, 0, 16, 56, 31, 47, 0, 38, 31, 52, 35, 0, 19, 0, 0, 0, 0, 33, 32,
  0, 0, 17, 0, 0, 0, 18, 10, 0, 22, 0, 24, 21, 13, 14, 29, 27, 28, 0, 25, 0,
  43, 42, 44, 39, 40, 41, 0, 48, 49, 54, 53, 20, 0, 15, 0, 34, 45, 46, 30, 0,
  26, 23>>

(* The same for the states a nonterminal leads to. *)
yypgoto == <<
  -62, -62, -62, -62, -62, -62, -62, 18, -62, -62, -61, 13, -33, -62, -8,
  -62, -62, -62, -62, 28, -62, -62, -3, -40>>

yydefgoto == <<
  -1, 12, 13, 14, 15, 16, 60, 61, 80, 86, 87, 66, 51, 67, 68, 30, 95, 107,
  53, 54, 31, 57, 32, 33>>

(* What to do, and the token or state this entry is for. *)
yytable == <<
  29, 23, 55, 50, 26, 59, 62, 63, 64, 50, 97, 22, 72, 18, 17, 36, 37, 38, 39,
  24, 70, 40, 41, 20, 74, 25, 73, 34, 19, 55, 35, 27, 69, 44, 105, 56, 62,
  42, 21, 75, 76, 58, 109, 28, -55, 1, 45, 2, 43, 3, 4, 5, 102, 103, 6, 49,
  52, 7, 46, 8, 89, 90, 91, 77, 78, 79, 9, 10, 47, 98, 99, 11, 48, 92, 93,
  94, 27, 83, 84, 85, 83, 84, 85, 50, 27, 65, 71, 106, 81, 82, 88, 101, 108,
  110, 100, 0, 0, 96, 0, 0, 0, 104>>

yycheck == <<
  8, 4, 42, 14, 7, 45, 46, 47, 48, 14, 71, 30, 23, 6, 4, 18, 19, 20, 21, 10,
  53, 24, 25, 6, 57, 13, 37, 0, 21, 69, 34, 30, 37, 13, 95, 43, 76, 16, 21,
  36, 37, 44, 103, 42, 38, 3, 38, 5, 37, 7, 8, 9, 36, 37, 12, 11, 30, 15, 35,
  17, 26, 27, 28, 18, 19, 20, 24, 25, 35, 72, 73, 29, 35, 39, 40, 41, 30, 31,
  32, 33, 31, 32, 33, 14, 30, 35, 39, 95, 36, 36, 22, 35, 32, 36, 76, -1, -1,
  69, -1, -1, -1, 88>>

(* Left-hand side and length of every rule. *)
yyr1 == <<
  0, 43, 44, 44, 44, 44, 45, 45, 45, 46, 47, 47, 47, 47, 47, 48, 48, 48, 48,
  49, 49, 50, 51, 51, 51, 52, 52, 53, 53, 53, 54, 55, 55, 56, 56, 57, 57, 58,
  58, 59, 59, 59, 59, 59, 59, 60, 60, 61, 61, 62, 63, 63, 64, 64, 64, 65, 66>>

yyr2 == <<
  0, 2, 2, 1, 1, 1, 1, 1, 1, 2, 6, 3, 2, 6, 6, 7, 4, 5, 5, 1, 3, 2, 1, 4, 1,
  1, 3, 1, 1, 1, 3, 0, 2, 1, 3, 3, 1, 1, 3, 1, 1, 1, 1, 1, 1, 1, 1, 1, 3, 3,
  1, 1, 1, 3, 3, 1, 1>>

-----------------------------------------------------------------------------
At(table, i) == table[i + 1]

(* The internal number of a token. *)
YYTRANSLATE ==
  [token \in {yytname[i] : i \in 1..YYNTOKENS} |->
     (CHOOSE i \in 1..YYNTOKENS : yytname[i] = token) - 1]

(* Is there an entry for n in the part of yytable that starts at base? *)
HasEntry(base, n) ==
  /\ base + n \in 0..YYLAST
  /\ At(yycheck, base + n) = n

Entry(base, n) == At(yytable, base + n)

(* Variant: a state with a default action takes it whatever the token is. *)
DefaultFirst(state, token) ==
  LET base == At(yypact, state)
  IN  IF At(yydefact, state) = 0 /\ HasEntry(base, token)
      THEN Entry(base, token)
      ELSE - At(yydefact, state)

(* The rule or the state a look-up yields: positive for a shift, negative  *)
(* for a reduction, 0 for an error.                                        *)
ActionOf(state, token) ==
  LET base == At(yypact, state)
  IN  IF base # YYPACT_NINF /\ HasEntry(base, token)
      THEN Entry(base, token)
      ELSE - At(yydefact, state)

(* The state after a reduction by rule, on top of state. *)
Goto(state, rule) ==
  LET lhs == At(yyr1, rule) - YYNTOKENS
      base == At(yypgoto, lhs)
  IN  IF base + state \in 0..YYLAST /\ At(yycheck, base + state) = state
      THEN At(yytable, base + state)
      ELSE At(yydefgoto, lhs)
==============================================================================
