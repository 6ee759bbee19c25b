--------------------------- MODULE SqlScannerRules ----------------------------
(***************************************************************************)
(* What the scanner is to recognise: the rules of src/parser/lex.l, in     *)
(* their order, as lex.yy.c was generated from them (its #line marks name  *)
(* every rule below; the four transaction keywords came later).            *)
(*                                                                         *)
(* A pattern is a sequence of elements, each a set of characters that      *)
(* stands there once or any number of times; a rule has one or more        *)
(* patterns.  RefScan is the definition of a scanner: the longest match,   *)
(* and of the rules that match it the first.                               *)
(***************************************************************************)
EXTENDS SqlScannerTables, SequencesExt

INITIAL == 1
STATE_COMMENT == 3

Alphabet == ToSet(Characters)

(***************************************************************************)
(* The definitions section.                                                *)
(***************************************************************************)
LowerCase == [A |-> "a", B |-> "b", C |-> "c", D |-> "d", E |-> "e", F |-> "f",
              H |-> "h", I |-> "i", J |-> "j", L |-> "l", M |-> "m", N |-> "n",
              O |-> "o", P |-> "p", R |-> "r", S |-> "s", T |-> "t", U |-> "u",
              V |-> "v", W |-> "w", X |-> "x"]

alpha == DOMAIN LowerCase \cup {LowerCase[c] : c \in DOMAIN LowerCase} \cup {"G"}
digit == {"0"}
single_op == {";", "(", ")", ",", "*", "=", ">", "<", "."}

Once(chars) == [chars |-> chars, many |-> FALSE]
Many(chars) == [chars |-> chars, many |-> TRUE]

sign == Once({"+", "-"})
white_space == <<Once({" "}), Many({" "})>>
new_line == << <<Once({"return"})>>, <<Once({"newline"})>>,
               <<Once({"return"}), Once({"newline"})>> >>
identifier == <<Once(alpha), Many({"_"} \cup alpha \cup digit)>>
digits == <<Once(digit), Many(digit)>>
value_int == <<digits, <<sign>> \o digits>>
value_float == [i \in DOMAIN value_int |-> value_int[i] \o <<Once({"."}), Many(digit)>>]
value_string == <<Once({"'"}), Many(Alphabet \ {"'"}), Once({"'"})>>

(* %option caseless *)
Keyword(letters) ==
  <<[i \in DOMAIN letters |-> Once({letters[i], LowerCase[letters[i]]})]>>

Literal(chars) == <<[i \in DOMAIN chars |-> Once({chars[i]})]>>

(***************************************************************************)
(* The rules section: [patterns, kind], where kind is the token the action *)
(* returns, or what else it does.                                          *)
(***************************************************************************)
Rule(patterns, kind) == [patterns |-> patterns, kind |-> kind]

CommentRules == <<
  Rule(Literal(<<"/", "*">>), "begin comment"),
  Rule(Literal(<<"*", "/">>), "end comment"),
  Rule(<< <<Once(Alphabet \ {"*"})>> >>, "skip"),
  Rule(Literal(<<"*">>), "skip"),
  Rule(<< <<Once({"-"}), Once({"-"}), Many(Alphabet \ {"newline"})>> >>, "skip"),
  Rule(<<white_space>>, "skip"),
  Rule(new_line, "skip")>>

KeywordRules == <<
  Rule(Keyword(<<"S", "H", "O", "W">>), "SHOW"),
  Rule(Keyword(<<"T", "A", "B", "L", "E", "S">>), "TABLES"),
  Rule(Keyword(<<"C", "R", "E", "A", "T", "E">>), "CREATE"),
  Rule(Keyword(<<"T", "A", "B", "L", "E">>), "TABLE"),
  Rule(Keyword(<<"D", "R", "O", "P">>), "DROP"),
  Rule(Keyword(<<"D", "E", "S", "C">>), "DESC"),
  Rule(Keyword(<<"I", "N", "S", "E", "R", "T">>), "INSERT"),
  Rule(Keyword(<<"I", "N", "T", "O">>), "INTO"),
  Rule(Keyword(<<"V", "A", "L", "U", "E", "S">>), "VALUES"),
  Rule(Keyword(<<"D", "E", "L", "E", "T", "E">>), "DELETE"),
  Rule(Keyword(<<"F", "R", "O", "M">>), "FROM"),
  Rule(Keyword(<<"W", "H", "E", "R", "E">>), "WHERE"),
  Rule(Keyword(<<"U", "P", "D", "A", "T", "E">>), "UPDATE"),
  Rule(Keyword(<<"S", "E", "T">>), "SET"),
  Rule(Keyword(<<"S", "E", "L", "E", "C", "T">>), "SELECT"),
  Rule(Keyword(<<"I", "N", "T">>), "INT"),
  Rule(Keyword(<<"C", "H", "A", "R">>), "CHAR"),
  Rule(Keyword(<<"F", "L", "O", "A", "T">>), "FLOAT"),
  Rule(Keyword(<<"I", "N", "D", "E", "X">>), "INDEX"),
  Rule(Keyword(<<"A", "N", "D">>), "AND"),
  Rule(Keyword(<<"J", "O", "I", "N">>), "JOIN"),
  Rule(Keyword(<<"E", "X", "I", "T">>), "EXIT"),
  Rule(Keyword(<<"H", "E", "L", "P">>), "HELP")>>

ValueRules == <<
  Rule(Literal(<<">", "=">>), "GEQ"),
  Rule(Literal(<<"<", "=">>), "LEQ"),
  Rule(Literal(<<"<", ">">>), "NEQ"),
  Rule(<< <<Once(single_op)>> >>, "operator"),
  Rule(<<identifier>>, "IDENTIFIER"),
  Rule(value_int, "VALUE_INT"),
  Rule(value_float, "VALUE_FLOAT"),
  Rule(<<value_string>>, "VALUE_STRING"),
  Rule(<< <<Once(Alphabet \ {"newline"})>> >>, "unexpected character"),
  Rule(<< <<Once(Alphabet)>> >>, "ECHO")>>       \* flex's own last rule

LexRules == CommentRules \o KeywordRules \o ValueRules

(* %x: no rule without <STATE_COMMENT> is active inside a comment. *)
ActiveRules(start) ==
  IF start = STATE_COMMENT THEN {2, 3, 4, YY_NUM_RULES}
                           ELSE (1..YY_NUM_RULES) \ {2, 3, 4}

(***************************************************************************)
(* How far a text has come in the patterns: <<r, p, i>> says that pattern  *)
(* p of rule r has matched it up to its i'th element.                      *)
(***************************************************************************)
Element(r, p, i) == LexRules[r].patterns[p][i]
Elements(r, p) == Len(LexRules[r].patterns[p])

LiveAtStart ==
  [start \in {INITIAL, STATE_COMMENT} |->
     UNION {{<<r, p, 1>> : p \in DOMAIN LexRules[r].patterns} :
              r \in ActiveRules(start)}]

RECURSIVE Advance(_, _, _, _)
Advance(r, p, i, c) ==
  IF i > Elements(r, p) THEN {}
  ELSE LET taken == c \in Element(r, p, i).chars
       IN  IF Element(r, p, i).many
           THEN (IF taken THEN {<<r, p, i>>} ELSE {}) \cup Advance(r, p, i + 1, c)
           ELSE IF taken THEN {<<r, p, i + 1>>} ELSE {}

LiveAfter(live, c) == UNION {Advance(l[1], l[2], l[3], c) : l \in live}

Matching(live) ==
  {l[1] : l \in {k \in live : \A i \in k[3]..Elements(k[1], k[2]) :
                                Element(k[1], k[2], i).many}}

FirstRule(live) == IF Matching(live) = {} THEN 0 ELSE Min(Matching(live))

(***************************************************************************)
(* The scanner by definition.  Longest(live, chars) is the length and the  *)
(* rule of the longest match at the head of chars.                         *)
(***************************************************************************)
RECURSIVE Longest(_, _, _, _)
Longest(live, chars, n, best) ==
  IF live = {} \/ n = Len(chars) THEN best
  ELSE LET after == LiveAfter(live, chars[n + 1])
       IN  Longest(after, chars, n + 1,
                   IF FirstRule(after) = 0
                   THEN best ELSE [len |-> n + 1, rule |-> FirstRule(after)])

TokenOf(rule, chars) ==
  CASE LexRules[rule].kind = "operator" -> [kind |-> chars[1], yytext |-> <<>>]
    [] LexRules[rule].kind = "VALUE_STRING" ->
         [kind |-> "VALUE_STRING", yytext |-> SubSeq(chars, 2, Len(chars) - 1)]
    [] LexRules[rule].kind \in {"IDENTIFIER", "VALUE_INT", "VALUE_FLOAT"} ->
         [kind |-> LexRules[rule].kind, yytext |-> chars]
    [] OTHER -> [kind |-> LexRules[rule].kind, yytext |-> <<>>]

Silent == {"begin comment", "end comment", "skip", "unexpected character", "ECHO"}

RECURSIVE RefScan(_, _)
RefScan(chars, start) ==
  IF chars = <<>> THEN [tokens |-> <<>>, start |-> start]
  ELSE LET best == Longest(LiveAtStart[start], chars, 0, [len |-> 0, rule |-> 0])
           kind == LexRules[best.rule].kind
           rest == RefScan(SubSeq(chars, best.len + 1, Len(chars)),
                           CASE kind = "begin comment" -> STATE_COMMENT
                             [] kind = "end comment"   -> INITIAL
                             [] OTHER                  -> start)
       IN  IF kind \in Silent THEN rest
           ELSE [rest EXCEPT !.tokens =
                   <<TokenOf(best.rule, SubSeq(chars, 1, best.len))>> \o @]
==============================================================================
