------------------------------- MODULE SqlLexer -------------------------------
(***************************************************************************)
(* The scanner of src/parser/lex.yy.c as client_handler drives it: a       *)
(* statement's text is copied into a buffer (yy_scan_string), yyparse      *)
(* calls yylex for one token after another, and yy_delete_buffer frees the *)
(* buffer.  yy_start, the start condition, is a static variable that no    *)
(* call resets: it lives from one statement to the next.                   *)
(*                                                                         *)
(* `work' is chosen once.  In the half "match" the automaton reads         *)
(* characters without end and nothing else happens, so that texts of every *)
(* length are compared with the rules of lex.l.  In the half "scan" whole  *)
(* statements of at most MaxText characters are scanned, one after the     *)
(* other without end.                                                      *)
(*                                                                         *)
(* Positions in a buffer count from 1.  Left out: the source locations,    *)
(* the messages, refilling a buffer from a file (these buffers have        *)
(* yy_fill_buffer = 0), and the NUL branch, as strlen ends the text at the *)
(* first NUL.                                                              *)
(***************************************************************************)
EXTENDS SqlScannerRules

CONSTANTS MaxText,      \* the length of the longest statement
          TextChars     \* the characters statements are made of

ASSUME TextAssumption == MaxText \in Nat /\ TextChars \subseteq Alphabet

VARIABLES work,               \* "match" or "scan"
          yy_current_state,   \* half "match": the automaton
          live,               \* half "match": what lex.l's rules still allow
          text, began,        \* the statement, and yy_start when it began
          yy_ch_buf,          \* the current buffer, or NULL
          yy_c_buf_p, yy_hold_char,
          yy_start,
          tokens,             \* what yylex has returned for this statement
          yylexing            \* yylex has skipped something and goes on

vars == <<work, yy_current_state, live, text, began, yy_ch_buf, yy_c_buf_p,
          yy_hold_char, yy_start, tokens, yylexing>>

NULL == <<>>
EOB == "\\0"            \* YY_END_OF_BUFFER_CHAR
T_EOF == [kind |-> "T_EOF", yytext |-> <<>>]

Texts == UNION {[1..n -> TextChars] : n \in 0..MaxText}

-------------------------------------------------------------------------------
(***************************************************************************)
(* One transition: follow yy_def to a state that has an entry for the      *)
(* class, through yy_meta once in the templates.                           *)
(***************************************************************************)
(* Variant: the class is not mapped through yy_meta. *)
RECURSIVE NextStateNoMeta(_, _)
NextStateNoMeta(s, c) ==
  IF At(yy_chk, At(yy_base, s) + c) = s THEN At(yy_nxt, At(yy_base, s) + c)
  ELSE NextStateNoMeta(At(yy_def, s), c)

RECURSIVE NextState(_, _)
NextState(s, c) ==
  IF At(yy_chk, At(yy_base, s) + c) = s THEN At(yy_nxt, At(yy_base, s) + c)
  ELSE LET d == At(yy_def, s)
       IN  NextState(d, IF d >= YY_TEMPLATES THEN At(yy_meta, c) ELSE c)

Transition ==
  [s \in 1..YY_TEMPLATES - 1 |-> [c \in 0..Len(Characters) |-> NextState(s, c)]]

Stopped(s) == At(yy_base, s) = YY_JAMBASE

Accepting(s, cp, last) ==
  IF At(yy_accept, s) # 0 THEN [state |-> s, cp |-> cp] ELSE last

(* yy_match: read characters until no transition is left. *)
RECURSIVE yy_match(_, _, _, _)
yy_match(buf, s, cp, last) ==
  LET next == Transition[s][IF buf[cp] = EOB THEN 0 ELSE yy_ec[buf[cp]]]
      seen == Accepting(s, cp, last)
  IN  IF Stopped(next) THEN [state |-> next, cp |-> cp + 1, last |-> seen]
      ELSE yy_match(buf, next, cp + 1, seen)

(* yy_get_previous_state: read up to, and not including, the end `to'. *)
RECURSIVE yy_get_previous_state(_, _, _, _, _)
yy_get_previous_state(buf, s, cp, to, last) ==
  IF cp = to THEN [state |-> s, cp |-> cp, last |-> last]
  ELSE yy_get_previous_state(
         buf, Transition[s][IF buf[cp] = EOB THEN 1 ELSE yy_ec[buf[cp]]], cp + 1, to,
         Accepting(s, cp, last))

(* yy_find_action: the rule, after backing up to the last accepting state  *)
(* if the present one accepts none.                                        *)
yy_find_action(m) ==
  IF At(yy_accept, m.state) # 0
  THEN [act |-> At(yy_accept, m.state), cp |-> m.cp]
  ELSE [act |-> At(yy_accept, m.last.state), cp |-> m.last.cp]

-------------------------------------------------------------------------------
Init ==
  /\ work \in {"match", "scan"}
  /\ yy_start \in IF work = "match" THEN {INITIAL, STATE_COMMENT} ELSE {INITIAL}
  /\ yy_current_state = IF work = "match" THEN yy_start ELSE 0
  /\ live = IF work = "match" THEN LiveAtStart[yy_start] ELSE {}
  /\ text = <<>> /\ began = yy_start
  /\ yy_ch_buf = NULL /\ yy_c_buf_p = 0 /\ yy_hold_char = EOB
  /\ tokens = <<>> /\ yylexing = FALSE

(* One turn of the loop of yy_match. *)
Match(c) ==
  /\ work = "match" /\ ~Stopped(yy_current_state)
  /\ yy_current_state' = Transition[yy_current_state][yy_ec[c]]
  /\ live' = LiveAfter(live, c)
  /\ UNCHANGED <<work, text, began, yy_ch_buf, yy_c_buf_p, yy_hold_char, yy_start,
                 tokens, yylexing>>

(* yy_scan_string, yy_scan_bytes, yy_scan_buffer and yy_switch_to_buffer   *)
(* (there is no current buffer then) up to yy_load_buffer_state.           *)
yy_scan_bytes(t) ==
  /\ text' = t /\ began' = yy_start
  /\ yy_ch_buf' = t \o <<EOB, EOB>>
  /\ yy_c_buf_p' = 1
  /\ yy_hold_char' = yy_ch_buf'[1]
  /\ tokens' = <<>>
  /\ UNCHANGED <<work, yy_current_state, live, yy_start, yylexing>>

yy_scan_string ==
  /\ work = "scan" /\ yy_ch_buf = NULL
  /\ \E t \in Texts : yy_scan_bytes(t)

(* Variant: a comment ends with the statement it began in. *)
StartResetAtEnd(act) ==
  CASE act = 1 -> STATE_COMMENT
    [] act \in {2, YY_END_OF_BUFFER} -> INITIAL
    [] OTHER -> yy_start

(* BEGIN in the actions of the rules. *)
StartAfter(act) ==
  CASE act = 1 -> STATE_COMMENT
    [] act = 2 -> INITIAL
    [] OTHER -> yy_start

(* The tokens that cases 8 to 33 of the action switch return. *)
Returns == <<
  "SHOW", "TABLES", "CREATE", "TABLE", "DROP", "DESC", "INSERT", "INTO",
  "VALUES", "DELETE", "FROM", "WHERE", "UPDATE", "SET", "SELECT", "INT",
  "CHAR", "FLOAT", "INDEX", "AND", "JOIN", "EXIT", "HELP", "GEQ", "LEQ", "NEQ">>

(* The action of a rule: a token, or nothing to return.  Of a literal the  *)
(* token holds the characters that become its value.                       *)
RuleAction(act, yytext) ==
  CASE act \in 8..33 -> <<[kind |-> Returns[act - 7], yytext |-> <<>>]>>
    [] act = 34 -> <<[kind |-> yytext[1], yytext |-> <<>>]>>
    [] act = 35 -> <<[kind |-> "IDENTIFIER", yytext |-> yytext]>>
    [] act = 36 -> <<[kind |-> "VALUE_INT", yytext |-> yytext]>>
    [] act = 37 -> <<[kind |-> "VALUE_FLOAT", yytext |-> yytext]>>
    [] act = 38 -> <<[kind |-> "VALUE_STRING",
                      yytext |-> SubSeq(yytext, 2, Len(yytext) - 1)]>>
    [] OTHER -> <<>>

(* Variant: text that no rule ends is kept for more input to come. *)
KeptForMore(buf, cp) ==
  LET found == yy_find_action(
                 yy_get_previous_state(buf, yy_start, yy_c_buf_p, Len(buf) - 1,
                                       [state |-> 0, cp |-> 0]))
  IN  CASE cp - yy_c_buf_p = 1 ->
             [eof |-> TRUE, act |-> YY_END_OF_BUFFER, cp |-> yy_c_buf_p]
        [] cp - yy_c_buf_p > 1 /\ found.cp < Len(buf) - 1 ->
             [eof |-> FALSE, act |-> 39, cp |-> yy_c_buf_p]
        [] OTHER -> [eof |-> FALSE, act |-> found.act, cp |-> found.cp]

(* yy_get_next_buffer: no more text comes, so the end has been reached if  *)
(* it was all that was read.                                               *)
yy_get_next_buffer(cp) ==
  IF cp - yy_c_buf_p = 1 THEN "EOB_ACT_END_OF_FILE" ELSE "EOB_ACT_LAST_MATCH"

(* YY_END_OF_BUFFER: T_EOF, or the match that the end cut short. *)
AtEndOfBuffer(buf, cp) ==
  IF yy_get_next_buffer(cp) = "EOB_ACT_END_OF_FILE"
  THEN [eof |-> TRUE, act |-> YY_END_OF_BUFFER, cp |-> yy_c_buf_p]
  ELSE LET found == yy_find_action(
                      yy_get_previous_state(buf, yy_start, yy_c_buf_p, Len(buf) - 1,
                                            [state |-> 0, cp |-> 0]))
       IN  [eof |-> FALSE, act |-> found.act, cp |-> found.cp]

AtEnd == tokens # <<>> /\ Last(tokens) = T_EOF

HeldCharBack == [yy_ch_buf EXCEPT ![yy_c_buf_p] = yy_hold_char]

(* One turn of yylex's outer loop: put the held character back, match,     *)
(* find the rule, and act.  YY_DO_BEFORE_ACTION ends yytext with a NUL,    *)
(* which is undone at the end of the buffer.                               *)
Turn ==
  LET buf   == HeldCharBack
      found == yy_find_action(yy_match(buf, yy_start, yy_c_buf_p,
                                       [state |-> 0, cp |-> 0]))
      taken == IF found.act = YY_END_OF_BUFFER THEN AtEndOfBuffer(buf, found.cp)
               ELSE [eof |-> FALSE, act |-> found.act, cp |-> found.cp]
  IN  IF taken.eof
      THEN [act |-> taken.act, buf |-> buf, hold |-> buf[found.cp],
            cp |-> taken.cp, token |-> <<T_EOF>>]
      ELSE [act |-> taken.act, buf |-> [buf EXCEPT ![taken.cp] = EOB],
            hold |-> buf[taken.cp], cp |-> taken.cp,
            token |-> RuleAction(taken.act, SubSeq(buf, yy_c_buf_p, taken.cp - 1))]

(* yyparse asks for no token after T_EOF. *)
Scan ==
  /\ yy_ch_buf # NULL /\ ~AtEnd
  /\ \E turn \in {Turn} :
       /\ yy_ch_buf' = turn.buf
       /\ yy_hold_char' = turn.hold
       /\ yy_c_buf_p' = turn.cp
       /\ yy_start' = StartAfter(turn.act)
       /\ tokens' = tokens \o turn.token
       /\ yylexing' = (turn.token = <<>>)
  /\ UNCHANGED <<work, yy_current_state, live, text, began>>

(* yyparse has returned, after T_EOF, a ';' or an error. *)
yy_delete_buffer ==
  /\ work = "scan" /\ yy_ch_buf # NULL /\ ~yylexing /\ tokens # <<>>
  /\ text' = <<>> /\ began' = yy_start /\ tokens' = <<>>
  /\ yy_ch_buf' = NULL /\ yy_c_buf_p' = 0 /\ yy_hold_char' = EOB
  /\ UNCHANGED <<work, yy_current_state, live, yy_start, yylexing>>

Matched == work = "match" /\ Stopped(yy_current_state) /\ UNCHANGED vars

Next ==
  \/ \E c \in Alphabet : Match(c)
  \/ yy_scan_string
  \/ Scan
  \/ yy_delete_buffer
  \/ Matched

(* A thread that is in yylex runs on. *)
Spec == Init /\ [][Next]_vars /\ WF_vars(Scan)

-------------------------------------------------------------------------------
TypeOK ==
  /\ work \in {"match", "scan"}
  /\ yy_current_state \in 0..YY_TEMPLATES - 1
  /\ \A l \in live : l[1] \in 1..YY_NUM_RULES
  /\ text \in Seq(TextChars) /\ Len(text) <= MaxText
  /\ {yy_start, began} \subseteq {INITIAL, STATE_COMMENT}
  /\ yy_ch_buf # NULL => /\ Len(yy_ch_buf) = Len(text) + 2
                         /\ yy_c_buf_p \in DOMAIN yy_ch_buf
  /\ yy_hold_char \in TextChars \cup {EOB}
  /\ \A i \in DOMAIN tokens : tokens[i].yytext \in Seq(TextChars)
  /\ yylexing \in BOOLEAN

(* After any characters, of any number, the automaton of lex.yy.c accepts  *)
(* exactly the first of lex.l's rules that match what was read, it is      *)
(* jammed exactly when no rule can match any more, and it stops early only *)
(* when no rule can go on.  The rule that echoes the input is never taken. *)
AutomatonIsRules ==
  work = "match" /\ yy_current_state # yy_start =>
    /\ At(yy_accept, yy_current_state) = FirstRule(live)
    /\ (yy_current_state = YY_TEMPLATES - 1) = (live = {})
    /\ Stopped(yy_current_state) => \A l \in live : l[3] > Elements(l[1], l[2])
    /\ At(yy_accept, yy_current_state) # YY_NUM_RULES

WithoutEof(ts) == SelectSeq(ts, LAMBDA t : t # T_EOF)

(* When yylex reports the end of a statement it has returned the tokens    *)
(* that lex.l's rules define for the text, none dropped, split or joined   *)
(* by a back-up or by the end of the buffer, and the start condition it    *)
(* leaves behind is that of the comments of the text, for a statement that *)
(* begins inside a comment an earlier one left open as for any other.      *)
TokensOfText ==
  AtEnd => LET ref == RefScan(text, began)
           IN  WithoutEof(tokens) = ref.tokens /\ yy_start = ref.start

(* A call of yylex returns: a text that no rule matches as a whole, such   *)
(* as a string without its closing quote, is not scanned again for ever.   *)
YylexReturns == yylexing ~> ~yylexing
==============================================================================
