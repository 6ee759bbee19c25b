------------------------------ MODULE SqlGrammar ------------------------------
(***************************************************************************)
(* What a parser of a language promises.  It reads a statement token by    *)
(* token as long as the tokens can be the beginning of a sentence, accepts *)
(* it when they are one, and refuses it at the first token that cannot     *)
(* follow.  `rest' is what may still follow.                               *)
(***************************************************************************)
CONSTANTS
  None,         \* no token was looked at
  Statement,    \* what may follow before anything is read
  Follow(_)     \* Follow(P)[t]: what may follow t when P may follow before

VARIABLES rest, token, verdict

grammar == <<rest, token, verdict>>

Init ==
  /\ rest = Statement
  /\ token = None
  /\ verdict = "reading"

Reading == verdict = "reading"

LookAt ==
  /\ Reading /\ token = None
  /\ token' \in DOMAIN Follow(rest)
  /\ UNCHANGED <<rest, verdict>>

Consume ==
  /\ Reading /\ token # None
  /\ Follow(rest)[token] # {}
  /\ rest' = Follow(rest)[token]
  /\ token' = None
  /\ UNCHANGED verdict

Accept ==
  /\ Reading /\ token = None
  /\ <<>> \in rest
  /\ verdict' = "accepted"
  /\ UNCHANGED <<rest, token>>

Refuse ==
  /\ Reading /\ token # None
  /\ Follow(rest)[token] = {}
  /\ verdict' = "refused"
  /\ UNCHANGED <<rest, token>>

Next == LookAt \/ Consume \/ Accept \/ Refuse

Spec == Init /\ [][Next]_grammar
==============================================================================
