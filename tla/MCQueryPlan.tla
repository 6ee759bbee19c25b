----------------------------- MODULE MCQueryPlan -----------------------------
(***************************************************************************)
(* QueryPlan on three tables, two of which have a column x, with one to    *)
(* three of them in a statement, in several orders, and with is_col as it  *)
(* is to be.  A statement has one condition, on columns written in any     *)
(* way, or two, or names up to two columns; the second condition is one of *)
(* four that meet the first in the same scan, in an earlier and in a later *)
(* one, or in none.                                                        *)
(***************************************************************************)
EXTENDS QueryPlan

MCSchema ==
  [a |-> <<[name |-> "x", len |-> 4], [name |-> "y", len |-> 3]>>,
   b |-> <<[name |-> "x", len |-> 4]>>,
   c |-> <<[name |-> "z", len |-> 2]>>]

Extra ==
  {ValCond(TabCol("a", "y"), "OP_NE", 1), ValCond(TabCol("c", "z"), "OP_GE", 1),
   ColCond(TabCol("b", "x"), "OP_LT", TabCol("a", "x")),
   ColCond(TabCol("a", "x"), "OP_LE", TabCol("c", "z"))}

ColsFrom(tabs) == UNION {ColsOf(t) : t \in Range(tabs)}

Wheres(tabs) ==
  {{}} \cup {{c} : c \in CondsOn(Written)}
       \cup {{c, d} : c \in CondsOn(ColsFrom(tabs)), d \in Extra}

MCTargets == {<<c>> : c \in Written} \cup {<<c, d>> : c, d \in Written}

MCStatements ==
  UNION {{[tab_names |-> tabs, targets |-> <<>>, where |-> w] : w \in Wheres(tabs)}
           \cup {[tab_names |-> tabs, targets |-> cols, where |-> {}] : cols \in MCTargets}
         : tabs \in {<<"a">>, <<"b", "a">>, <<"a", "b", "c">>, <<"c", "b", "a">>}}
=============================================================================
