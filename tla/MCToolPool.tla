---------------------------- MODULE MCToolPool ----------------------------
(***************************************************************************)
(* Two servers, a chat.  The servers may publish the same tool, gated      *)
(* or not, a tool whose name begins with the server's, and a name of the   *)
(* registry's own.                                                         *)
(***************************************************************************)
EXTENDS ToolPool

CONSTANT c1

x == <<"x">>
y == <<"y">>
WorkflowNames == {<<"plan">>}
Configured == {<<>>, <<"s1", "s1">>, <<"s1", "s2">>}
OffersOf ==
  [s \in {"s1", "s2"} |->
     IF s = "s1"
     THEN {[n \in {x} |-> "requires_confirmation"],
           [n \in {x, <<"s1", "x">>} |-> IF n = x THEN "requires_confirmation" ELSE "none"],
           [n \in {y, <<"tool_load">>} |-> "none"]}
     ELSE {[n \in {x} |-> "other"], [n \in {y} |-> "requires_confirmation"]}]
=============================================================================
