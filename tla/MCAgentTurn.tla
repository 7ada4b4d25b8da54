---------------------------- MODULE MCAgentTurn ----------------------------
(***************************************************************************)
(* Two rounds, one retry, two calls a message: both budgets can run out.   *)
(***************************************************************************)
EXTENDS AgentTurn
=============================================================================
