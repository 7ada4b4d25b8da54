------------------------ MODULE MCRedisConfirmation ------------------------
(***************************************************************************)
(* One chat takes a gated pause and a pause inside a workflow.  Channels   *)
(* are per request, so a second chat would only multiply the states.       *)
(***************************************************************************)
EXTENDS RedisConfirmation, TLC

CONSTANTS s1, r1, r2

MCStreams == {s1}
MCRequests == {r1, r2}
MCStreamOf == r1 :> s1 @@ r2 :> s1
MCWorkflowRequests == {r2}
=============================================================================
