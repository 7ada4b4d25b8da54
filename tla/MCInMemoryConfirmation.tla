----------------------- MODULE MCInMemoryConfirmation -----------------------
(***************************************************************************)
(* One chat takes a gated pause and a pause inside a workflow; another     *)
(* chat, on the same store, takes a pause inside a workflow.               *)
(***************************************************************************)
EXTENDS InMemoryConfirmation, TLC

CONSTANTS s1, s2, r1, r2, r3

MCStreams == {s1, s2}
MCRequests == {r1, r2, r3}
MCStreamOf == r1 :> s1 @@ r2 :> s1 @@ r3 :> s2
MCWorkflowRequests == {r2, r3}
=============================================================================
