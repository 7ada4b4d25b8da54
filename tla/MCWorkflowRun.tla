--------------------------- MODULE MCWorkflowRun ---------------------------
(***************************************************************************)
(* One run; the handler emits up to MaxEvents events before it ends.  Its  *)
(* events are stamped apart, all at once, only now and then, or by a clock *)
(* that steps back.                                                        *)
(***************************************************************************)
EXTENDS TranscriptGraph

MCStampings ==
  {[i \in 1..(MaxEvents + 2) |-> 100 * i],
   [i \in 1..(MaxEvents + 2) |-> 300],
   [i \in 1..(MaxEvents + 2) |-> 1000 - 100 * i],
   [i \in 1..(MaxEvents + 2) |-> IF i % 2 = 0 THEN 100 * i ELSE NoStamp]}
=============================================================================
