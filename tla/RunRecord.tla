----------------------------- MODULE RunRecord -----------------------------
(***************************************************************************)
(* What a recorded run promises whoever reads its transcript or waits for  *)
(* its end: every event is recorded before it is shown and shown before    *)
(* the next is recorded; the record is marked at most once, perhaps when   *)
(* nobody waits any more, as a result if the whole of a run that ended in  *)
(* one was shown and as an error if not; and the mark stays true.          *)
(*                                                                         *)
(* WorkflowRun implements this module.                                     *)
(***************************************************************************)
EXTENDS Naturals, Sequences

VARIABLES
  emitted,     \* events of the handler, in order
  log,         \* those that are recorded
  delivered,   \* those that were shown
  footer,      \* the end-of-record marker
  reported,    \* the end that the model is told of
  closed       \* nothing more is shown or told

vars == <<emitted, log, delivered, footer, reported, closed>>

None == "none"
Terminal == {"result", "error"}

Over == emitted # <<>> /\ emitted[Len(emitted)] \in Terminal

Whole ==
  /\ Over /\ emitted[Len(emitted)] = "result"
  /\ Len(log) = Len(emitted) /\ Len(delivered) = Len(emitted)

Init ==
  /\ emitted = <<>> /\ log = <<>> /\ delivered = <<>>
  /\ footer = None /\ reported = None
  /\ closed = FALSE

\* The handler goes on, until a terminal event.
Emit ==
  /\ ~Over
  /\ Len(emitted') > Len(emitted)
  /\ \A i \in 1..Len(emitted) : emitted'[i] = emitted[i]
  /\ UNCHANGED <<log, delivered, footer, reported, closed>>

\* Its next event is recorded, once the one before was shown.
Record ==
  /\ Len(log) < Len(emitted)
  /\ Len(log) = Len(delivered)
  /\ log' = Append(log, emitted[Len(log) + 1])
  /\ UNCHANGED <<emitted, delivered, footer, reported, closed>>

Show ==
  /\ ~closed
  /\ footer = None
  /\ Len(delivered) < Len(log)
  /\ delivered' = Append(delivered, log[Len(delivered) + 1])
  /\ UNCHANGED <<emitted, log, footer, reported, closed>>

\* The mark says what was shown.  It may come when the record is closed.
Mark ==
  /\ footer = None
  /\ footer' = IF Whole THEN "result" ELSE "error"
  /\ UNCHANGED <<emitted, log, delivered, reported, closed>>

\* A result is told only when it is marked.
Close ==
  /\ ~closed
  /\ closed'
  /\ reported' \in Terminal \cup {None}
  /\ reported' = "result" => footer = "result"
  /\ UNCHANGED <<emitted, log, delivered, footer>>

Next == Emit \/ Record \/ Show \/ Mark \/ Close

Spec == Init /\ [][Next]_vars
=============================================================================
