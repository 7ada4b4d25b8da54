------------------------- MODULE WorkflowRunProofs -------------------------
(***************************************************************************)
(* Proofs about WorkflowRun, for handlers that emit any number of events,  *)
(* and about the diagrams TranscriptGraph draws of what they leave.        *)
(***************************************************************************)
EXTENDS TranscriptGraph, SequenceTheorems, WellFoundedInduction, TLAPS

\* How far the store and the agent are behind the queue, per place.
Progressed ==
  /\ taken <= Len(emitted)
  /\ reader = "header" => body = "unborn" /\ taken = 0 /\ Len(log) = 0
  /\ reader \in {"header", "get", "yield", "stopping"} =>
       Len(log) = taken /\ Len(delivered) = taken
  /\ reader = "append" => Len(log) = taken - 1 /\ Len(delivered) = taken - 1
  /\ reader = "appended" => Len(log) = taken /\ Len(delivered) = taken - 1
  /\ reader \in {"append", "appended", "yield"} => taken >= 1
  /\ Len(delivered) <= Len(log) /\ Len(log) <= taken /\ taken - 1 <= Len(delivered)
  /\ orphan # None =>
       /\ reader \in {"finally", "footered", "closed"}
       /\ taken >= 1 /\ Len(log) = taken - 1 /\ orphan = emitted[taken]

\* What is stored and delivered is what was emitted at the same place.
Faithful ==
  /\ \A i \in 1..Len(log) : log[i] = emitted[i]
  /\ \A i \in 1..Len(delivered) : delivered[i] = emitted[i]

\* A result or an error is the last of the events, with which the task ended.
IsLast(events, end) ==
  \A i \in 1..Len(events) :
    /\ events[i] = "result" => i = Len(events) /\ end = "returned"
    /\ events[i] = "error" => i = Len(events) /\ end = "raised"

TerminalIsLast == IsLast(emitted, body)

\* The recorder says "result" after it recorded and yielded one, and then only;
\* a footer, early or late, is its outcome, and there is one of them.
OutcomeIsEarned ==
  /\ outcome = "result" =>
       /\ reader \in {"yield", "finally", "footered", "closed"}
       /\ body = "returned" /\ orphan = None
       /\ Len(emitted) = taken /\ Len(log) = taken /\ Len(delivered) = taken
       /\ taken >= 1 /\ emitted[taken] = "result"
  /\ \A i \in 1..Len(delivered) : delivered[i] = "result" => outcome = "result"
  /\ reader \in {"header", "get", "append", "appended", "stopping", "yield", "finally"} =>
       footer = None /\ reported = None /\ late = None
  /\ reader = "footered" => footer = outcome /\ reported = None /\ late = None
  /\ footer \in {None, outcome} /\ late \in {None, outcome}
  /\ late # None => footer = None /\ reader = "closed"
  /\ reported = "result" => outcome = "result" /\ footer = "result"

RunInv == TypeOK /\ Progressed /\ Faithful /\ TerminalIsLast /\ OutcomeIsEarned

-----------------------------------------------------------------------------
LEMMA InitInv == Init => RunInv
BY DEF Init, RunInv, TypeOK, Progressed, Faithful, TerminalIsLast, IsLast, OutcomeIsEarned,
       None, Terminal, EventTypes, Bodies, Alive, Readers

\* Putting events on the queue keeps what was there.
LEMMA PutKeeps ==
  ASSUME TypeOK, NEW events \in Seq(EventTypes), Put(events)
  PROVE  /\ emitted' \in Seq(EventTypes)
         /\ Len(emitted') = Len(emitted) + Len(events)
         /\ \A i \in 1..Len(emitted) : emitted'[i] = emitted[i]
         /\ \A i \in 1..Len(events) : emitted'[Len(emitted) + i] = events[i]
<1>1. emitted \in Seq(EventTypes) /\ emitted' = emitted \o events
  BY DEF TypeOK, Put
<1>2. Len(emitted) \in Nat /\ Len(events) \in Nat
  BY <1>1, LenProperties
<1> QED BY <1>1, <1>2, ConcatProperties

\* A step of the task: it puts events other than a result, or it returns.
LEMMA BodyStepInv ==
  ASSUME RunInv, NEW events \in Seq(EventTypes), Put(events),
         body \in Alive, body' \in Bodies \ {"unborn"},
         IsLast(events, body')
  PROVE  RunInv'
<1>1. /\ emitted' \in Seq(EventTypes)
      /\ Len(emitted') = Len(emitted) + Len(events)
      /\ \A i \in 1..Len(emitted) : emitted'[i] = emitted[i]
      /\ \A i \in 1..Len(events) : emitted'[Len(emitted) + i] = events[i]
  BY PutKeeps DEF RunInv
<1>2. /\ emitted \in Seq(EventTypes) /\ Len(emitted) \in Nat /\ Len(events) \in Nat
      /\ log \in Seq(EventTypes) /\ Len(log) \in Nat
      /\ delivered \in Seq(EventTypes) /\ Len(delivered) \in Nat /\ taken \in Nat
  BY DEF RunInv, TypeOK
<1>3. UNCHANGED <<hooked, reader, inner, ending, outcome, taken, delivered,
                  reported, log, footer, orphan, late>>
  BY DEF Put, readerVars, storeVars
<1>4. TypeOK'
  BY <1>1, <1>3 DEF RunInv, TypeOK
<1>5. body \notin {"unborn", "returned", "raised"}
  BY DEF Alive
<1>6. Progressed'
  BY <1>1, <1>2, <1>3, <1>5 DEF RunInv, Progressed
<1>7. Faithful'
  BY <1>1, <1>2, <1>3 DEF RunInv, Faithful, Progressed
<1>8. TerminalIsLast'
  <2> SUFFICES ASSUME NEW i \in 1..Len(emitted'), emitted'[i] \in Terminal
               PROVE  /\ i = Len(emitted')
                      /\ emitted'[i] = "result" => body' = "returned"
                      /\ emitted'[i] = "error" => body' = "raised"
    BY DEF TerminalIsLast, IsLast, Terminal
  <2>1. i \notin 1..Len(emitted)
    BY <1>1, <1>5 DEF RunInv, TerminalIsLast, IsLast, Terminal
  <2> DEFINE j == i - Len(emitted)
  <2>2. j \in 1..Len(events) /\ i = Len(emitted) + j
    BY <1>1, <1>2, <2>1
  <2>3. emitted'[i] = events[j]
    BY <1>1, <2>2
  <2> HIDE DEF j
  <2> QED BY <1>1, <1>2, <2>2, <2>3 DEF IsLast, Terminal
<1>9. OutcomeIsEarned'
  BY <1>3, <1>5 DEF RunInv, OutcomeIsEarned
<1> QED BY <1>4, <1>6, <1>7, <1>8, <1>9 DEF RunInv

LEMMA BodyInv == RunInv /\ BodySteps => RunInv'
<1> SUFFICES ASSUME RunInv, BodySteps PROVE RunInv'
  OBVIOUS
<1>1. <<>> \in Seq(EventTypes) /\ Len(<<>>) = 0
  OBVIOUS
<1>2. ASSUME NEW t \in EventTypes
      PROVE  <<t>> \in Seq(EventTypes) /\ Len(<<t>>) = 1 /\ <<t>>[1] = t
  OBVIOUS
<1>3. LET e == <<"request", "resolved">>
      IN  e \in Seq(EventTypes) /\ Len(e) = 2 /\ e[1] = "request" /\ e[2] = "resolved"
  BY DEF EventTypes
<1>4. {"status", "request", "resolved", "result", "error"} \subseteq EventTypes
  BY DEF EventTypes, Terminal
<1>5. CASE EmitStatus
  <2> DEFINE events == <<"status">>
  <2>1. Put(events) /\ body \in Alive /\ body' \in Bodies \ {"unborn"}
    BY <1>5 DEF EmitStatus, Alive, Bodies
  <2>2. events \in Seq(EventTypes) /\ IsLast(events, body')
    BY <1>5, <1>2, <1>4 DEF EmitStatus, IsLast
  <2> QED BY <2>1, <2>2, BodyStepInv
<1>6. CASE Pause
  <2> DEFINE events == <<"request">>
  <2>1. Put(events) /\ body \in Alive /\ body' \in Bodies \ {"unborn"}
    BY <1>6 DEF Pause, Alive, Bodies
  <2>2. events \in Seq(EventTypes) /\ IsLast(events, body')
    BY <1>6, <1>2, <1>4 DEF Pause, IsLast
  <2> QED BY <2>1, <2>2, BodyStepInv
<1>7. CASE PauseEnds
  <2> DEFINE events == <<"resolved">>
  <2>1. Put(events) /\ body \in Alive /\ body' \in Bodies \ {"unborn"}
    BY <1>7 DEF PauseEnds, Alive, Bodies
  <2>2. events \in Seq(EventTypes) /\ IsLast(events, body')
    BY <1>7, <1>2, <1>4 DEF PauseEnds, IsLast
  <2> QED BY <2>1, <2>2, BodyStepInv
<1>8. CASE HookRaises
  <2> DEFINE events == <<>>
  <2>1. Put(events) /\ body \in Alive /\ body' \in Bodies \ {"unborn"}
    BY <1>8 DEF HookRaises, Alive, Bodies
  <2>2. events \in Seq(EventTypes) /\ IsLast(events, body')
    BY <1>8, <1>1, <1>4 DEF HookRaises, IsLast
  <2> QED BY <2>1, <2>2, BodyStepInv
<1>9. CASE AutoConfirm
  <2> DEFINE events == <<"request", "resolved">>
  <2>1. Put(events) /\ body \in Alive /\ body' \in Bodies \ {"unborn"}
    BY <1>9 DEF AutoConfirm, Alive, Bodies
  <2>2. events \in Seq(EventTypes) /\ IsLast(events, body')
    BY <1>9, <1>3, <1>4 DEF AutoConfirm, IsLast
  <2> QED BY <2>1, <2>2, BodyStepInv
<1>10. CASE HandlerReturns
  <2> DEFINE events == <<"result">>
  <2>1. Put(events) /\ body \in Alive /\ body' \in Bodies \ {"unborn"}
    BY <1>10 DEF HandlerReturns, Alive, Bodies
  <2>2. events \in Seq(EventTypes) /\ IsLast(events, body')
    BY <1>10, <1>2, <1>4 DEF HandlerReturns, IsLast
  <2> QED BY <2>1, <2>2, BodyStepInv
<1>11. CASE HandlerRaises
  <2> DEFINE events == <<"error">>
  <2>1. Put(events) /\ body \in Alive /\ body' \in Bodies \ {"unborn"}
    BY <1>11 DEF HandlerRaises, Alive, Bodies
  <2>2. events \in Seq(EventTypes) /\ IsLast(events, body')
    BY <1>11, <1>2, <1>4 DEF HandlerRaises, IsLast
  <2> QED BY <2>1, <2>2, BodyStepInv
<1>12. CASE HandlerCancelled
  <2> DEFINE events == <<>>
  <2>1. Put(events) /\ body \in Alive /\ body' \in Bodies \ {"unborn"}
    BY <1>12 DEF HandlerCancelled, Alive, Bodies
  <2>2. events \in Seq(EventTypes) /\ IsLast(events, body')
    BY <1>12, <1>1, <1>4 DEF HandlerCancelled, IsLast
  <2> QED BY <2>1, <2>2, BodyStepInv
<1>13. CASE CancelWakes
  <2> DEFINE events == <<>>
  <2>1. Put(events) /\ body \in Alive /\ body' \in Bodies \ {"unborn"}
    BY <1>13 DEF CancelWakes, Alive, Bodies
  <2>2. events \in Seq(EventTypes) /\ IsLast(events, body')
    BY <1>13, <1>1, <1>4 DEF CancelWakes, IsLast
  <2> QED BY <2>1, <2>2, BodyStepInv
<1> QED BY <1>5, <1>6, <1>7, <1>8, <1>9, <1>10, <1>11, <1>12, <1>13 DEF BodySteps

\* Appending the event at hand to the log or to what was delivered.
LEMMA AppendKeeps ==
  ASSUME NEW s \in Seq(EventTypes), NEW e \in EventTypes
  PROVE  /\ Append(s, e) \in Seq(EventTypes)
         /\ Len(Append(s, e)) = Len(s) + 1
         /\ \A i \in 1..Len(s) : Append(s, e)[i] = s[i]
         /\ Append(s, e)[Len(s) + 1] = e
BY AppendProperties

\* Steps of the reader that touch neither the log nor what was delivered, and
\* leave the task alone or cancel it.
LEMMA ReaderInv ==
  ASSUME RunInv, UNCHANGED <<hooked, emitted, log, delivered>>,
         HeaderWritten \/ HeaderFails \/ Take \/ AppendFails \/ PullNext \/ LeaveAtGet
         \/ Stopped \/ LeaveAtAppend \/ LeaveAtYield \/ CloseInner \/ FooterLands
         \/ WriteFooter \/ FooterFails \/ LeaveAtFooter \/ LateFooterEnds
  PROVE  RunInv'
<1>1. /\ emitted \in Seq(EventTypes) /\ Len(emitted) \in Nat /\ Len(log) \in Nat
      /\ Len(delivered) \in Nat /\ taken \in Nat
      /\ taken >= 1 => emitted[taken] \in EventTypes
  BY DEF RunInv, TypeOK, Progressed
<1> USE DEF Alive, Bodies, Readers, None, Terminal, EventTypes
<1>2. CASE HeaderWritten
  <2>1. TypeOK'
    BY <1>1, <1>2 DEF HeaderWritten, CancelTask, Answer, RunInv, TypeOK, Progressed, storeVars
  <2>2. Progressed'
    BY <1>1, <1>2 DEF HeaderWritten, CancelTask, RunInv, TypeOK, Progressed, storeVars
  <2>3. Faithful' /\ TerminalIsLast'
    BY <1>2 DEF HeaderWritten, RunInv, Progressed, Faithful, TerminalIsLast, IsLast
  <2>4. OutcomeIsEarned'
    BY <1>1, <1>2 DEF HeaderWritten, CancelTask, Answer, RunInv, TypeOK, Progressed,
       OutcomeIsEarned, storeVars
  <2> QED BY <2>1, <2>2, <2>3, <2>4 DEF RunInv
<1>3. CASE HeaderFails
  <2>1. TypeOK'
    BY <1>1, <1>3 DEF HeaderFails, CancelTask, Answer, RunInv, TypeOK, Progressed, storeVars
  <2>2. Progressed'
    BY <1>1, <1>3 DEF HeaderFails, CancelTask, RunInv, TypeOK, Progressed, storeVars
  <2>3. Faithful' /\ TerminalIsLast'
    BY <1>3 DEF HeaderFails, CancelTask, RunInv, Faithful, TerminalIsLast
  <2>4. OutcomeIsEarned'
    BY <1>1, <1>3 DEF HeaderFails, CancelTask, Answer, RunInv, TypeOK, Progressed,
       OutcomeIsEarned, storeVars
  <2> QED BY <2>1, <2>2, <2>3, <2>4 DEF RunInv
<1>4. CASE Take
  <2>1. TypeOK'
    BY <1>1, <1>4 DEF Take, CancelTask, Answer, RunInv, TypeOK, Progressed, storeVars
  <2>2. Progressed'
    BY <1>1, <1>4 DEF Take, CancelTask, RunInv, TypeOK, Progressed, storeVars
  <2>3. Faithful' /\ TerminalIsLast'
    BY <1>4 DEF Take, CancelTask, RunInv, Faithful, TerminalIsLast
  <2>4. OutcomeIsEarned'
    BY <1>1, <1>4 DEF Take, CancelTask, Answer, RunInv, TypeOK, Progressed,
       OutcomeIsEarned, storeVars
  <2> QED BY <2>1, <2>2, <2>3, <2>4 DEF RunInv
<1>5. CASE AppendFails
  <2>1. TypeOK'
    BY <1>1, <1>5 DEF AppendFails, CancelTask, Answer, RunInv, TypeOK, Progressed, storeVars
  <2>2. Progressed'
    BY <1>1, <1>5 DEF AppendFails, CancelTask, RunInv, TypeOK, Progressed, storeVars
  <2>3. Faithful' /\ TerminalIsLast'
    BY <1>5 DEF AppendFails, CancelTask, RunInv, Faithful, TerminalIsLast
  <2>4. OutcomeIsEarned'
    BY <1>1, <1>5 DEF AppendFails, CancelTask, Answer, RunInv, TypeOK, Progressed,
       OutcomeIsEarned, storeVars
  <2> QED BY <2>1, <2>2, <2>3, <2>4 DEF RunInv
<1>6. CASE PullNext
  <2>1. TypeOK'
    BY <1>1, <1>6 DEF PullNext, CancelTask, Answer, RunInv, TypeOK, Progressed, storeVars
  <2>2. Progressed'
    BY <1>1, <1>6 DEF PullNext, CancelTask, RunInv, TypeOK, Progressed, storeVars
  <2>3. Faithful' /\ TerminalIsLast'
    BY <1>6 DEF PullNext, CancelTask, RunInv, Faithful, TerminalIsLast
  <2>4. OutcomeIsEarned'
    BY <1>1, <1>6 DEF PullNext, CancelTask, Answer, RunInv, TypeOK, Progressed,
       OutcomeIsEarned, storeVars
  <2> QED BY <2>1, <2>2, <2>3, <2>4 DEF RunInv
<1>7. CASE LeaveAtGet
  <2>1. TypeOK'
    BY <1>1, <1>7 DEF LeaveAtGet, CancelTask, Answer, RunInv, TypeOK, Progressed, storeVars
  <2>2. Progressed'
    BY <1>1, <1>7 DEF LeaveAtGet, CancelTask, RunInv, TypeOK, Progressed, storeVars
  <2>3. Faithful' /\ TerminalIsLast'
    BY <1>7 DEF LeaveAtGet, CancelTask, RunInv, Faithful, TerminalIsLast, IsLast
  <2>4. OutcomeIsEarned'
    BY <1>1, <1>7 DEF LeaveAtGet, CancelTask, Answer, RunInv, TypeOK, Progressed,
       OutcomeIsEarned, storeVars
  <2> QED BY <2>1, <2>2, <2>3, <2>4 DEF RunInv
<1>8. CASE Stopped
  <2>1. TypeOK'
    BY <1>1, <1>8 DEF Stopped, CancelTask, Answer, RunInv, TypeOK, Progressed, storeVars
  <2>2. Progressed'
    BY <1>1, <1>8 DEF Stopped, CancelTask, RunInv, TypeOK, Progressed, storeVars
  <2>3. Faithful' /\ TerminalIsLast'
    BY <1>8 DEF Stopped, CancelTask, RunInv, Faithful, TerminalIsLast
  <2>4. OutcomeIsEarned'
    BY <1>1, <1>8 DEF Stopped, CancelTask, Answer, RunInv, TypeOK, Progressed,
       OutcomeIsEarned, storeVars
  <2> QED BY <2>1, <2>2, <2>3, <2>4 DEF RunInv
<1>9. CASE LeaveAtAppend
  <2>1. TypeOK'
    BY <1>1, <1>9 DEF LeaveAtAppend, CancelTask, Answer, RunInv, TypeOK, Progressed, storeVars
  <2>2. Progressed'
    BY <1>1, <1>9 DEF LeaveAtAppend, CancelTask, RunInv, TypeOK, Progressed, storeVars
  <2>3. Faithful' /\ TerminalIsLast'
    BY <1>9 DEF LeaveAtAppend, CancelTask, RunInv, Faithful, TerminalIsLast
  <2>4. OutcomeIsEarned'
    BY <1>1, <1>9 DEF LeaveAtAppend, CancelTask, Answer, RunInv, TypeOK, Progressed,
       OutcomeIsEarned, storeVars
  <2> QED BY <2>1, <2>2, <2>3, <2>4 DEF RunInv
<1>10. CASE LeaveAtYield
  <2>1. TypeOK'
    BY <1>1, <1>10 DEF LeaveAtYield, CancelTask, Answer, RunInv, TypeOK, Progressed, storeVars
  <2>2. Progressed'
    BY <1>1, <1>10 DEF LeaveAtYield, CancelTask, RunInv, TypeOK, Progressed, storeVars
  <2>3. Faithful' /\ TerminalIsLast'
    BY <1>10 DEF LeaveAtYield, CancelTask, RunInv, Faithful, TerminalIsLast
  <2>4. OutcomeIsEarned'
    BY <1>1, <1>10 DEF LeaveAtYield, CancelTask, Answer, RunInv, TypeOK, Progressed,
       OutcomeIsEarned, storeVars
  <2> QED BY <2>1, <2>2, <2>3, <2>4 DEF RunInv
<1>11. CASE CloseInner
  <2>1. TypeOK'
    BY <1>1, <1>11 DEF CloseInner, CancelTask, Answer, RunInv, TypeOK, Progressed, storeVars
  <2>2. Progressed'
    BY <1>1, <1>11 DEF CloseInner, CancelTask, RunInv, TypeOK, Progressed, storeVars
  <2>3. Faithful' /\ TerminalIsLast'
    BY <1>11 DEF CloseInner, CancelTask, RunInv, Faithful, TerminalIsLast, IsLast
  <2>4. OutcomeIsEarned'
    BY <1>1, <1>11 DEF CloseInner, CancelTask, Answer, RunInv, TypeOK, Progressed,
       OutcomeIsEarned, storeVars
  <2> QED BY <2>1, <2>2, <2>3, <2>4 DEF RunInv
<1>12. CASE FooterLands
  <2>1. TypeOK'
    BY <1>1, <1>12 DEF FooterLands, Answer, RunInv, TypeOK, OutcomeIsEarned, readerVars, storeVars
  <2>2. Progressed'
    BY <1>1, <1>12 DEF FooterLands, RunInv, TypeOK, Progressed, OutcomeIsEarned, readerVars, storeVars
  <2>3. Faithful' /\ TerminalIsLast'
    BY <1>12 DEF FooterLands, RunInv, Faithful, TerminalIsLast, readerVars
  <2>4. OutcomeIsEarned'
    BY <1>1, <1>12 DEF FooterLands, Answer, RunInv, TypeOK, Progressed,
       OutcomeIsEarned, readerVars, storeVars
  <2> QED BY <2>1, <2>2, <2>3, <2>4 DEF RunInv
<1>13. CASE WriteFooter
  <2>1. TypeOK'
    BY <1>1, <1>13 DEF WriteFooter, Answer, RunInv, TypeOK, OutcomeIsEarned, readerVars, storeVars
  <2>2. Progressed'
    BY <1>1, <1>13 DEF WriteFooter, RunInv, TypeOK, Progressed, OutcomeIsEarned, readerVars, storeVars
  <2>3. Faithful' /\ TerminalIsLast'
    BY <1>13 DEF WriteFooter, RunInv, Faithful, TerminalIsLast, readerVars
  <2>4. OutcomeIsEarned'
    BY <1>1, <1>13 DEF WriteFooter, Answer, RunInv, TypeOK, Progressed,
       OutcomeIsEarned, readerVars, storeVars
  <2> QED BY <2>1, <2>2, <2>3, <2>4 DEF RunInv
<1>14. CASE FooterFails
  <2>1. TypeOK'
    BY <1>1, <1>14 DEF FooterFails, Answer, RunInv, TypeOK, OutcomeIsEarned, readerVars, storeVars
  <2>2. Progressed'
    BY <1>1, <1>14 DEF FooterFails, RunInv, TypeOK, Progressed, OutcomeIsEarned, readerVars, storeVars
  <2>3. Faithful' /\ TerminalIsLast'
    BY <1>14 DEF FooterFails, RunInv, Faithful, TerminalIsLast, readerVars
  <2>4. OutcomeIsEarned'
    BY <1>1, <1>14 DEF FooterFails, Answer, RunInv, TypeOK, Progressed,
       OutcomeIsEarned, readerVars, storeVars
  <2> QED BY <2>1, <2>2, <2>3, <2>4 DEF RunInv
<1>15. CASE LeaveAtFooter
  <2>1. TypeOK'
    BY <1>1, <1>15 DEF LeaveAtFooter, Answer, RunInv, TypeOK, OutcomeIsEarned, readerVars, storeVars
  <2>2. Progressed'
    BY <1>1, <1>15 DEF LeaveAtFooter, RunInv, TypeOK, Progressed, OutcomeIsEarned, readerVars, storeVars
  <2>3. Faithful' /\ TerminalIsLast'
    BY <1>15 DEF LeaveAtFooter, RunInv, Faithful, TerminalIsLast, readerVars
  <2>4. OutcomeIsEarned'
    BY <1>1, <1>15 DEF LeaveAtFooter, Answer, RunInv, TypeOK, Progressed,
       OutcomeIsEarned, readerVars, storeVars
  <2> QED BY <2>1, <2>2, <2>3, <2>4 DEF RunInv
<1>16. CASE LateFooterEnds
  <2>1. TypeOK'
    BY <1>1, <1>16 DEF LateFooterEnds, Answer, RunInv, TypeOK, OutcomeIsEarned, readerVars, storeVars
  <2>2. Progressed'
    BY <1>1, <1>16 DEF LateFooterEnds, RunInv, TypeOK, Progressed, OutcomeIsEarned, readerVars, storeVars
  <2>3. Faithful' /\ TerminalIsLast'
    BY <1>16 DEF LateFooterEnds, RunInv, Faithful, TerminalIsLast, readerVars
  <2>4. OutcomeIsEarned'
    BY <1>1, <1>16 DEF LateFooterEnds, Answer, RunInv, TypeOK, Progressed,
       OutcomeIsEarned, readerVars, storeVars
  <2> QED BY <2>1, <2>2, <2>3, <2>4 DEF RunInv
<1> QED BY <1>2, <1>3, <1>4, <1>5, <1>6, <1>7, <1>8, <1>9, <1>10, <1>11, <1>12, <1>13,
           <1>14, <1>15, <1>16

LEMMA LandsInv == RunInv /\ AppendLands => RunInv'
<1> SUFFICES ASSUME RunInv, AppendLands PROVE RunInv'
  OBVIOUS
<1>1. /\ emitted \in Seq(EventTypes) /\ log \in Seq(EventTypes) /\ taken \in Nat
      /\ taken >= 1 /\ taken <= Len(emitted) /\ Len(log) = taken - 1
      /\ Len(delivered) \in Nat /\ Len(delivered) = taken - 1
      /\ reader = "append" /\ orphan = None /\ outcome # "result"
  BY DEF RunInv, TypeOK, Progressed, OutcomeIsEarned, AppendLands, None
<1>2. emitted[taken] \in EventTypes
  BY <1>1
<1>3. /\ log' \in Seq(EventTypes) /\ Len(log') = taken
      /\ \A i \in 1..(taken - 1) : log'[i] = log[i]
      /\ log'[taken] = emitted[taken]
  BY <1>1, <1>2, AppendKeeps DEF AppendLands
<1>4. TypeOK'
  BY <1>3 DEF RunInv, TypeOK, AppendLands, Readers
<1>5. Progressed'
  BY <1>1, <1>3 DEF RunInv, Progressed, AppendLands
<1>6. Faithful' /\ TerminalIsLast'
  BY <1>1, <1>3 DEF RunInv, Faithful, TerminalIsLast, AppendLands
<1>7. OutcomeIsEarned'
  BY <1>1 DEF RunInv, OutcomeIsEarned, AppendLands
<1> QED BY <1>4, <1>5, <1>6, <1>7 DEF RunInv

LEMMA YieldInv == RunInv /\ YieldEvent => RunInv'
<1> SUFFICES ASSUME RunInv, YieldEvent PROVE RunInv'
  OBVIOUS
<1>1. /\ emitted \in Seq(EventTypes) /\ delivered \in Seq(EventTypes) /\ taken \in Nat
      /\ taken >= 1 /\ taken <= Len(emitted) /\ Len(delivered) = taken - 1
      /\ Len(log) \in Nat /\ Len(log) = taken
      /\ reader = "appended" /\ orphan = None /\ outcome # "result"
      /\ Len(emitted) \in Nat
  BY DEF RunInv, TypeOK, Progressed, OutcomeIsEarned, YieldEvent, None
<1>2. emitted[taken] \in EventTypes
  BY <1>1
<1>3. /\ delivered' \in Seq(EventTypes) /\ Len(delivered') = taken
      /\ \A i \in 1..(taken - 1) : delivered'[i] = delivered[i]
      /\ delivered'[taken] = emitted[taken]
  BY <1>1, <1>2, AppendKeeps DEF YieldEvent
<1>4. outcome' = "result" =>
        emitted[taken] = "result" /\ taken = Len(emitted) /\ body = "returned"
  BY <1>1 DEF RunInv, TerminalIsLast, IsLast, YieldEvent
<1>5. TypeOK'
  BY <1>3 DEF RunInv, TypeOK, YieldEvent, Readers, Terminal, storeVars
<1>6. Progressed'
  BY <1>1, <1>3 DEF RunInv, Progressed, YieldEvent, storeVars
<1>7. Faithful' /\ TerminalIsLast'
  BY <1>1, <1>3 DEF RunInv, Faithful, TerminalIsLast, YieldEvent, storeVars
<1>8. OutcomeIsEarned'
  <2>1. /\ footer' = None /\ late' = None /\ reported' = None /\ reader' = "yield"
        /\ UNCHANGED <<emitted, body, orphan, log, taken>>
    BY <1>1 DEF RunInv, OutcomeIsEarned, YieldEvent, storeVars
  <2>2. ASSUME NEW i \in 1..Len(delivered'), delivered'[i] = "result"
        PROVE  outcome' = "result"
    <3>1. i \in 1..(taken - 1) \/ i = taken
      BY <1>1, <1>3
    <3>2. ASSUME i \in 1..(taken - 1) PROVE FALSE
      BY <1>1, <1>3, <2>2, <3>2 DEF RunInv, OutcomeIsEarned
    <3> QED BY <1>3, <2>2, <3>1, <3>2 DEF YieldEvent, Terminal
  <2> QED BY <1>1, <1>3, <1>4, <2>1, <2>2 DEF OutcomeIsEarned, None
<1> QED BY <1>5, <1>6, <1>7, <1>8 DEF RunInv

LEMMA OrphanInv == RunInv /\ OrphanEnds => RunInv'
<1> SUFFICES ASSUME RunInv, OrphanEnds PROVE RunInv'
  OBVIOUS
<1>1. /\ emitted \in Seq(EventTypes) /\ log \in Seq(EventTypes) /\ taken \in Nat
      /\ taken >= 1 /\ taken <= Len(emitted) /\ Len(log) = taken - 1
      /\ Len(delivered) \in Nat /\ Len(delivered) <= Len(log)
      /\ reader \in {"finally", "footered", "closed"} /\ orphan = emitted[taken]
      /\ outcome # "result"
  BY DEF RunInv, TypeOK, Progressed, OutcomeIsEarned, OrphanEnds
<1>2. emitted[taken] \in EventTypes
  BY <1>1
<1>3. \/ log' = log
      \/ /\ log' \in Seq(EventTypes) /\ Len(log') = taken
         /\ \A i \in 1..(taken - 1) : log'[i] = log[i]
         /\ log'[taken] = emitted[taken]
  <2>1. log' = log \/ log' = Append(log, emitted[taken])
    BY <1>1 DEF OrphanEnds
  <2>2. ASSUME log' = Append(log, emitted[taken])
        PROVE  /\ log' \in Seq(EventTypes) /\ Len(log') = taken
               /\ \A i \in 1..(taken - 1) : log'[i] = log[i]
               /\ log'[taken] = emitted[taken]
    BY <1>1, <1>2, <2>2, AppendKeeps
  <2> QED BY <2>1, <2>2
<1>4. /\ orphan' = None
      /\ UNCHANGED <<hooked, body, emitted, footer, late, reader, inner, ending,
                     outcome, taken, delivered, reported>>
  BY DEF OrphanEnds, readerVars
<1>5. TypeOK'
  BY <1>3, <1>4 DEF RunInv, TypeOK
<1>6. Progressed'
  BY <1>1, <1>3, <1>4 DEF RunInv, Progressed
<1>7. Faithful'
  <2>1. CASE log' = log
    BY <1>4, <2>1 DEF RunInv, Faithful
  <2>2. CASE Len(log') = taken /\ log'[taken] = emitted[taken]
             /\ \A i \in 1..(taken - 1) : log'[i] = log[i]
    BY <1>1, <1>4, <2>2 DEF RunInv, Faithful
  <2> QED BY <1>3, <2>1, <2>2
<1>8. TerminalIsLast'
  BY <1>4 DEF RunInv, TerminalIsLast
<1>9. OutcomeIsEarned'
  BY <1>1, <1>4 DEF RunInv, OutcomeIsEarned
<1> QED BY <1>5, <1>6, <1>7, <1>8, <1>9 DEF RunInv

LEMMA StepInv == RunInv /\ [Next]_vars => RunInv'
<1> SUFFICES ASSUME RunInv, [Next]_vars PROVE RunInv'
  OBVIOUS
<1>1. CASE UNCHANGED vars
  BY <1>1 DEF vars, RunInv, TypeOK, Progressed, Faithful, TerminalIsLast, OutcomeIsEarned
<1>2. CASE BodySteps
  BY <1>2, BodyInv
<1>3. CASE AppendLands \/ YieldEvent \/ OrphanEnds
  BY <1>3, LandsInv, YieldInv, OrphanInv
<1>4. CASE HeaderWritten \/ HeaderFails \/ Take \/ AppendFails \/ PullNext \/ LeaveAtGet
           \/ Stopped \/ LeaveAtAppend \/ LeaveAtYield \/ CloseInner \/ FooterLands
           \/ WriteFooter \/ FooterFails \/ LeaveAtFooter \/ LateFooterEnds
  <2>1. UNCHANGED <<hooked, emitted, log, delivered>>
    BY <1>4 DEF HeaderWritten, HeaderFails, Take, AppendFails, PullNext, LeaveAtGet,
       Stopped, LeaveAtAppend, LeaveAtYield, CloseInner, FooterLands, WriteFooter,
       FooterFails, LeaveAtFooter, LateFooterEnds, readerVars, storeVars
  <2> QED BY <1>4, <2>1, ReaderInv
<1> QED BY <1>1, <1>2, <1>3, <1>4 DEF Next, ReaderSteps

THEOREM Invariant == Spec => []RunInv
BY InitInv, StepInv, PTL DEF Spec

\* Every variable keeps its type.
THEOREM TypeCorrect == Spec => []TypeOK
<1>1. RunInv => TypeOK
  BY DEF RunInv
<1> QED BY <1>1, Invariant, PTL

\* The transcript is a prefix of what the handler emitted, and what the agent
\* saw is a prefix of the transcript.
THEOREM RecordedInOrderHolds == Spec => []RecordedInOrder
<1>1. RunInv => RecordedInOrder
  <2> SUFFICES ASSUME RunInv PROVE RecordedInOrder
    OBVIOUS
  <2>1. /\ Len(log) \in Nat /\ Len(delivered) \in Nat /\ Len(emitted) \in Nat
        /\ taken \in Nat /\ Len(delivered) <= Len(log) /\ Len(log) <= taken
        /\ taken <= Len(emitted)
    BY DEF RunInv, TypeOK, Progressed
  <2> QED BY <2>1 DEF RecordedInOrder, IsPrefixOf, RunInv, Faithful
<1> QED BY <1>1, Invariant, PTL

\* At "result" the whole run is in the log.
LEMMA EarnedMeansComplete ==
  ASSUME RunInv, outcome = "result"
  PROVE  log = emitted /\ body = "returned"
<1>1. /\ log \in Seq(EventTypes) /\ emitted \in Seq(EventTypes)
      /\ Len(log) = Len(emitted) /\ body = "returned"
  BY DEF RunInv, TypeOK, OutcomeIsEarned
<1>2. \A i \in 1..Len(log) : log[i] = emitted[i]
  BY DEF RunInv, Faithful
<1> QED BY <1>1, <1>2, SeqEqual

\* A "result" footer stands under a complete transcript.
THEOREM FooterNeverOverstatesHolds == Spec => []FooterNeverOverstates
<1>1. RunInv => FooterNeverOverstates
  <2> SUFFICES ASSUME RunInv, footer = "result" PROVE log = emitted /\ body = "returned"
    BY DEF FooterNeverOverstates
  <2>1. outcome = "result"
    BY DEF RunInv, OutcomeIsEarned, None
  <2> QED BY <2>1, EarnedMeansComplete
<1> QED BY <1>1, Invariant, PTL

\* The model is told of a result only when the run is recorded to its end.
THEOREM ReportedMeansRecordedHolds == Spec => []ReportedMeansRecorded
<1>1. RunInv => ReportedMeansRecorded
  <2> SUFFICES ASSUME RunInv, reported = "result"
               PROVE  body = "returned" /\ log = emitted /\ footer = "result"
    BY DEF ReportedMeansRecorded
  <2>1. outcome = "result" /\ footer = "result"
    BY DEF RunInv, OutcomeIsEarned
  <2> QED BY <2>1, EarnedMeansComplete
<1> QED BY <1>1, Invariant, PTL
-----------------------------------------------------------------------------
\* The task emits while it is alive, and then nothing terminal came before.
LEMMA TaskEmits ==
  ASSUME RunInv, NEW events \in Seq(EventTypes), Put(events), body \in Alive
  PROVE  [Recording!Emit]_(Recording!vars)
<1>1. /\ emitted' \in Seq(EventTypes)
      /\ Len(emitted') = Len(emitted) + Len(events)
      /\ \A i \in 1..Len(emitted) : emitted'[i] = emitted[i]
  BY PutKeeps DEF RunInv
<1>2. emitted \in Seq(EventTypes) /\ Len(emitted) \in Nat /\ Len(events) \in Nat
  BY DEF RunInv, TypeOK
<1>3. UNCHANGED <<log, delivered, footer, reported, reader>>
  BY DEF Put, readerVars, storeVars
<1>4. ~Recording!Over
  <2> SUFFICES ASSUME Recording!Over PROVE FALSE
    OBVIOUS
  <2>1. Len(emitted) >= 1 /\ emitted[Len(emitted)] \in {"result", "error"}
    BY <1>2, EmptySeq DEF Recording!Over, Recording!Terminal
  <2>2. Len(emitted) \in 1..Len(emitted)
    BY <1>2, <2>1
  <2> QED BY <2>1, <2>2 DEF RunInv, TerminalIsLast, IsLast, Alive
<1>5. CASE Len(events) = 0
  <2>1. Len(emitted') = Len(emitted)
    BY <1>1, <1>2, <1>5
  <2>2. emitted' = emitted
    BY <1>1, <1>2, <2>1, SeqEqual
  <2> QED BY <1>3, <2>2 DEF Recording!vars
<1>6. CASE Len(events) > 0
  <2>1. Len(emitted') > Len(emitted)
    BY <1>1, <1>2, <1>6
  <2> QED BY <1>1, <1>3, <1>4, <2>1 DEF Recording!Emit
<1> QED BY <1>2, <1>5, <1>6

LEMMA BodyEmits ==
  ASSUME RunInv, BodySteps
  PROVE  [Recording!Emit]_(Recording!vars)
<1>1. \E events \in Seq(EventTypes) : Put(events)
  <2>1. <<>> \in Seq(EventTypes) /\ <<"request", "resolved">> \in Seq(EventTypes)
    BY DEF EventTypes
  <2>2. \A t \in EventTypes : <<t>> \in Seq(EventTypes)
    OBVIOUS
  <2>3. {"status", "request", "resolved", "result", "error"} \subseteq EventTypes
    BY DEF EventTypes, Terminal
  <2>4. \/ \E t \in EventTypes : Put(<<t>>)
        \/ Put(<<>>) \/ Put(<<"request", "resolved">>)
    BY <2>3 DEF BodySteps, EmitStatus, Pause, PauseEnds, HookRaises, AutoConfirm,
         HandlerReturns, HandlerRaises, HandlerCancelled, CancelWakes
  <2> QED BY <2>1, <2>2, <2>4
<1>2. body \in Alive
  BY DEF BodySteps, EmitStatus, Pause, PauseEnds, HookRaises, AutoConfirm,
     HandlerReturns, HandlerRaises, HandlerCancelled, CancelWakes, Alive
<1> QED BY <1>1, <1>2, TaskEmits

\* A write that lands is of the next event, the one being shown.
LEMMA LandsRecords ==
  ASSUME RunInv, AppendLands \/ OrphanEnds
  PROVE  [Recording!Record]_(Recording!vars)
<1>1. /\ taken \in Nat /\ taken >= 1 /\ taken <= Len(emitted) /\ Len(emitted) \in Nat
      /\ Len(log) = taken - 1 /\ Len(delivered) = taken - 1
      /\ log' = log \/ log' = Append(log, emitted[taken])
      /\ UNCHANGED <<emitted, delivered, footer, reported>>
      /\ reader' = "closed" <=> reader = "closed"
  BY DEF AppendLands, OrphanEnds, readerVars, RunInv, TypeOK, Progressed
<1>2. CASE log' = log
  BY <1>1, <1>2 DEF Recording!vars
<1>3. CASE log' = Append(log, emitted[taken])
  <2>1. Len(log) + 1 = taken /\ Len(log) < Len(emitted) /\ Len(log) = Len(delivered)
    BY <1>1
  <2>2. log' = Append(log, emitted[Len(log) + 1])
    BY <1>3, <2>1
  <2> QED BY <1>1, <2>1, <2>2 DEF Recording!Record
<1> QED BY <1>1, <1>2, <1>3

LEMMA YieldShows ==
  ASSUME RunInv, YieldEvent
  PROVE  Recording!Show
<1>1. /\ taken \in Nat /\ taken >= 1 /\ Len(log) = taken /\ Len(delivered) = taken - 1
      /\ delivered' = Append(delivered, emitted[taken]) /\ reader = "appended"
      /\ UNCHANGED <<emitted, log, footer, reported>> /\ footer = None
      /\ reader' # "closed" /\ reader # "closed"
  BY DEF YieldEvent, RunInv, TypeOK, Progressed, OutcomeIsEarned, storeVars
<1>2. taken \in 1..Len(log) /\ Len(delivered) + 1 = taken
  BY <1>1
<1>3. log[Len(delivered) + 1] = emitted[taken]
  BY <1>2 DEF RunInv, Faithful
<1> QED BY <1>1, <1>2, <1>3 DEF Recording!Show, Recording!None, None

\* The outcome is "result" when the whole of such a run was shown, and only then.
LEMMA OutcomeIsWhole == RunInv => (outcome = "result" <=> Recording!Whole)
<1> SUFFICES ASSUME RunInv PROVE outcome = "result" <=> Recording!Whole
  OBVIOUS
<1>1. /\ emitted \in Seq(EventTypes) /\ Len(emitted) \in Nat /\ Len(delivered) \in Nat
      /\ Recording!Terminal = Terminal /\ "result" \in Terminal
  BY DEF RunInv, TypeOK, Recording!Terminal, Terminal
<1>2. ASSUME outcome = "result" PROVE Recording!Whole
  <2>1. /\ taken \in Nat /\ Len(emitted) = taken /\ Len(log) = taken
        /\ Len(delivered) = taken /\ taken >= 1 /\ emitted[taken] = "result"
    BY <1>2 DEF RunInv, TypeOK, OutcomeIsEarned
  <2>2. emitted # <<>>
    BY <1>1, <2>1
  <2> QED BY <1>1, <2>1, <2>2 DEF Recording!Whole, Recording!Over
<1>3. ASSUME Recording!Whole PROVE outcome = "result"
  <2>1. /\ Len(emitted) >= 1 /\ emitted[Len(emitted)] = "result"
        /\ Len(delivered) = Len(emitted)
    BY <1>1, <1>3, EmptySeq DEF Recording!Whole, Recording!Over
  <2>2. Len(delivered) \in 1..Len(delivered)
    BY <1>1, <2>1
  <2>3. delivered[Len(delivered)] = "result"
    BY <2>1, <2>2 DEF RunInv, Faithful
  <2> QED BY <2>2, <2>3 DEF RunInv, OutcomeIsEarned
<1> QED BY <1>2, <1>3

\* A footer that lands, when it is awaited or when its reader has gone, is the
\* first and says what was shown.
LEMMA FooterMarks ==
  ASSUME RunInv, FooterLands \/ LateFooterEnds
  PROVE  [Recording!Mark]_(Recording!vars)
<1>1. /\ UNCHANGED <<emitted, log, delivered, reported>>
      /\ reader' = "closed" <=> reader = "closed"
      /\ footer = None
  BY DEF FooterLands, LateFooterEnds, readerVars, RunInv, OutcomeIsEarned
<1>2. footer' = footer \/ footer' = outcome
  BY DEF FooterLands, LateFooterEnds, RunInv, OutcomeIsEarned
<1>3. outcome = IF Recording!Whole THEN "result" ELSE "error"
  BY OutcomeIsWhole DEF RunInv, TypeOK, Terminal
<1>4. footer = Recording!None
  BY <1>1 DEF Recording!None, None
<1>5. CASE footer' = footer
  BY <1>1, <1>5 DEF Recording!vars
<1>6. CASE footer' = outcome
  BY <1>1, <1>3, <1>4, <1>6 DEF Recording!Mark
<1> QED BY <1>2, <1>5, <1>6

\* However the recorder ends, "result" is told under a footer that says so.
LEMMA EndCloses ==
  ASSUME RunInv, HeaderFails \/ WriteFooter \/ FooterFails \/ LeaveAtFooter
  PROVE  Recording!Close
<1>1. /\ reader # "closed" /\ reader' = "closed"
      /\ UNCHANGED <<emitted, log, delivered, footer>>
      /\ reported = None
  BY DEF HeaderFails, WriteFooter, FooterFails, LeaveAtFooter, storeVars, RunInv,
     OutcomeIsEarned
<1>2. reported' \in {None, "error", outcome}
  BY <1>1 DEF HeaderFails, WriteFooter, FooterFails, LeaveAtFooter, Answer
<1>3. reported' = "result" => footer = "result"
  BY <1>1 DEF HeaderFails, WriteFooter, FooterFails, LeaveAtFooter, Answer, None,
     RunInv, OutcomeIsEarned
<1>4. /\ Recording!None = None /\ Recording!Terminal = Terminal /\ outcome \in Terminal
  BY DEF RunInv, TypeOK, Recording!None, Recording!Terminal, None, Terminal
<1>5. reported' \in Terminal \cup {None}
  BY <1>2, <1>4 DEF Terminal
<1> QED BY <1>1, <1>3, <1>4, <1>5 DEF Recording!Close

\* A recorded run keeps the promise of RunRecord: each of its steps is one of
\* an event emitted, recorded or shown, of the record marked or closed, or a stutter.
THEOREM IsARecordHolds == Spec => IsARecord
<1>1. Init => Recording!Init
  BY DEF Init, Recording!Init, Recording!None, None
<1>2. RunInv /\ [Next]_vars => [Recording!Next]_(Recording!vars)
  <2> SUFFICES ASSUME RunInv, [Next]_vars
               PROVE  [Recording!Next]_(Recording!vars)
    OBVIOUS
  <2>1. CASE BodySteps
    BY <2>1, BodyEmits DEF Recording!Next
  <2>2. CASE AppendLands \/ OrphanEnds
    BY <2>2, LandsRecords DEF Recording!Next
  <2>3. CASE YieldEvent
    BY <2>3, YieldShows DEF Recording!Next
  <2>4. CASE FooterLands \/ LateFooterEnds
    BY <2>4, FooterMarks DEF Recording!Next
  <2>5. CASE HeaderFails \/ WriteFooter \/ FooterFails \/ LeaveAtFooter
    BY <2>5, EndCloses DEF Recording!Next
  <2>6. CASE HeaderWritten \/ Take \/ AppendFails \/ PullNext \/ LeaveAtGet \/ Stopped
             \/ LeaveAtAppend \/ LeaveAtYield \/ CloseInner \/ UNCHANGED vars
    <3>1. /\ UNCHANGED <<emitted, log, delivered, footer, reported>>
          /\ reader' = "closed" <=> reader = "closed"
      BY <2>6 DEF HeaderWritten, Take, AppendFails, PullNext, LeaveAtGet, Stopped,
         LeaveAtAppend, LeaveAtYield, CloseInner, vars, storeVars
    <3> QED BY <3>1 DEF Recording!vars
  <2> QED BY <2>1, <2>2, <2>3, <2>4, <2>5, <2>6 DEF Next, ReaderSteps
<1> QED BY <1>1, <1>2, Invariant, PTL DEF Spec, IsARecord, Recording!Spec
-----------------------------------------------------------------------------
\* What a diagram relies on: a decision directly follows the request it
\* answers, a task that returned put its result last, and no run emits more
\* than its bound, a resolution and a terminal event.
Drawable ==
  /\ \A i \in 1..Len(emitted) :
       emitted[i] = "resolved" => i > 1 /\ emitted[i - 1] = "request"
  /\ body = "paused" =>
       Len(emitted) \in 1..MaxEvents /\ emitted[Len(emitted)] = "request"
  /\ body = "returned" => Len(emitted) >= 1 /\ emitted[Len(emitted)] = "result"
  /\ Len(emitted) <= MaxEvents + (IF body \in {"returned", "raised"} THEN 2 ELSE 1)

\* A step of the task keeps it, given what it puts.
LEMMA BodyDrawable ==
  ASSUME RunInv, Drawable, NEW events \in Seq(EventTypes), Put(events),
         \A i \in 1..Len(events) : events[i] = "resolved" =>
           \/ i > 1 /\ events[i - 1] = "request"
           \/ i = 1 /\ body = "paused",
         body' = "paused" =>
           Len(events) = 1 /\ Len(emitted) < MaxEvents /\ events[1] = "request",
         body' = "returned" => Len(events) = 1 /\ events[1] = "result",
         \/ Len(events) = 0 /\ body \notin {"returned", "raised"}
         \/ Len(events) = 1 /\ body = "paused"
         \/ Len(events) <= 2 /\ Len(emitted) < MaxEvents
         \/ /\ Len(events) = 1 /\ body \notin {"returned", "raised"}
            /\ body' \in {"returned", "raised"}
  PROVE  Drawable'
<1>1. /\ emitted' \in Seq(EventTypes)
      /\ Len(emitted') = Len(emitted) + Len(events)
      /\ \A i \in 1..Len(emitted) : emitted'[i] = emitted[i]
      /\ \A i \in 1..Len(events) : emitted'[Len(emitted) + i] = events[i]
  BY PutKeeps DEF RunInv
<1>2. /\ Len(emitted) \in Nat /\ Len(events) \in Nat /\ MaxEvents \in Nat
  BY MaxEventsAssumption DEF RunInv, TypeOK
<1>3. ASSUME NEW i \in 1..Len(emitted'), emitted'[i] = "resolved"
      PROVE  i > 1 /\ emitted'[i - 1] = "request"
  <2>1. CASE i \in 1..Len(emitted)
    <3>1. i > 1 /\ emitted[i - 1] = "request"
      BY <1>1, <1>3, <2>1 DEF Drawable
    <3>2. i - 1 \in 1..Len(emitted)
      BY <1>2, <2>1, <3>1
    <3>3. emitted'[i - 1] = emitted[i - 1]
      BY <1>1, <3>2
    <3> QED BY <3>1, <3>3
  <2>2. CASE i \notin 1..Len(emitted)
    <3> DEFINE j == i - Len(emitted)
    <3>1. j \in 1..Len(events) /\ i = Len(emitted) + j
      BY <1>1, <1>2, <2>2
    <3>2. events[j] = "resolved"
      BY <1>1, <1>3, <3>1
    <3>3. CASE j > 1 /\ events[j - 1] = "request"
      <4>1. j - 1 \in 1..Len(events) /\ i - 1 = Len(emitted) + (j - 1)
        BY <1>2, <3>1, <3>3
      <4>2. emitted'[Len(emitted) + (j - 1)] = events[j - 1]
        BY <1>1, <4>1
      <4> QED BY <1>2, <3>1, <3>3, <4>1, <4>2
    <3>4. CASE j = 1 /\ body = "paused"
      <4>1. Len(emitted) >= 1 /\ emitted[Len(emitted)] = "request"
        BY <1>2, <3>4, MaxEventsAssumption DEF Drawable
      <4>2. i - 1 = Len(emitted) /\ Len(emitted) \in 1..Len(emitted)
        BY <1>2, <3>1, <3>4, <4>1
      <4>3. emitted'[i - 1] = emitted[Len(emitted)] /\ i > 1
        BY <1>1, <1>2, <4>1, <4>2
      <4> QED BY <4>1, <4>3
    <3> QED BY <3>1, <3>2, <3>3, <3>4
  <2> QED BY <2>1, <2>2
<1>4. Len(events) = 1 => emitted'[Len(emitted')] = events[1]
  BY <1>1, <1>2
<1>5. Len(emitted') <= MaxEvents + (IF body' \in {"returned", "raised"} THEN 2 ELSE 1)
  BY <1>1, <1>2 DEF Drawable
<1> QED BY <1>1, <1>2, <1>3, <1>4, <1>5 DEF Drawable

LEMMA PutNoneDrawable ==
  ASSUME RunInv, Drawable, Put(<<>>), body \notin {"returned", "raised"},
         body' \notin {"paused", "returned"}
  PROVE  Drawable'
<1> DEFINE events == <<>>
<1>1. events \in Seq(EventTypes) /\ Len(events) = 0 /\ Put(events)
  OBVIOUS
<1> HIDE DEF events
<1>2. \A i \in 1..Len(events) : events[i] = "resolved" =>
       \/ i > 1 /\ events[i - 1] = "request"
       \/ i = 1 /\ body = "paused"
  BY <1>1
<1>3. \/ Len(events) = 0 /\ body \notin {"returned", "raised"}
      \/ Len(events) = 1 /\ body = "paused"
      \/ Len(events) <= 2 /\ Len(emitted) < MaxEvents
      \/ /\ Len(events) = 1 /\ body \notin {"returned", "raised"}
         /\ body' \in {"returned", "raised"}
  BY <1>1
<1> QED BY <1>1, <1>2, <1>3, BodyDrawable

LEMMA PutOneDrawable ==
  ASSUME RunInv, Drawable, NEW t \in EventTypes, Put(<<t>>),
         body \notin {"returned", "raised"},
         t = "resolved" => body = "paused",
         body' = "paused" => Len(emitted) < MaxEvents /\ t = "request",
         body' = "returned" => t = "result",
         \/ Len(emitted) < MaxEvents
         \/ body = "paused"
         \/ body' \in {"returned", "raised"}
  PROVE  Drawable'
<1> DEFINE events == <<t>>
<1>1. events \in Seq(EventTypes) /\ Len(events) = 1 /\ events[1] = t /\ Put(events)
  OBVIOUS
<1> HIDE DEF events
<1>2. \A i \in 1..Len(events) : events[i] = "resolved" =>
       \/ i > 1 /\ events[i - 1] = "request"
       \/ i = 1 /\ body = "paused"
  BY <1>1
<1>3. \/ Len(events) = 0 /\ body \notin {"returned", "raised"}
      \/ Len(events) = 1 /\ body = "paused"
      \/ Len(events) <= 2 /\ Len(emitted) < MaxEvents
      \/ /\ Len(events) = 1 /\ body \notin {"returned", "raised"}
         /\ body' \in {"returned", "raised"}
  BY <1>1
<1>4. /\ body' = "paused" =>
           Len(events) = 1 /\ Len(emitted) < MaxEvents /\ events[1] = "request"
      /\ body' = "returned" => Len(events) = 1 /\ events[1] = "result"
  BY <1>1
<1> QED BY <1>1, <1>2, <1>3, <1>4, BodyDrawable

LEMMA StepDrawable == RunInv /\ Drawable /\ [Next]_vars => Drawable'
<1> SUFFICES ASSUME RunInv, Drawable, [Next]_vars PROVE Drawable'
  OBVIOUS
<1>1. LET e == <<"request", "resolved">>
      IN  e \in Seq(EventTypes) /\ Len(e) = 2 /\ e[1] = "request" /\ e[2] = "resolved"
  BY DEF EventTypes
<1>2. {"status", "request", "resolved", "result", "error"} \subseteq EventTypes
  BY DEF EventTypes, Terminal
<1>3. CASE EmitStatus
  BY <1>2, <1>3, PutOneDrawable DEF EmitStatus
<1>4. CASE Pause
  BY <1>2, <1>4, PutOneDrawable DEF Pause
<1>5. CASE PauseEnds
  BY <1>2, <1>5, PutOneDrawable DEF PauseEnds
<1>6. CASE HandlerReturns
  BY <1>2, <1>6, PutOneDrawable DEF HandlerReturns
<1>7. CASE HandlerRaises
  BY <1>2, <1>7, PutOneDrawable DEF HandlerRaises
<1>8. CASE HookRaises \/ HandlerCancelled \/ CancelWakes
  BY <1>8, PutNoneDrawable DEF HookRaises, HandlerCancelled, CancelWakes
<1>9. CASE AutoConfirm
  <2> DEFINE events == <<"request", "resolved">>
  <2>1. /\ Put(events) /\ body' = "running" /\ Len(emitted) < MaxEvents
        /\ events \in Seq(EventTypes) /\ Len(events) = 2
        /\ events[1] = "request" /\ events[2] = "resolved"
    BY <1>1, <1>9 DEF AutoConfirm
  <2> HIDE DEF events
  <2>2. \A i \in 1..Len(events) : events[i] = "resolved" =>
          \/ i > 1 /\ events[i - 1] = "request"
          \/ i = 1 /\ body = "paused"
    BY <2>1
  <2>3. Len(events) <= 2 /\ body' # "paused" /\ body' # "returned"
    BY <2>1
  <2> QED BY <2>1, <2>2, <2>3, BodyDrawable
<1>10. CASE HeaderWritten
  BY <1>10 DEF HeaderWritten, RunInv, Progressed, Drawable
<1>11. CASE LeaveAtGet \/ CloseInner
  BY <1>11 DEF LeaveAtGet, CloseInner, CancelTask, Alive, Drawable
<1>12. CASE UNCHANGED <<body, emitted>>
  BY <1>12 DEF Drawable
<1>13. \/ BodySteps \/ HeaderWritten \/ LeaveAtGet \/ CloseInner \/ UNCHANGED <<body, emitted>>
  BY DEF Next, vars, ReaderSteps, HeaderFails, Take, AppendLands, YieldEvent, AppendFails,
         PullNext, Stopped, LeaveAtAppend, LeaveAtYield, OrphanEnds, FooterLands, WriteFooter,
         FooterFails, LeaveAtFooter, LateFooterEnds, readerVars
<1> QED BY <1>3, <1>4, <1>5, <1>6, <1>7, <1>8, <1>9, <1>10, <1>11, <1>12, <1>13
        DEF BodySteps

LEMMA DrawableHolds == Spec => []Drawable
<1>1. Init => Drawable
  BY MaxEventsAssumption DEF Init, Drawable
<1> QED BY <1>1, StepDrawable, Invariant, PTL DEF Spec
-----------------------------------------------------------------------------
\* Induction up to k, for a set.
LEMMA UpTo ==
  ASSUME NEW k \in Nat, NEW S, 0 \in S, \A n \in 0..k : n \in S /\ n < k => n + 1 \in S
  PROVE  0..k \subseteq S
<1> DEFINE Out == {n \in Nat : n \in 0..k /\ n \notin S}
           R == OpToRel(<, Nat)
<1> SUFFICES ASSUME Out # {} PROVE FALSE
  OBVIOUS
<1>1. IsWellFoundedOn(R, Nat)
  BY NatLessThanWellFounded, Zenon
<1>2. PICK least \in Out : \A n \in Out : ~ (<<n, least>> \in R)
  <2>1. Out \subseteq Nat
    OBVIOUS
  <2> QED BY <1>1, <2>1, WFMin
<1>3. \A n \in Out : ~ (n < least)
  BY <1>2 DEF OpToRel
<1>4. least # 0 /\ least - 1 \in 0..k /\ least - 1 < k /\ least - 1 < least
  OBVIOUS
<1>5. least - 1 \in S
  BY <1>3, <1>4
<1>6. (least - 1) + 1 \in S
  BY <1>4, <1>5
<1> QED BY <1>6

\* f holds the stages 0 to k of a drawing that step goes on with from first.
IsDrawing(f, k, D, first, step) ==
  /\ f \in [0..k -> D]
  /\ f[0] = first
  /\ \A n \in 1..k : f[n] = step[f[n - 1]][n]

\* A drawing that is built step by step exists.
LEMMA DrawingExists ==
  ASSUME NEW k \in Nat, NEW D, NEW first \in D, NEW step \in [D -> [1..k -> D]]
  PROVE  \E f : IsDrawing(f, k, D, first, step)
<1> DEFINE IsDrawn(f, n) ==
             /\ f \in [0..n -> D] /\ f[0] = first
             /\ \A i \in 1..n : f[i] = step[f[i - 1]][i]
           S == {n \in 0..k : \E f : IsDrawn(f, n)}
<1>1. 0 \in S
  <2> DEFINE f == [n \in 0..0 |-> first]
  <2>1. IsDrawn(f, 0)
    OBVIOUS
  <2> HIDE DEF IsDrawn, f
  <2> QED BY <2>1
<1>2. ASSUME NEW n \in 0..k, n \in S, n < k PROVE n + 1 \in S
  <2>1. PICK f : IsDrawn(f, n)
    BY <1>2
  <2> DEFINE d == step[f[n]][n + 1]
             g == [i \in 0..(n + 1) |-> IF i = n + 1 THEN d ELSE f[i]]
  <2>2. d \in D /\ n \in Nat /\ n + 1 \in 0..k
    BY <1>2, <2>1
  <2> HIDE DEF d
  <2>3. g \in [0..(n + 1) -> D] /\ g[0] = first
    BY <2>1, <2>2
  <2>4. g[n + 1] = d /\ \A i \in 0..n : g[i] = f[i]
    BY <2>2
  <2> HIDE DEF g
  <2>5. ASSUME NEW i \in 1..(n + 1) PROVE g[i] = step[g[i - 1]][i]
    <3>0. i - 1 \in 0..n
      BY <2>2
    <3>1. g[i - 1] = f[i - 1]
      BY <2>4, <3>0
    <3>2. CASE i = n + 1
      BY <2>2, <2>4, <3>1, <3>2 DEF d
    <3>3. CASE i \in 1..n
      BY <2>1, <2>2, <2>4, <3>1, <3>3
    <3> QED BY <2>2, <3>2, <3>3
  <2>6. IsDrawn(g, n + 1)
    BY <2>3, <2>5
  <2> HIDE DEF IsDrawn
  <2> QED BY <2>2, <2>6
<1>3. 0..k \subseteq S
  <2> HIDE DEF S
  <2> QED BY <1>1, <1>2, UpTo
<1> QED BY <1>3 DEF IsDrawing

-----------------------------------------------------------------------------
Charts == [edges : SUBSET (Int \X Int \X BOOLEAN), prev : Int, pending : Int]

\* What the i-th event adds to a chart.
Adds(chart, i, type, more) ==
  /\ more \in Charts
  /\ more.prev = i
  /\ type = "request" => more.pending = i
  /\ type # "resolved" => more.edges = chart.edges \cup {<<chart.prev, i, FALSE>>}
  /\ type = "resolved" /\ chart.pending # NoNode =>
       more.edges = chart.edges \cup {<<chart.pending, i, TRUE>>}

LEMMA DrawEventValue ==
  ASSUME NEW chart \in Charts, NEW i \in Nat, NEW type
  PROVE  Adds(chart, i, type, DrawEvent(chart, i, type))
<1> DEFINE resolves == type = "resolved" /\ chart.pending # NoNode
           from == IF resolves THEN chart.pending ELSE chart.prev
           pend == IF type = "request" THEN i
                   ELSE IF resolves THEN NoNode ELSE chart.pending
           E == chart.edges \cup {<<from, i, resolves>>}
<1>1. DrawEvent(chart, i, type) = [edges |-> E, prev |-> i, pending |-> pend]
  BY DEF DrawEvent
<1>2. resolves \in BOOLEAN /\ from \in Int /\ pend \in Int
  BY DEF Charts, NoNode
<1>3. ~resolves => E = chart.edges \cup {<<chart.prev, i, FALSE>>}
  BY Zenon
<1>4. resolves => E = chart.edges \cup {<<chart.pending, i, TRUE>>}
  BY Zenon
<1>5. E \in SUBSET (Int \X Int \X BOOLEAN)
  <2> HIDE DEF resolves, from
  <2> QED BY <1>2 DEF Charts
<1>6. [edges |-> E, prev |-> i, pending |-> pend] \in Charts
  <2> HIDE DEF E, pend
  <2> QED BY <1>2, <1>5 DEF Charts
<1>7. type = "request" => pend = i
  OBVIOUS
<1>8. /\ type # "resolved" => ~resolves
      /\ type = "resolved" /\ chart.pending # NoNode => resolves
  OBVIOUS
<1>9. /\ DrawEvent(chart, i, type).prev = i
      /\ DrawEvent(chart, i, type).pending = pend
      /\ DrawEvent(chart, i, type).edges = E
  BY <1>1
<1> HIDE DEF E, pend, resolves
<1> QED BY <1>1, <1>3, <1>4, <1>6, <1>7, <1>8, <1>9 DEF Adds

\* The flowchart of events whose resolutions follow their requests is one path.
LEMMA FlowchartIsThePath ==
  ASSUME NEW events \in Seq(EventTypes),
         \A i \in 1..Len(events) : events[i] = "resolved" => i > 1 /\ events[i - 1] = "request"
  PROVE  IsThePath(Flowchart(events), events)
<1> DEFINE N == Len(events)
           Edge(i) == <<i - 1, i, events[i] = "resolved">>
           step == [c \in Charts |-> [n \in 1..N |-> DrawEvent(c, n, events[n])]]
           Step1(g) == [i \in 0..N |-> IF i = 0 THEN EmptyChart
                                       ELSE DrawEvent(g[i - 1], i, events[i])]
           chart == CHOOSE g : g = Step1(g)
<1>1. N \in Nat
  OBVIOUS
<1>2. EmptyChart \in Charts /\ EmptyChart.edges = {} /\ EmptyChart.prev = 0
  BY DEF EmptyChart, Charts, Header, NoNode
<1>3. \E f : f = Step1(f)
  <2> HIDE DEF N
  <2>1. ASSUME NEW c \in Charts, NEW n \in 1..N PROVE DrawEvent(c, n, events[n]) \in Charts
    <3>1. n \in Nat
      BY <1>1
    <3> QED BY <3>1, DrawEventValue DEF Adds
  <2>2. step \in [Charts -> [1..N -> Charts]]
    BY <2>1
  <2>3. PICK f : IsDrawing(f, N, Charts, EmptyChart, step)
    <3> HIDE DEF step, Step1
    <3>1. EmptyChart \in Charts
      BY <1>2
    <3> QED BY <1>1, <2>2, <3>1, DrawingExists, Zenon
  <2>4. ASSUME NEW n \in 1..N PROVE f[n] = DrawEvent(f[n - 1], n, events[n])
    <3>1. f[n - 1] \in Charts
      BY <1>1, <2>3 DEF IsDrawing
    <3> QED BY <2>3, <3>1 DEF IsDrawing
  <2>5. f = [i \in 0..N |-> f[i]]
    BY <2>3 DEF IsDrawing
  <2>6. \A i \in 0..N : f[i] = IF i = 0 THEN EmptyChart ELSE DrawEvent(f[i - 1], i, events[i])
    <3>1. \A i \in 0..N : i = 0 \/ i \in 1..N
      BY <1>1
    <3> QED BY <2>3, <2>4, <3>1 DEF IsDrawing
  <2>7. f = Step1(f)
    BY <2>5, <2>6
  <2> QED BY <2>7
<1>4. chart = Step1(chart)
  BY <1>3
<1>5. Flowchart(events).edges = chart[N].edges
  BY DEF Flowchart
<1> HIDE DEF chart
<1>6. chart[0] = EmptyChart /\ \A n \in 1..N : chart[n] = DrawEvent(chart[n - 1], n, events[n])
  BY <1>1, <1>4
<1>7. \A n \in 1..N : events[n] = "resolved" => n > 1 /\ events[n - 1] = "request"
  OBVIOUS
<1> HIDE DEF N, step, Step1
<1> DEFINE S == {n \in 0..N : /\ chart[n] \in Charts
                              /\ chart[n].prev = n
                              /\ n > 0 => (events[n] = "request" => chart[n].pending = n)
                              /\ chart[n].edges = {Edge(i) : i \in 1..n}}
<1>8. 0 \in S
  BY <1>1, <1>2, <1>6
<1>9. ASSUME NEW n \in 0..N, n \in S, n < N PROVE n + 1 \in S
  <2>1. n + 1 \in 1..N /\ n \in Nat /\ n + 1 \in Nat
    BY <1>1, <1>9
  <2>2. /\ chart[n] \in Charts /\ chart[n].prev = n
        /\ chart[n].edges = {Edge(i) : i \in 1..n}
        /\ n > 0 /\ events[n] = "request" => chart[n].pending = n
    BY <1>9
  <2>3. chart[n + 1] = DrawEvent(chart[n], n + 1, events[n + 1])
    <3>1. (n + 1) - 1 = n
      BY <2>1
    <3> QED BY <1>6, <2>1, <3>1
  <2> HIDE DEF S, Edge
  <2> DEFINE drawn == DrawEvent(chart[n], n + 1, events[n + 1])
  <2>4. Adds(chart[n], n + 1, events[n + 1], drawn)
    BY <2>1, <2>2, DrawEventValue
  <2> HIDE DEF drawn
  <2>5. drawn.edges = chart[n].edges \cup {Edge(n + 1)}
    <3>0. Edge(n + 1) = <<n, n + 1, events[n + 1] = "resolved">>
      BY <2>1 DEF Edge
    <3>1. CASE events[n + 1] = "resolved"
      <4>1. n > 0 /\ events[n] = "request"
        BY <1>7, <2>1, <3>1
      <4>2. chart[n].pending = n /\ n # NoNode
        BY <2>1, <2>2, <4>1 DEF NoNode
      <4>3. Edge(n + 1) = <<n, n + 1, TRUE>>
        BY <3>0, <3>1, Zenon
      <4> QED BY <2>4, <3>1, <4>2, <4>3 DEF Adds
    <3>2. CASE events[n + 1] # "resolved"
      <4>1. Edge(n + 1) = <<n, n + 1, FALSE>>
        BY <3>0, <3>2, Zenon
      <4> QED BY <2>2, <2>4, <3>2, <4>1 DEF Adds
    <3> QED BY <3>1, <3>2
  <2>6. 1..(n + 1) = (1..n) \cup {n + 1}
    BY <2>1
  <2>7. drawn.edges = {Edge(i) : i \in 1..(n + 1)}
    BY <2>2, <2>5, <2>6
  <2>8. chart[n + 1] = drawn
    BY <2>3 DEF drawn
  <2> QED BY <2>1, <2>4, <2>7, <2>8 DEF S, Adds
<1>10. 0..N \subseteq S
  <2> HIDE DEF S
  <2> QED BY <1>1, <1>8, <1>9, UpTo
<1>11. N \in S
  BY <1>1, <1>10
<1> QED BY <1>5, <1>11 DEF IsThePath, N
-----------------------------------------------------------------------------
\* The stamped events are drawn once each, and no other.
IsDrawnOf(drawn, stamp, n) ==
  /\ drawn \in Seq(Nat)
  /\ \A k \in 1..Len(drawn) : drawn[k] \in 1..n /\ stamp[drawn[k]] # NoStamp
  /\ \A i \in 1..n : stamp[i] # NoStamp => \E k \in 1..Len(drawn) : drawn[k] = i

LEMMA StampedValue ==
  ASSUME NEW events \in Seq(EventTypes), NEW stamp
  PROVE  IsDrawnOf(Stamped(events, stamp), stamp, Len(events))
<1> DEFINE N == Len(events)
           Extend(d, n) == IF stamp[n] # NoStamp THEN Append(d, n) ELSE d
           step == [d \in Seq(Nat) |-> [n \in 1..N |-> Extend(d, n)]]
           Step1(g) == [i \in 0..N |-> IF i = 0 THEN <<>>
                                       ELSE IF stamp[i] # NoStamp THEN Append(g[i - 1], i)
                                       ELSE g[i - 1]]
           drawn == CHOOSE g : g = Step1(g)
<1>1. N \in Nat /\ <<>> \in Seq(Nat)
  OBVIOUS
<1>2. \E f : f = Step1(f)
  <2> HIDE DEF N
  <2>1. ASSUME NEW d \in Seq(Nat), NEW n \in 1..N PROVE Extend(d, n) \in Seq(Nat)
    <3>1. n \in Nat
      BY <1>1
    <3>2. Append(d, n) \in Seq(Nat)
      BY <3>1
    <3> QED BY <3>2
  <2>2. step \in [Seq(Nat) -> [1..N -> Seq(Nat)]]
    <3> HIDE DEF Extend
    <3> QED BY <2>1
  <2>3. PICK f : IsDrawing(f, N, Seq(Nat), <<>>, step)
    <3> HIDE DEF step, Step1
    <3> QED BY <1>1, <2>2, DrawingExists, Zenon
  <2>4. ASSUME NEW n \in 1..N PROVE f[n] = Extend(f[n - 1], n)
    <3> HIDE DEF Extend
    <3>1. f[n - 1] \in Seq(Nat)
      BY <1>1, <2>3 DEF IsDrawing
    <3> QED BY <2>3, <3>1 DEF IsDrawing
  <2>5. f = [i \in 0..N |-> f[i]] /\ f[0] = <<>>
    BY <2>3 DEF IsDrawing
  <2>6. \A i \in 0..N : i = 0 \/ i \in 1..N
    BY <1>1
  <2>7. f = Step1(f)
    BY <2>4, <2>5, <2>6
  <2> QED BY <2>7
<1>3. drawn = Step1(drawn)
  BY <1>2
<1>4. Stamped(events, stamp) = drawn[N]
  BY DEF Stamped
<1> HIDE DEF drawn
<1>5. drawn[0] = <<>> /\ \A n \in 1..N : drawn[n] = Extend(drawn[n - 1], n)
  <2> HIDE DEF N
  <2>1. 0 \in 0..N /\ \A n \in 1..N : n \in 0..N /\ n # 0
    BY <1>1
  <2>2. \A i \in 0..N : drawn[i] = IF i = 0 THEN <<>> ELSE Extend(drawn[i - 1], i)
    BY <1>3
  <2> QED BY <2>1, <2>2
<1> HIDE DEF N, step, Step1
<1> DEFINE S == {n \in 0..N : IsDrawnOf(drawn[n], stamp, n)}
<1>6. 0 \in S
  <2>1. Len(<<>>) = 0 /\ 1..0 = {} /\ 0 \in 0..N
    BY <1>1
  <2>2. IsDrawnOf(<<>>, stamp, 0)
    BY <1>1, <2>1 DEF IsDrawnOf
  <2> QED BY <1>5, <2>1, <2>2
<1>7. ASSUME NEW n \in 0..N, n \in S, n < N PROVE n + 1 \in S
  <2> DEFINE d == drawn[n]
             e == drawn[n + 1]
  <2>1. n \in Nat /\ n + 1 \in 0..N /\ n + 1 \in 1..N /\ (n + 1) - 1 = n
    BY <1>1, <1>7
  <2>2. IsDrawnOf(d, stamp, n)
    BY <1>7
  <2>3. e = Extend(d, n + 1)
    BY <1>5, <2>1
  <2> HIDE DEF d, e
  <2>4. ASSUME stamp[n + 1] = NoStamp PROVE IsDrawnOf(e, stamp, n + 1)
    <3>1. e = d
      BY <2>3, <2>4
    <3>2. \A i \in 1..(n + 1) : i \in 1..n \/ i = n + 1
      BY <2>1
    <3>3. \A i \in 1..n : i \in 1..(n + 1)
      BY <2>1
    <3> QED BY <2>2, <2>4, <3>1, <3>2, <3>3 DEF IsDrawnOf
  <2>5. ASSUME stamp[n + 1] # NoStamp PROVE IsDrawnOf(e, stamp, n + 1)
    <3>1. d \in Seq(Nat) /\ e = Append(d, n + 1)
      BY <2>2, <2>3, <2>5 DEF IsDrawnOf
    <3>2. /\ e \in Seq(Nat) /\ Len(d) \in Nat /\ Len(e) = Len(d) + 1
          /\ e[Len(d) + 1] = n + 1 /\ \A k \in 1..Len(d) : e[k] = d[k]
      BY <2>1, <3>1
    <3>3. ASSUME NEW k \in 1..Len(e) PROVE e[k] \in 1..(n + 1) /\ stamp[e[k]] # NoStamp
      <4>1. CASE k = Len(d) + 1
        BY <2>1, <2>5, <3>2, <4>1
      <4>2. CASE k \in 1..Len(d)
        <5>1. d[k] \in 1..n /\ stamp[d[k]] # NoStamp
          BY <2>2, <4>2 DEF IsDrawnOf
        <5> QED BY <2>1, <3>2, <4>2, <5>1
      <4> QED BY <3>2, <4>1, <4>2
    <3>4. ASSUME NEW i \in 1..(n + 1), stamp[i] # NoStamp
          PROVE  \E k \in 1..Len(e) : e[k] = i
      <4>1. CASE i = n + 1
        <5>1. Len(d) + 1 \in 1..Len(e)
          BY <3>2
        <5> QED BY <3>2, <4>1, <5>1
      <4>2. CASE i \in 1..n
        <5>1. PICK k \in 1..Len(d) : d[k] = i
          BY <2>2, <3>4, <4>2 DEF IsDrawnOf
        <5>2. k \in 1..Len(e) /\ e[k] = i
          BY <3>2, <5>1
        <5> QED BY <5>2
      <4> QED BY <2>1, <4>1, <4>2
    <3> QED BY <3>2, <3>3, <3>4 DEF IsDrawnOf
  <2>6. IsDrawnOf(e, stamp, n + 1)
    BY <2>4, <2>5
  <2> QED BY <2>1, <2>6 DEF e
<1>8. 0..N \subseteq S
  <2> HIDE DEF S
  <2> QED BY <1>1, <1>6, <1>7, UpTo
<1>9. N \in S
  BY <1>1, <1>8
<1> QED BY <1>4, <1>9 DEF N
-----------------------------------------------------------------------------
\* A bar runs from its event's stamp to the next one's at least, and no bar runs
\* backwards: the sliver is none of a negative run.
IsBarOf(bar, stamp, drawn, k) ==
  /\ bar.event = drawn[k] /\ bar.event \in Nat
  /\ bar.from = stamp[drawn[k]] /\ bar.from \in Nat
  /\ bar.to \in Int /\ bar.to >= bar.from
  /\ k < Len(drawn) => bar.to >= stamp[drawn[k + 1]]

LEMMA BarValue ==
  ASSUME NEW events \in Seq(EventTypes), Len(events) <= MaxEvents + 2,
         NEW stamp \in Stampings, NEW ended \in {NoStamp, 900},
         NEW drawn, IsDrawnOf(drawn, stamp, Len(events)), NEW k \in 1..Len(drawn)
  PROVE  IsBarOf(Bar(events, stamp, ended, drawn, k), stamp, drawn, k)
<1> DEFINE n == Len(drawn)
           from == stamp[drawn[k]]
           end == IF ended # NoStamp THEN ended ELSE stamp[drawn[n]]
           next == IF k < n THEN stamp[drawn[k + 1]] ELSE end
           sliver == (end - Started) \div (10 * n)
           to == IF next > from THEN next ELSE from + sliver
           bar == Bar(events, stamp, ended, drawn, k)
<1>1. n \in Nat /\ k \in Nat /\ n >= 1 /\ MaxEvents \in Nat
  BY MaxEventsAssumption DEF IsDrawnOf
<1>2. ASSUME NEW j \in 1..n
      PROVE  drawn[j] \in Nat /\ stamp[drawn[j]] \in Nat /\ stamp[drawn[j]] >= Started
  <2>1. drawn[j] \in 1..Len(events) /\ stamp[drawn[j]] # NoStamp
    BY DEF IsDrawnOf
  <2>2. drawn[j] \in 1..(MaxEvents + 2) /\ drawn[j] \in Nat
    BY <1>1, <2>1
  <2>3. stamp \in [1..(MaxEvents + 2) -> Nat]
    BY StampingsAssumption
  <2>4. stamp[drawn[j]] >= Started
    BY <2>1, <2>2, StampingsAssumption
  <2> QED BY <2>2, <2>3, <2>4
<1>3. from \in Nat /\ drawn[k] \in Nat
  BY <1>2
<1>4. end \in Nat /\ end >= Started
  <2>1. n \in 1..n
    BY <1>1
  <2> QED BY <1>2, <2>1 DEF Started, NoStamp
<1>5. next \in Nat /\ (k < n => next = stamp[drawn[k + 1]])
  <2>1. k < n => k + 1 \in 1..n
    BY <1>1
  <2> QED BY <1>2, <1>4, <2>1
<1>6. sliver \in Int /\ sliver >= 0
  <2> HIDE DEF n, end
  <2>1. end - Started \in Nat /\ 10 * n \in Nat /\ 10 * n > 0
    BY <1>1, <1>4 DEF Started
  <2>2. \A a, b \in Nat : b > 0 => a \div b \in Int /\ a \div b >= 0
    OBVIOUS
  <2> QED BY <2>1, <2>2
<1>7. to \in Int /\ to >= from /\ to >= next
  <2> HIDE DEF from, next, sliver
  <2> QED BY <1>3, <1>5, <1>6
<1>8. bar.event = drawn[k] /\ bar.from = from /\ bar.to = to
  BY DEF Bar
<1> HIDE DEF bar, to, next
<1> QED BY <1>3, <1>5, <1>7, <1>8 DEF IsBarOf, bar

Sections == {"Confirmation", "Outcome", "Active"}
Bars == [event : Nat, from : Nat, to : Int, under : Sections \cup {None}]
GanttCharts == [seen : SUBSET Sections, under : Sections \cup {None}, bars : Seq(Bars)]

\* Placing a bar adds it behind the others, which stay.
Places(chart, bar, more) ==
  /\ more \in GanttCharts
  /\ Len(more.bars) = Len(chart.bars) + 1
  /\ \A j \in 1..Len(chart.bars) : more.bars[j] = chart.bars[j]
  /\ LET own == more.bars[Len(chart.bars) + 1]
     IN  own.event = bar.event /\ own.from = bar.from /\ own.to = bar.to

LEMMA PlaceValue ==
  ASSUME NEW chart \in GanttCharts, NEW bar,
         bar.event \in Nat, bar.from \in Nat, bar.to \in Int
  PROVE  Places(chart, bar, Place(chart, bar))
<1> DEFINE own == Section(bar.type)
           under == IF own \in chart.seen THEN chart.under ELSE own
           new == [event |-> bar.event, from |-> bar.from, to |-> bar.to, under |-> under]
           more == Place(chart, bar)
<1>1. own \in Sections
  BY DEF Section, Sections
<1>2. chart.seen \subseteq Sections /\ chart.bars \in Seq(Bars)
      /\ chart.under \in Sections \cup {None}
  BY DEF GanttCharts
<1>3. more = [seen |-> chart.seen \cup {own}, under |-> under, bars |-> Append(chart.bars, new)]
  BY DEF Place
<1> HIDE DEF own, more
<1>4. under \in Sections \cup {None}
  BY <1>1, <1>2
<1> HIDE DEF under
<1>5. new \in Bars /\ new.event = bar.event /\ new.from = bar.from /\ new.to = bar.to
  BY <1>4 DEF Bars
<1> HIDE DEF new
<1>6. /\ Append(chart.bars, new) \in Seq(Bars)
      /\ Len(Append(chart.bars, new)) = Len(chart.bars) + 1
      /\ \A j \in 1..Len(chart.bars) : Append(chart.bars, new)[j] = chart.bars[j]
      /\ Append(chart.bars, new)[Len(chart.bars) + 1] = new
  BY <1>2, <1>5
<1>7. more \in GanttCharts /\ more.bars = Append(chart.bars, new)
  BY <1>1, <1>2, <1>3, <1>4, <1>6 DEF GanttCharts
<1> QED BY <1>5, <1>6, <1>7 DEF Places, more

EmptyGantt == [seen |-> {}, under |-> None, bars |-> <<>>]

\* Bars that can be drawn, n of them.
Drawables(bar, n) ==
  \A k \in 1..n : bar[k].event \in Nat /\ bar[k].from \in Nat /\ bar[k].to \in Int

\* The charts with more and more of the bars placed.
IsPlacing(chart, bar, n) ==
  chart = [k \in 0..n |-> IF k = 0 THEN EmptyGantt ELSE Place(chart[k - 1], bar[k])]

\* Placing one bar after the other can be done.
LEMMA PlacingExists ==
  ASSUME NEW N \in Nat, NEW bar, Drawables(bar, N)
  PROVE  \E f : IsPlacing(f, bar, N)
<1> DEFINE step == [c \in GanttCharts |-> [k \in 1..N |-> Place(c, bar[k])]]
<1>1. EmptyGantt \in GanttCharts
  BY DEF GanttCharts, EmptyGantt
<1>2. ASSUME NEW c \in GanttCharts, NEW k \in 1..N PROVE Place(c, bar[k]) \in GanttCharts
  BY PlaceValue DEF Places, Drawables
<1>3. step \in [GanttCharts -> [1..N -> GanttCharts]]
  BY <1>2
<1>4. PICK f : IsDrawing(f, N, GanttCharts, EmptyGantt, step)
  <2> HIDE DEF step
  <2> QED BY <1>1, <1>3, DrawingExists
<1>5. ASSUME NEW k \in 1..N PROVE f[k] = Place(f[k - 1], bar[k])
  <2>1. f[k - 1] \in GanttCharts
    BY <1>4 DEF IsDrawing
  <2> QED BY <1>4, <2>1 DEF IsDrawing
<1>6. f = [k \in 0..N |-> f[k]] /\ f[0] = EmptyGantt
  BY <1>4 DEF IsDrawing
<1>7. \A k \in 0..N : k = 0 \/ k \in 1..N
  OBVIOUS
<1>8. \A k \in 0..N : f[k] = IF k = 0 THEN EmptyGantt ELSE Place(f[k - 1], bar[k])
  BY <1>5, <1>6, <1>7
<1>9. IsPlacing(f, bar, N)
  BY <1>6, <1>8 DEF IsPlacing
<1> QED BY <1>9

\* Row b of a chart is the bar it was placed for.
IsRow(b, bar) == b.event = bar.event /\ b.from = bar.from /\ b.to = bar.to

AreRows(bars, bar, n) ==
  bars \in Seq(Bars) /\ Len(bars) = n /\ \A k \in 1..n : IsRow(bars[k], bar[k])

\* A chart has the rows of the bars placed on it, in order.
LEMMA PlacingValue ==
  ASSUME NEW N \in Nat, NEW bar, Drawables(bar, N), NEW chart, IsPlacing(chart, bar, N)
  PROVE  AreRows(chart[N].bars, bar, N)
<1>1. chart[0] = EmptyGantt /\ \A k \in 1..N : chart[k] = Place(chart[k - 1], bar[k])
  <2>1. 0 \in 0..N /\ \A k \in 1..N : k \in 0..N /\ k # 0
    OBVIOUS
  <2>2. \A k \in 0..N : chart[k] = IF k = 0 THEN EmptyGantt ELSE Place(chart[k - 1], bar[k])
    BY DEF IsPlacing
  <2> QED BY <2>1, <2>2
<1> DEFINE S == {n \in 0..N : /\ chart[n] \in GanttCharts
                              /\ Len(chart[n].bars) = n
                              /\ \A k \in 1..n : IsRow(chart[n].bars[k], bar[k])}
<1>2. 0 \in S
  <2>1. EmptyGantt \in GanttCharts /\ EmptyGantt.bars = <<>>
    BY DEF GanttCharts, EmptyGantt
  <2> QED BY <1>1, <2>1
<1>3. ASSUME NEW n \in 0..N, n \in S, n < N PROVE n + 1 \in S
  <2> DEFINE c == chart[n]
             d == chart[n + 1]
  <2>1. n \in Nat /\ n + 1 \in 0..N /\ n + 1 \in 1..N /\ (n + 1) - 1 = n
    BY <1>3
  <2>2. c \in GanttCharts /\ Len(c.bars) = n /\ \A k \in 1..n : IsRow(c.bars[k], bar[k])
    BY <1>3
  <2>3. d = Place(c, bar[n + 1])
    BY <1>1, <2>1
  <2> HIDE DEF c, d
  <2>4. Places(c, bar[n + 1], d)
    <3>1. bar[n + 1].event \in Nat /\ bar[n + 1].from \in Nat /\ bar[n + 1].to \in Int
      BY <2>1 DEF Drawables
    <3> QED BY <2>2, <2>3, <3>1, PlaceValue
  <2>5. d \in GanttCharts /\ Len(d.bars) = n + 1
    BY <2>2, <2>4 DEF Places
  <2>6. ASSUME NEW k \in 1..(n + 1) PROVE IsRow(d.bars[k], bar[k])
    <3>1. CASE k = n + 1
      BY <2>2, <2>4, <3>1 DEF Places, IsRow
    <3>2. CASE k \in 1..n
      <4>1. d.bars[k] = c.bars[k]
        BY <2>2, <2>4, <3>2 DEF Places
      <4> QED BY <2>2, <3>2, <4>1
    <3> QED BY <2>1, <3>1, <3>2
  <2> QED BY <2>1, <2>5, <2>6 DEF d
<1>4. 0..N \subseteq S
  <2> HIDE DEF S
  <2> QED BY <1>2, <1>3, UpTo
<1>5. N \in S
  BY <1>4
<1> QED BY <1>5 DEF GanttCharts, AreRows

\* The bars Bar makes of the stamped events.
BarsOf(events, stamp, ended, drawn) ==
  [k \in 1..Len(drawn) |-> Bar(events, stamp, ended, drawn, k)]

LEMMA BarsValue ==
  ASSUME NEW events \in Seq(EventTypes), Len(events) <= MaxEvents + 2,
         NEW stamp \in Stampings, NEW ended \in {NoStamp, 900},
         NEW drawn, IsDrawnOf(drawn, stamp, Len(events)), NEW k \in 1..Len(drawn)
  PROVE  IsBarOf(BarsOf(events, stamp, ended, drawn)[k], stamp, drawn, k)
<1>1. IsBarOf(Bar(events, stamp, ended, drawn, k), stamp, drawn, k)
  BY BarValue
<1>2. BarsOf(events, stamp, ended, drawn)[k] = Bar(events, stamp, ended, drawn, k)
  BY DEF BarsOf
<1> QED BY <1>1, <1>2

\* Rows that are the bars of the stamped events make a timeline.
LEMMA RowsAreATimeline ==
  ASSUME NEW events \in Seq(EventTypes), NEW stamp, NEW drawn,
         IsDrawnOf(drawn, stamp, Len(events)), NEW bar, NEW bars,
         AreRows(bars, bar, Len(drawn)),
         \A k \in 1..Len(drawn) : IsBarOf(bar[k], stamp, drawn, k)
  PROVE  IsTheTimeline(bars, events, stamp)
<1> DEFINE N == Len(drawn)
<1>1. N \in Nat /\ DOMAIN bars = 1..N
  BY DEF IsDrawnOf, AreRows
<1>2. ASSUME NEW k \in 1..N
      PROVE  /\ bars[k].event = drawn[k] /\ bars[k].from = stamp[drawn[k]]
             /\ bars[k].from <= bars[k].to
             /\ k < N => bars[k].to >= stamp[drawn[k + 1]]
  BY DEF IsBarOf, IsRow, AreRows
<1>3. {bars[k].event : k \in 1..N} = {i \in 1..Len(events) : stamp[i] # NoStamp}
  <2>1. \A k \in 1..N : drawn[k] \in 1..Len(events) /\ stamp[drawn[k]] # NoStamp
    BY DEF IsDrawnOf
  <2>2. \A i \in 1..Len(events) : stamp[i] # NoStamp => \E k \in 1..N : drawn[k] = i
    BY DEF IsDrawnOf
  <2>3. \A k \in 1..N : bars[k].event = drawn[k]
    BY <1>2
  <2> HIDE DEF N
  <2> QED BY <2>1, <2>2, <2>3
<1>4. ASSUME NEW k \in 1..N, k < N PROVE bars[k].to >= bars[k + 1].from
  <2>1. k + 1 \in 1..N
    BY <1>1, <1>4
  <2> QED BY <1>2, <1>4, <2>1
<1> QED BY <1>1, <1>2, <1>3, <1>4 DEF IsTheTimeline, AreRows

\* The Gantt chart is a timeline, for any number of events and stamps.
LEMMA GanttIsTheTimeline ==
  ASSUME NEW events \in Seq(EventTypes), Len(events) <= MaxEvents + 2,
         NEW stamp \in Stampings, NEW ended \in {NoStamp, 900}
  PROVE  IsTheTimeline(Gantt(events, stamp, ended), events, stamp)
<1> DEFINE drawn == Stamped(events, stamp)
           N == Len(drawn)
           bar == BarsOf(events, stamp, ended, drawn)
           chart == CHOOSE g : IsPlacing(g, bar, N)
<1>1. IsDrawnOf(drawn, stamp, Len(events))
  BY StampedValue
<1>2. N \in Nat
  BY <1>1 DEF IsDrawnOf
<1>3. Gantt(events, stamp, ended) = chart[N].bars
  BY DEF Gantt, BarsOf, EmptyGantt, IsPlacing
<1> HIDE DEF drawn
<1>4. \A k \in 1..N : IsBarOf(bar[k], stamp, drawn, k)
  BY <1>1, BarsValue
<1> HIDE DEF bar
<1>5. Drawables(bar, N)
  BY <1>4 DEF Drawables, IsBarOf
<1> HIDE DEF N
<1>6. IsPlacing(chart, bar, N)
  BY <1>2, <1>5, PlacingExists
<1> HIDE DEF chart
<1>7. AreRows(chart[N].bars, bar, N)
  BY <1>2, <1>5, <1>6, PlacingValue
<1> QED BY <1>1, <1>3, <1>4, <1>7, RowsAreATimeline DEF N
-----------------------------------------------------------------------------
\* The diagrams of what a run has recorded, drawn at any step of it, tell what
\* happened: the chart is one path, success is coloured, or noted, only when the
\* run returned and is recorded in full, the user speaks only after a request,
\* and the bars leave no stamped event and no moment out.
THEOREM DiagramsTellTheRunHolds == Spec => []DiagramsTellTheRun
<1>1. RunInv /\ Drawable => DiagramsTellTheRun
  <2> SUFFICES ASSUME RunInv, Drawable PROVE DiagramsTellTheRun
    OBVIOUS
  <2>1. /\ log \in Seq(EventTypes) /\ emitted \in Seq(EventTypes)
        /\ Len(log) \in Nat /\ Len(emitted) \in Nat /\ Len(log) <= Len(emitted)
        /\ \A i \in 1..Len(log) : log[i] = emitted[i]
    BY DEF RunInv, TypeOK, Progressed, Faithful
  <2>2. ASSUME NEW i \in 1..Len(log), log[i] = "resolved"
        PROVE  i > 1 /\ log[i - 1] = "request"
    <3>1. i \in 1..Len(emitted) /\ emitted[i] = "resolved"
      BY <2>1, <2>2
    <3>2. i > 1 /\ emitted[i - 1] = "request"
      BY <3>1 DEF Drawable
    <3>3. i - 1 \in 1..Len(log)
      BY <2>1, <3>2
    <3> QED BY <2>1, <3>2, <3>3
  <2>3. IsThePath(Flowchart(log), log)
    BY <2>1, <2>2, FlowchartIsThePath
  <2>4. Flowchart(log).colour = "ok" <=> log # <<>> /\ log[Len(log)] = "result"
    BY DEF Flowchart, Colour, None
  <2>5. log # <<>> <=> Len(log) >= 1
    BY <2>1, EmptySeq
  <2>6. ASSUME log # <<>>, log[Len(log)] = "result" PROVE body = "returned" /\ log = emitted
    <3>1. Len(log) \in 1..Len(log) /\ Len(log) \in 1..Len(emitted)
      BY <2>1, <2>5, <2>6
    <3>2. Len(log) = Len(emitted) /\ body = "returned"
      BY <2>1, <2>6, <3>1 DEF RunInv, TerminalIsLast, IsLast
    <3> QED BY <2>1, <3>2, SeqEqual
  <2>7. ASSUME body = "returned", log = emitted PROVE log # <<>> /\ log[Len(log)] = "result"
    BY <2>5, <2>7 DEF Drawable
  <2>8. Flowchart(log).colour = "ok" <=> body = "returned" /\ log = emitted
    BY <2>4, <2>6, <2>7
  <2>9. footer = "result" => Flowchart(log).colour = "ok"
    <3>1. footer = "result" => outcome = "result"
      BY DEF RunInv, OutcomeIsEarned, None
    <3> QED BY <2>8, <3>1, EarnedMeansComplete
  <2>10. ASSUME NEW i \in DOMAIN log, SequenceDiagram(log, footer).arrows[i][1] = "user"
         PROVE  i > 1 /\ Flowchart(log).shapes[i - 1] = "diamond"
    <3>1. i \in 1..Len(log) /\ log[i] = "resolved"
      BY <2>1, <2>10 DEF SequenceDiagram, Arrow
    <3>2. i > 1 /\ log[i - 1] = "request" /\ i - 1 \in 1..Len(log)
      BY <2>1, <2>2, <3>1
    <3>3. Flowchart(log).shapes[i - 1] = Shape(log[i - 1])
      BY <3>2 DEF Flowchart
    <3> QED BY <3>2, <3>3 DEF Shape
  <2>11. Len(log) <= MaxEvents + 2
    BY <2>1, MaxEventsAssumption DEF Drawable
  <2>12. ASSUME NEW stamp \in Stampings
         PROVE  LET ended == IF footer = None THEN NoStamp ELSE 900
                IN  IsTheTimeline(Gantt(log, stamp, ended), log, stamp)
    <3> DEFINE ended == IF footer = None THEN NoStamp ELSE 900
    <3>1. ended \in {NoStamp, 900}
      OBVIOUS
    <3> HIDE DEF ended
    <3>2. IsTheTimeline(Gantt(log, stamp, ended), log, stamp)
      BY <2>1, <2>11, <3>1, GanttIsTheTimeline
    <3> QED BY <3>2 DEF ended
  <2>13. SequenceDiagram(log, footer).note = footer
    BY DEF SequenceDiagram
  <2> QED BY <2>3, <2>8, <2>9, <2>10, <2>12, <2>13 DEF DiagramsTellTheRun
<1> QED BY <1>1, Invariant, DrawableHolds, PTL
=============================================================================
