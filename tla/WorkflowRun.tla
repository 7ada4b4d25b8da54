---------------------------- MODULE WorkflowRun ----------------------------
(***************************************************************************)
(* One recorded workflow run: the background task that runs the handler,   *)
(* the queue of events it fills, run_workflow that drains the queue,       *)
(* run_workflow_recording that tees each event into a transcript store,    *)
(* and the agent loop that turns the end of the run into a tool result.    *)
(*                                                                         *)
(* The two generators are the reader.  Store calls run on a worker thread, *)
(* so one that is cancelled may still take effect, and later: even when    *)
(* the reader is closed.  A generator that is abandoned is closed by a     *)
(* task of its own, some time later.                                       *)
(***************************************************************************)
EXTENDS Integers, Sequences

CONSTANT MaxEvents   \* bound on the events a handler emits before it ends

ASSUME MaxEventsAssumption == MaxEvents \in Nat

VARIABLES
  hooked,      \* the host installed a confirmation hook
  body,        \* the background task, see Bodies
  emitted,     \* every event put on the queue
  taken,       \* events got from the queue; it holds the rest of emitted
  reader,      \* where the generators stand, see Readers
  inner,       \* run_workflow's generator: "live", "dropped" or "closed"
  ending,      \* how the reader came to its finally
  outcome,     \* the recorder's local of that name
  log,         \* the transcript's events
  footer,      \* the transcript's footer
  orphan,      \* an append whose caller has gone while it may still land
  late,        \* a footer whose caller has gone while it may still land
  delivered,   \* events the agent received
  reported     \* what the agent told the model

vars == <<hooked, body, emitted, taken, reader, inner, ending, outcome, log,
          footer, orphan, late, delivered, reported>>

None == "none"
Terminal == {"result", "error"}
EventTypes == {"status", "request", "resolved"} \cup Terminal

Alive == {"running", "paused", "cancelling"}
Bodies == {"unborn", "returned", "raised", "cancelled"} \cup Alive

Readers == {"header",       \* write_header
            "get",          \* awaiting queue.get
            "append",       \* awaiting append_event, not yet in the store
            "appended",     \* in the store, the await not yet resumed
            "yield",        \* the agent handles the event
            "stopping",     \* cancelled at get: awaiting the cancelled task
            "finally",      \* awaiting write_footer, not yet in the store
            "footered",     \* in the store, the await not yet resumed
            "closed"}

TypeOK ==
  /\ hooked \in BOOLEAN
  /\ body \in Bodies
  /\ emitted \in Seq(EventTypes)
  /\ taken \in Nat
  /\ reader \in Readers
  /\ inner \in {"live", "dropped", "closed"}
  /\ ending \in {None, "normal", "raised", "left"}
  /\ outcome \in Terminal
  /\ log \in Seq(EventTypes)
  /\ footer \in Terminal \cup {None}
  /\ orphan \in EventTypes \cup {None}
  /\ late \in Terminal \cup {None}
  /\ delivered \in Seq(EventTypes)
  /\ reported \in Terminal \cup {None}

Init ==
  /\ hooked \in BOOLEAN
  /\ body = "unborn"
  /\ emitted = <<>>
  /\ taken = 0
  /\ reader = "header"
  /\ inner = "live"
  /\ ending = None
  /\ outcome = "error"
  /\ log = <<>>
  /\ footer = None
  /\ orphan = None
  /\ late = None
  /\ delivered = <<>>
  /\ reported = None

readerVars == <<reader, inner, ending, outcome, taken, delivered, reported>>
storeVars == <<log, footer, orphan, late>>

-----------------------------------------------------------------------------
\* The background task.  The queue is unbounded, so a put never suspends.
Put(events) ==
  /\ emitted' = emitted \o events
  /\ UNCHANGED <<hooked, readerVars, storeVars>>

EmitStatus ==
  /\ body = "running"
  /\ Len(emitted) < MaxEvents
  /\ body' = body
  /\ Put(<<"status">>)

\* pause_for_confirmation: announce, then await the hook ...
Pause ==
  /\ body = "running"
  /\ hooked
  /\ Len(emitted) < MaxEvents
  /\ body' = "paused"
  /\ Put(<<"request">>)

\* ... which decides, or times out into on_timeout_decision ...
PauseEnds ==
  /\ body = "paused"
  /\ body' = "running"
  /\ Put(<<"resolved">>)

\* ... or raises into the handler.
HookRaises ==
  /\ body = "paused"
  /\ body' = "running"
  /\ Put(<<>>)

\* Without a hook the pause confirms itself.
AutoConfirm ==
  /\ body = "running"
  /\ ~hooked
  /\ Len(emitted) < MaxEvents
  /\ body' = body
  /\ Put(<<"request", "resolved">>)

\* A handler that swallows its cancellation ends like any other.
HandlerReturns ==
  /\ body \in {"running", "cancelling"}
  /\ body' = "returned"
  /\ Put(<<"result">>)

HandlerRaises ==
  /\ body \in {"running", "cancelling"}
  /\ body' = "raised"
  /\ Put(<<"error">>)

\* CancelledError that the handler raises itself is not an Exception: neither
\* except clause of _run takes it.
HandlerCancelled ==
  /\ body \in {"running", "paused"}
  /\ body' = "cancelled"
  /\ Put(<<>>)

\* The task that run_workflow cancelled resumes.
CancelWakes ==
  /\ body = "cancelling"
  /\ body' = "cancelled"
  /\ Put(<<>>)

-----------------------------------------------------------------------------
\* The first pull of the inner generator creates the task.
HeaderWritten ==
  /\ reader = "header"
  /\ reader' = "get"
  /\ body' = "running"
  /\ UNCHANGED <<hooked, emitted, taken, inner, ending, outcome, delivered,
                 reported, storeVars>>

\* write_header raises or is cancelled: outside the try, so nothing was started.
HeaderFails ==
  /\ reader = "header"
  /\ reader' = "closed"
  /\ inner' = "closed"
  /\ reported' \in {"error", None}
  /\ UNCHANGED <<hooked, body, emitted, taken, ending, outcome, delivered, storeVars>>

Take ==
  /\ reader = "get"
  /\ taken < Len(emitted)
  /\ taken' = taken + 1
  /\ reader' = "append"
  /\ UNCHANGED <<hooked, body, emitted, inner, ending, outcome, delivered,
                 reported, storeVars>>

AppendLands ==
  /\ reader = "append"
  /\ log' = Append(log, emitted[taken])
  /\ reader' = "appended"
  /\ UNCHANGED <<hooked, body, emitted, taken, inner, ending, outcome,
                 delivered, reported, footer, orphan, late>>

\* The await resumes: note a terminal event, hand the event to the agent.
YieldEvent ==
  /\ reader = "appended"
  /\ outcome' = IF emitted[taken] \in Terminal THEN emitted[taken] ELSE outcome
  /\ delivered' = Append(delivered, emitted[taken])
  /\ reader' = "yield"
  /\ UNCHANGED <<hooked, body, emitted, taken, inner, ending, reported, storeVars>>

\* append_event raises: before it took effect, after, or, its connection lost,
\* while it still may.
AppendFails ==
  /\ reader \in {"append", "appended"}
  /\ orphan' \in {None, IF reader = "append" THEN emitted[taken] ELSE None}
  /\ reader' = "finally"
  /\ ending' = "raised"
  /\ inner' = "dropped"
  /\ UNCHANGED <<hooked, body, emitted, taken, outcome, delivered, reported,
                 log, footer, late>>

\* The agent pulls the next event: after a terminal one run_workflow returns,
\* its task being done.
PullNext ==
  /\ reader = "yield"
  /\ IF emitted[taken] \in Terminal
     THEN reader' = "finally" /\ ending' = "normal" /\ inner' = "closed"
     ELSE reader' = "get" /\ UNCHANGED <<ending, inner>>
  /\ UNCHANGED <<hooked, body, emitted, taken, outcome, delivered, reported, storeVars>>

-----------------------------------------------------------------------------
\* task.cancel() in run_workflow's finally: a no-op on a task that is done.
CancelTask == body' = IF body \in Alive THEN "cancelling" ELSE body

\* The stream's task is cancelled while it awaits queue.get: the inner
\* generator's finally cancels the workflow and waits for it.
LeaveAtGet ==
  /\ reader = "get"
  /\ reader' = "stopping"
  /\ ending' = "left"
  /\ CancelTask
  /\ UNCHANGED <<hooked, emitted, taken, inner, outcome, delivered, reported, storeVars>>

Stopped ==
  /\ reader = "stopping"
  /\ body \notin Alive
  /\ reader' = "finally"
  /\ inner' = "closed"
  /\ UNCHANGED <<hooked, body, emitted, taken, ending, outcome, delivered,
                 reported, storeVars>>

\* Faulty variant: the thread is taken to go on also when it is done.
LeaveAtAppendTwice ==
  /\ reader \in {"append", "appended"}
  /\ orphan' = emitted[taken]
  /\ reader' = "finally"
  /\ ending' = "left"
  /\ inner' = "dropped"
  /\ UNCHANGED <<hooked, body, emitted, taken, outcome, delivered, reported,
                 log, footer, late>>

\* It is cancelled while it awaits append_event: the thread goes on.
LeaveAtAppend ==
  /\ reader \in {"append", "appended"}
  /\ orphan' = IF reader = "append" THEN emitted[taken] ELSE None
  /\ reader' = "finally"
  /\ ending' = "left"
  /\ inner' = "dropped"
  /\ UNCHANGED <<hooked, body, emitted, taken, outcome, delivered, reported,
                 log, footer, late>>

\* The agent, abandoned at its own yield, is closed and with it the recorder.
LeaveAtYield ==
  /\ reader = "yield"
  /\ reader' = "finally"
  /\ ending' = "left"
  /\ inner' = "dropped"
  /\ UNCHANGED <<hooked, body, emitted, taken, outcome, delivered, reported, storeVars>>

\* The orphaned write lands, or fails unseen.
OrphanEnds ==
  /\ orphan # None
  /\ log' \in {log, Append(log, orphan)}
  /\ orphan' = None
  /\ UNCHANGED <<hooked, body, emitted, footer, late, readerVars>>

\* Faulty variant: the dropped generator's finally leaves the task running.
CloseInnerOnly ==
  /\ inner = "dropped"
  /\ inner' = "closed"
  /\ UNCHANGED <<hooked, body, emitted, taken, reader, ending, outcome,
                 delivered, reported, storeVars>>

\* The dropped inner generator is closed: its finally cancels the task.
CloseInner ==
  /\ inner = "dropped"
  /\ inner' = "closed"
  /\ CancelTask
  /\ UNCHANGED <<hooked, emitted, taken, reader, ending, outcome, delivered,
                 reported, storeVars>>

\* The agent's answer to the model, once the recorder ended without raising.
Answer ==
  IF ending = "normal" THEN outcome ELSE IF ending = "raised" THEN "error" ELSE None

\* Faulty variant: the footer is written on the happy path of any run.
FooterSaysResult ==
  /\ reader = "finally"
  /\ footer' = "result"
  /\ reader' = "footered"
  /\ UNCHANGED <<hooked, body, emitted, taken, inner, ending, outcome, log,
                 orphan, late, delivered, reported>>

FooterLands ==
  /\ reader = "finally"
  /\ footer' = outcome
  /\ reader' = "footered"
  /\ UNCHANGED <<hooked, body, emitted, taken, inner, ending, outcome, log,
                 orphan, late, delivered, reported>>

\* The await resumes, and the recorder ends.
WriteFooter ==
  /\ reader = "footered"
  /\ reader' = "closed"
  /\ reported' = Answer
  /\ UNCHANGED <<hooked, body, emitted, taken, inner, ending, outcome,
                 delivered, storeVars>>

\* Faulty variant: a write_footer that fails is logged and forgotten.
FooterFailsQuietly ==
  /\ reader \in {"finally", "footered"}
  /\ late' \in {None, IF reader = "finally" THEN outcome ELSE None}
  /\ reader' = "closed"
  /\ reported' = Answer
  /\ UNCHANGED <<hooked, body, emitted, taken, inner, ending, outcome,
                 delivered, log, footer, orphan>>

\* write_footer raises, like append_event: the agent sees the exception.
FooterFails ==
  /\ reader \in {"finally", "footered"}
  /\ late' \in {None, IF reader = "finally" THEN outcome ELSE None}
  /\ reader' = "closed"
  /\ reported' = IF ending = "left" THEN None ELSE "error"
  /\ UNCHANGED <<hooked, body, emitted, taken, inner, ending, outcome,
                 delivered, log, footer, orphan>>

\* It is cancelled while it awaits write_footer: the thread goes on, and nobody
\* is left to be told.
LeaveAtFooter ==
  /\ reader \in {"finally", "footered"}
  /\ late' = IF reader = "finally" THEN outcome ELSE None
  /\ reader' = "closed"
  /\ UNCHANGED <<hooked, body, emitted, taken, inner, ending, outcome,
                 delivered, reported, log, footer, orphan>>

\* The footer that was left behind lands, or fails unseen.
LateFooterEnds ==
  /\ late # None
  /\ footer' \in {footer, late}
  /\ late' = None
  /\ UNCHANGED <<hooked, body, emitted, log, orphan, readerVars>>

-----------------------------------------------------------------------------
BodySteps ==
  \/ EmitStatus \/ Pause \/ PauseEnds \/ HookRaises \/ AutoConfirm
  \/ HandlerReturns \/ HandlerRaises \/ HandlerCancelled \/ CancelWakes

ReaderSteps ==
  \/ HeaderWritten \/ HeaderFails \/ Take \/ AppendLands \/ YieldEvent
  \/ AppendFails \/ PullNext
  \/ LeaveAtGet \/ Stopped \/ LeaveAtAppend \/ LeaveAtYield
  \/ OrphanEnds \/ CloseInner
  \/ FooterLands \/ WriteFooter \/ FooterFails \/ LeaveAtFooter \/ LateFooterEnds

Next == BodySteps \/ ReaderSteps

Spec == Init /\ [][Next]_vars

(***************************************************************************)
(* The event loop resumes a cancelled task, or a reader whose queue is not *)
(* empty, and runs the task that closes a dropped generator; a store call  *)
(* ends.  Handlers, hooks and clients may stall for ever.                  *)
(***************************************************************************)
FairSpec ==
  /\ Spec
  /\ WF_vars(CancelWakes)
  /\ WF_vars(CloseInner)
  /\ WF_vars(Stopped)
  /\ WF_vars(Take)
  /\ WF_vars(AppendLands \/ YieldEvent \/ AppendFails)
  /\ WF_vars(FooterLands \/ WriteFooter \/ FooterFails)

-----------------------------------------------------------------------------
IsPrefixOf(s, t) == Len(s) <= Len(t) /\ \A i \in 1..Len(s) : s[i] = t[i]

\* The transcript holds the events the handler emitted, in order, without a
\* gap or a repeat, and the agent sees only what is already recorded: this
\* survives failed appends, cancellation and writes that land late.
RecordedInOrder == IsPrefixOf(log, emitted) /\ IsPrefixOf(delivered, log)

\* A result that reaches the model is the result of a run that returned and
\* whose transcript is complete and footered.
ReportedMeansRecorded ==
  reported = "result" => body = "returned" /\ log = emitted /\ footer = "result"

\* A footer never claims more than the transcript shows: "result" stands under
\* every event of a run that ended with its result.
FooterNeverOverstates ==
  footer = "result" => log = emitted /\ body = "returned"

\* The run keeps the promise of RunRecord: the transcript is never more than
\* the one event ahead of the agent that is being shown, nothing follows a
\* terminal event, and the record is marked at most once, with what was shown
\* by then, also by a footer that lands when its reader has gone: no late
\* write, late event or second footer makes it say another thing.
Recording == INSTANCE RunRecord WITH closed <- reader = "closed"

IsARecord == Recording!Spec

\* Neither side is left behind.  A workflow whose reader is gone is stopped: it
\* does not act on unattended.  A reader whose workflow is over gets the next
\* event, up to the terminal one, unless the handler ended by a CancelledError.
NeitherIsLeftBehind ==
  /\ reader = "closed" ~> body \notin Alive
  /\ reader = "get" /\ body \in {"returned", "raised"} ~> reader \in {"yield", "closed"}
=============================================================================
