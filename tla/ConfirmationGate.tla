-------------------------- MODULE ConfirmationGate --------------------------
(***************************************************************************)
(* The asking side of a human-in-the-loop pause: the agent's gate before a *)
(* flagged tool and a workflow's pause_for_confirmation, the hook both     *)
(* await, and the SSE stream that hosts them.  Of the store the hook       *)
(* registers with there is only what every store keeps, and what it owes   *)
(* the pauses: InMemoryConfirmation and RedisConfirmation extend this      *)
(* module and complete every action.                                       *)
(*                                                                         *)
(* A step is one uninterrupted run of a coroutine on the asyncio loop, so  *)
(* a timer or a disconnect can fall between a future's completion and the  *)
(* wake-up of the task that awaits it.  asyncio.wait_for is modelled as    *)
(* Python 3.12 (the image's version) builds it: the timer cancels the      *)
(* waiting task, and a result that is set but not yet consumed is lost.    *)
(***************************************************************************)
EXTENDS Naturals, Sequences

CONSTANTS
  Streams,            \* chat requests, each one SSE stream and one agent run
  Requests,           \* pauses, each a fresh request_id
  StreamOf,           \* the stream a pause belongs to
  WorkflowRequests,   \* pauses taken inside a workflow's background task
  OnTimeout           \* AgentRunConfig.confirmation_on_timeout

Decisions == {"confirm", "decline"}

ASSUME GateAssumption ==
  /\ StreamOf \in [Requests -> Streams]
  /\ WorkflowRequests \subseteq Requests
  /\ OnTimeout \in Decisions

VARIABLES
  stream,        \* where the SSE stream stands, see StreamStates
  phase,         \* where the coroutine that pauses stands
  fut,           \* the future the hook awaits
  outstanding,   \* union of the streams' lists of request ids to clean up
  verdict,       \* how the pause ended
  ran,           \* pauses whose guarded step was executed
  futures,       \* the store's _futures: ids still in the map
  acks,          \* per request, decisions whose POST was answered 200, in order
  refused        \* requests for which some POST was answered 404

gateVars == <<stream, phase, fut, outstanding, verdict, ran>>

StreamStates == {"open",
                 "abandoned",   \* event_iter was closed, its generators not yet
                 "unwinding",   \* the stream's and the workflow's tasks are cancelled
                 "closed"}

Phases == {"idle",         \* not reached yet
           "asked",        \* request event yielded, hook not entered
           "waiting",      \* awaiting the future
           "expiring",     \* the timer fired, the task has not run yet
           "cancelling",   \* the task was cancelled, it has not run yet
           "settled",      \* the pause ended with an outcome
           "done"}

Verdicts == {"none", "timeout", "cancelled"} \cup Decisions

GateTypeOK ==
  /\ stream \in [Streams -> StreamStates]
  /\ phase \in [Requests -> Phases]
  /\ fut \in [Requests -> {"none", "pending", "cancelled"} \cup Decisions]
  /\ outstanding \in SUBSET Requests
  /\ verdict \in [Requests -> Verdicts]
  /\ ran \in SUBSET Requests

GateInit ==
  /\ stream = [s \in Streams |-> "open"]
  /\ phase = [r \in Requests |-> "idle"]
  /\ fut = [r \in Requests |-> "none"]
  /\ outstanding = {}
  /\ verdict = [r \in Requests |-> "none"]
  /\ ran = {}

-----------------------------------------------------------------------------
Of(s) == {r \in Requests : StreamOf[r] = s}
Gates == Requests \ WorkflowRequests
Underway(r) == phase[r] \notin {"idle", "done"}
Consents(v) == v = "confirm" \/ (v = "timeout" /\ OnTimeout = "confirm")

\* The task that pauses has not been told to stop: a gate runs in the stream's
\* own task, a workflow's task outlives it until the generators are closed.
TaskAlive(r) ==
  \/ stream[StreamOf[r]] = "open"
  \/ stream[StreamOf[r]] = "abandoned" /\ r \in WorkflowRequests

\* fut.cancel() on every future of S: a no-op on one that is done.
CancelFutures(S) ==
  [r \in Requests |-> IF r \in S /\ fut[r] = "pending" THEN "cancelled" ELSE fut[r]]

\* The agent reaches a flagged tool call and yields the request event.  It
\* dispatches one tool call at a time, so nothing else of the stream is paused.
AskGate(r) ==
  /\ r \in Gates
  /\ phase[r] = "idle"
  /\ stream[StreamOf[r]] = "open"
  /\ \A q \in Of(StreamOf[r]) : ~Underway(q)
  /\ phase' = [phase EXCEPT ![r] = "asked"]
  /\ UNCHANGED <<stream, fut, outstanding, verdict, ran>>

\* confirmation_hook: list the id, register it with the store, await.
EnterHook(r) ==
  /\ phase' = [phase EXCEPT ![r] = "waiting"]
  /\ fut' = [fut EXCEPT ![r] = "pending"]
  /\ outstanding' = outstanding \cup {r}
  /\ UNCHANGED <<stream, verdict, ran>>

\* The client pulled the request event; the gate goes on to its hook.
GateEntersHook(r) ==
  /\ phase[r] = "asked"
  /\ stream[StreamOf[r]] = "open"
  /\ EnterHook(r)

\* A workflow queues its request event and enters the hook with no suspension
\* in between.  Its handler may take several pauses at once.
WorkflowPauses(r) ==
  /\ r \in WorkflowRequests
  /\ phase[r] = "idle"
  /\ TaskAlive(r)
  /\ \A q \in Of(StreamOf[r]) \cap Gates : ~Underway(q)
  /\ EnterHook(r)

\* The task resumes with the future's result; the hook's finally unlists the id.
DecisionWakes(r) ==
  /\ phase[r] = "waiting"
  /\ fut[r] \in Decisions
  /\ verdict' = [verdict EXCEPT ![r] = fut[r]]
  /\ phase' = [phase EXCEPT ![r] = "settled"]
  /\ outstanding' = outstanding \ {r}
  /\ UNCHANGED <<stream, fut, ran>>

\* Faulty variant: a workflow's pause awaits its hook without wait_for.
TimerFiresForGates(r) ==
  /\ r \in Gates
  /\ phase[r] = "waiting"
  /\ phase' = [phase EXCEPT ![r] = "expiring"]
  /\ fut' = CancelFutures({r})
  /\ UNCHANGED <<stream, outstanding, verdict, ran>>

\* wait_for's timer: cancel the task, and through it a future still pending.
TimerFires(r) ==
  /\ phase[r] = "waiting"
  /\ phase' = [phase EXCEPT ![r] = "expiring"]
  /\ fut' = CancelFutures({r})
  /\ UNCHANGED <<stream, outstanding, verdict, ran>>

TimeoutWakes(r) ==
  /\ phase[r] = "expiring"
  /\ verdict' = [verdict EXCEPT ![r] = "timeout"]
  /\ phase' = [phase EXCEPT ![r] = "settled"]
  /\ outstanding' = outstanding \ {r}
  /\ UNCHANGED <<stream, fut, ran>>

\* The task resumes with CancelledError: it was cancelled, or its future was.
CancelWakes(r) ==
  /\ phase[r] = "cancelling" \/ (phase[r] = "waiting" /\ fut[r] = "cancelled")
  /\ verdict' = [verdict EXCEPT ![r] = "cancelled"]
  /\ phase' = [phase EXCEPT ![r] = "done"]
  /\ outstanding' = outstanding \ {r}
  /\ UNCHANGED <<stream, fut, ran>>

\* After the resolved event: dispatch the tool, or answer the model that the
\* user declined (a workflow's pause returns the outcome to its handler).
Proceed(r) ==
  /\ phase[r] = "settled"
  /\ TaskAlive(r)
  /\ ran' = IF Consents(verdict[r]) THEN ran \cup {r} ELSE ran
  /\ phase' = [phase EXCEPT ![r] = "done"]
  /\ UNCHANGED <<stream, fut, outstanding, verdict>>

\* Cancel the tasks of S: one that awaits is about to resume with
\* CancelledError, one between two awaits never reaches its guarded step.
AfterTaskCancel(S) ==
  [r \in Requests |->
    IF r \notin S THEN phase[r]
    ELSE IF phase[r] \in {"waiting", "expiring"} THEN "cancelling"
    ELSE IF phase[r] \in {"asked", "settled"} THEN "done"
    ELSE phase[r]]

\* The client disconnects while the stream's task awaits inside the agent:
\* CancelledError surfaces at that await, or at run_workflow's queue.get,
\* whose finally cancels the workflow's task.
DisconnectAtAwait(s) ==
  /\ stream[s] = "open"
  /\ \A r \in Of(s) \cap Gates : phase[r] \notin {"asked", "settled"}
  /\ stream' = [stream EXCEPT ![s] = "unwinding"]
  /\ phase' = AfterTaskCancel(Of(s))
  /\ fut' = CancelFutures(Of(s))
  /\ UNCHANGED <<outstanding, verdict, ran>>

\* The client disconnects while event_iter is suspended at its yield: it is
\* closed there, and its finally cancels what is outstanding in the store
\* before the generators below it are closed.
DisconnectAtYield(s) ==
  /\ stream[s] = "open"
  /\ \A r \in Of(s) \cap Gates : phase[r] \notin {"waiting", "expiring", "cancelling"}
  /\ stream' = [stream EXCEPT ![s] = "abandoned"]
  /\ phase' = AfterTaskCancel(Of(s) \cap Gates)
  /\ UNCHANGED <<outstanding, verdict, ran>>

\* The abandoned generators are closed: run_workflow's finally cancels its task.
CloseGenerators(s) ==
  /\ stream[s] = "abandoned"
  /\ stream' = [stream EXCEPT ![s] = "unwinding"]
  /\ phase' = AfterTaskCancel(Of(s))
  /\ fut' = CancelFutures(Of(s))
  /\ UNCHANGED <<outstanding, verdict, ran>>

\* The stream ends, cleanly or unwound, and event_iter's finally runs.
Finish(s) ==
  /\ stream[s] \in {"open", "unwinding"}
  /\ \A r \in Of(s) : ~Underway(r)
  /\ stream' = [stream EXCEPT ![s] = "closed"]
  /\ UNCHANGED <<phase, outstanding, verdict, ran>>
-----------------------------------------------------------------------------
\* Whatever the store, and however many POSTs it told that their decision was
\* delivered, the pause ends with the first of them or with none: a later one
\* never overrides it.
FirstAckWins ==
  \A r \in Requests : verdict[r] \in Decisions =>
    acks[r] # <<>> /\ verdict[r] = Head(acks[r])

\* A guarded step runs only when the first acknowledged decision is "confirm",
\* or on a timeout when the deployment says that a timeout counts as consent.
RunsOnlyOnConsent ==
  \A r \in ran :
    \/ acks[r] # <<>> /\ Head(acks[r]) = "confirm" /\ verdict[r] = "confirm"
    \/ verdict[r] = "timeout" /\ OnTimeout = "confirm"

\* A pause ends whatever the client or the store does: the timer backs every
\* wait.
EveryPauseEnds ==
  \A r \in Requests : phase[r] = "waiting" ~> phase[r] \in {"settled", "done"}

\* A store keeps the promise of Consent.
Promise == INSTANCE Consent
KeepsThePromise == Promise!Spec
=============================================================================
