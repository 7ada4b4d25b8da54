------------------------ MODULE InMemoryConfirmation ------------------------
(***************************************************************************)
(* Pauses confirmed through InMemoryStore: one process, one event loop,    *)
(* the map of pending futures, and POST /chat/confirm.  Every store call   *)
(* runs without suspending, so each is one step.                           *)
(***************************************************************************)
EXTENDS ConfirmationGate

storeVars == <<futures, acks, refused>>
vars == <<gateVars, storeVars>>

TypeOK ==
  /\ GateTypeOK
  /\ futures \in SUBSET Requests
  /\ acks \in [Requests -> Seq(Decisions)]
  /\ refused \in SUBSET Requests

Init ==
  /\ GateInit
  /\ futures = {}
  /\ acks = [r \in Requests |-> <<>>]
  /\ refused = {}

-----------------------------------------------------------------------------
\* store.register of a fresh id.
Register(r) ==
  /\ r \notin futures
  /\ futures' = futures \cup {r}
  /\ UNCHANGED <<acks, refused>>

Ask(r) == AskGate(r) /\ UNCHANGED storeVars
GatePauses(r) == GateEntersHook(r) /\ Register(r)
HandlerPauses(r) == WorkflowPauses(r) /\ Register(r)

\* Faulty variants of resolve: it reads the future without popping it and
\* delivers whatever its state ...
ResolveKeeps(r, d) ==
  /\ r \in futures
  /\ fut' = [fut EXCEPT ![r] = d]
  /\ Len(acks[r]) < 2
  /\ acks' = [acks EXCEPT ![r] = Append(@, d)]
  /\ UNCHANGED <<stream, phase, outstanding, verdict, ran, futures, refused>>

\* ... it delivers "confirm" for every decision ...
ResolveConfirms(r, d) ==
  /\ r \in futures
  /\ fut[r] = "pending"
  /\ futures' = futures \ {r}
  /\ fut' = [fut EXCEPT ![r] = "confirm"]
  /\ acks' = [acks EXCEPT ![r] = Append(@, d)]
  /\ UNCHANGED <<stream, phase, outstanding, verdict, ran, refused>>

\* ... or it delivers and answers as if nobody had waited.
ResolveDenies(r, d) ==
  /\ r \in futures
  /\ fut[r] = "pending"
  /\ d \in Decisions
  /\ futures' = futures \ {r}
  /\ fut' = [fut EXCEPT ![r] = d]
  /\ UNCHANGED <<stream, phase, outstanding, verdict, ran, acks, refused>>

\* resolve: pop the future; deliver the decision unless it is gone or done.
Resolve(r, d) ==
  /\ r \in futures
  /\ fut[r] = "pending"
  /\ futures' = futures \ {r}
  /\ fut' = [fut EXCEPT ![r] = d]
  /\ acks' = [acks EXCEPT ![r] = Append(@, d)]
  /\ UNCHANGED <<stream, phase, outstanding, verdict, ran, refused>>

\* chat_confirm answers 404; a future that was already done is still popped.
Refuse(r) ==
  /\ phase[r] # "idle"
  /\ r \notin futures \/ fut[r] # "pending"
  /\ futures' = futures \ {r}
  /\ refused' = refused \cup {r}
  /\ UNCHANGED <<gateVars, acks>>

Wake(r) ==
  /\ DecisionWakes(r) \/ TimeoutWakes(r) \/ CancelWakes(r)
  /\ UNCHANGED storeVars

Expire(r) == TimerFires(r) /\ UNCHANGED storeVars
Continue(r) == Proceed(r) /\ UNCHANGED storeVars

-----------------------------------------------------------------------------
Listed(s) == outstanding \cap Of(s)

\* Faulty variant: the clean-up empties the store's map.
CancelListedAndAll(s) ==
  /\ futures' = {}
  /\ fut' = CancelFutures(Listed(s) \cap futures)
  /\ UNCHANGED <<acks, refused>>

\* store.cancel on every listed id: pop it and cancel its future.
CancelListed(s) ==
  /\ futures' = futures \ Listed(s)
  /\ fut' = CancelFutures(Listed(s) \cap futures)
  /\ UNCHANGED <<acks, refused>>

CancelStream(s) == DisconnectAtAwait(s) /\ UNCHANGED storeVars
CloseStream(s) == DisconnectAtYield(s) /\ CancelListed(s)
CloseWorkflow(s) == CloseGenerators(s) /\ UNCHANGED storeVars
EndStream(s) == Finish(s) /\ CancelListed(s)

-----------------------------------------------------------------------------
Next ==
  \/ \E r \in Requests :
       \/ Ask(r)
       \/ GatePauses(r)
       \/ HandlerPauses(r)
       \/ \E d \in Decisions : Resolve(r, d)
       \/ Refuse(r)
       \/ Wake(r)
       \/ Expire(r)
       \/ Continue(r)
  \/ \E s \in Streams :
       \/ CancelStream(s)
       \/ CloseStream(s)
       \/ CloseWorkflow(s)
       \/ EndStream(s)

Spec == Init /\ [][Next]_vars

(***************************************************************************)
(* The event loop runs every ready callback and every expired timer.       *)
(* Nothing is assumed of clients: a request event may never be pulled, a   *)
(* decision never posted.                                                  *)
(***************************************************************************)
FairSpec ==
  /\ Spec
  /\ \A r \in Requests : WF_vars(Wake(r)) /\ WF_vars(Expire(r))

-----------------------------------------------------------------------------
\* A pause that ends with a human's decision ends with the only one a POST was
\* told had been delivered: no decision is invented, swapped or overwritten.
VerdictIsTheAck ==
  \A r \in Requests : verdict[r] \in Decisions => acks[r] = <<verdict[r]>>

\* No two POSTs for one pause are both answered 200, however they interleave
\* with the timer, the disconnect and the clean-up.
OneAck == \A r \in Requests : Len(acks[r]) <= 1

\* What stays registered after its pause is over was cut short by the timer or
\* a disconnect; a pause that a decision ended leaves nothing behind.
OnlyCutShortStaysRegistered ==
  \A r \in futures :
    /\ fut[r] \in {"pending", "cancelled"}
    /\ phase[r] \in {"settled", "done"} => verdict[r] \in {"timeout", "cancelled"}

\* A POST is answered 404 only when no task is waiting for the decision.
RefusedMeansNobodyWaits ==
  [][\A r \in refused' \ refused : fut[r] # "pending"]_vars
=============================================================================
