------------------------- MODULE RedisConfirmation -------------------------
(***************************************************************************)
(* Pauses confirmed through RedisStore: register spawns a task that        *)
(* subscribes to the request's channel, POST /chat/confirm publishes on it *)
(* from any worker, and PUBLISH's subscriber count decides the answer.     *)
(***************************************************************************)
EXTENDS ConfirmationGate

CONSTANT MaxPosts   \* bound on the POSTs answered 200 per request

ASSUME MaxPostsAssumption == MaxPosts \in Nat \ {0}

VARIABLES
  sub,       \* the task that runs _subscribe_and_resolve
  chan       \* messages Redis delivered to the subscriber, not yet read

storeVars == <<sub, chan, futures, acks, refused>>
vars == <<gateVars, storeVars>>

SubStates == {"none",
              "starting",    \* SUBSCRIBE sent, not yet in effect
              "listening",
              "leaving",     \* past its loop, still counted by PUBLISH
              "gone"}

TypeOK ==
  /\ GateTypeOK
  /\ sub \in [Requests -> SubStates]
  /\ chan \in [Requests -> Seq(Decisions)]
  /\ futures \in SUBSET Requests
  /\ acks \in [Requests -> Seq(Decisions)]
  /\ refused \in SUBSET Requests

Init ==
  /\ GateInit
  /\ sub = [r \in Requests |-> "none"]
  /\ chan = [r \in Requests |-> <<>>]
  /\ futures = {}
  /\ acks = [r \in Requests |-> <<>>]
  /\ refused = {}

-----------------------------------------------------------------------------
\* store.register: it returns before the subscription is in effect.
Register(r) ==
  /\ r \notin futures
  /\ futures' = futures \cup {r}
  /\ sub' = [sub EXCEPT ![r] = "starting"]
  /\ UNCHANGED <<chan, acks, refused>>

Ask(r) == AskGate(r) /\ UNCHANGED storeVars
GatePauses(r) == GateEntersHook(r) /\ Register(r)
HandlerPauses(r) == WorkflowPauses(r) /\ Register(r)

-----------------------------------------------------------------------------
Subscribe(r) ==
  /\ sub[r] = "starting"
  /\ sub' = [sub EXCEPT ![r] = "listening"]
  /\ UNCHANGED <<gateVars, chan, futures, acks, refused>>

\* SUBSCRIBE raised: the task dies with the exception, the future stays pending.
SubscribeFails(r) ==
  /\ sub[r] = "starting"
  /\ sub' = [sub EXCEPT ![r] = "gone"]
  /\ UNCHANGED <<gateVars, chan, futures, acks, refused>>

\* Faulty variant: of the messages that queued up, the last one is taken.
DeliverLast(r) ==
  /\ sub[r] = "listening"
  /\ chan[r] # <<>>
  /\ fut' = IF fut[r] = "pending" THEN [fut EXCEPT ![r] = chan[r][Len(chan[r])]] ELSE fut
  /\ sub' = [sub EXCEPT ![r] = "leaving"]
  /\ chan' = [chan EXCEPT ![r] = <<>>]
  /\ UNCHANGED <<stream, phase, outstanding, verdict, ran, futures, acks, refused>>

\* The first message ends the loop; it sets the future unless that is done.
Deliver(r) ==
  /\ sub[r] = "listening"
  /\ chan[r] # <<>>
  /\ fut' = IF fut[r] = "pending" THEN [fut EXCEPT ![r] = Head(chan[r])] ELSE fut
  /\ sub' = [sub EXCEPT ![r] = "leaving"]
  /\ chan' = [chan EXCEPT ![r] = <<>>]
  /\ UNCHANGED <<stream, phase, outstanding, verdict, ran, futures, acks, refused>>

\* listen() raised: unread messages are lost, the future is not set.
ConnectionLost(r) ==
  /\ sub[r] = "listening"
  /\ sub' = [sub EXCEPT ![r] = "leaving"]
  /\ chan' = [chan EXCEPT ![r] = <<>>]
  /\ UNCHANGED <<gateVars, futures, acks, refused>>

Unsubscribe(r) ==
  /\ sub[r] = "leaving"
  /\ sub' = [sub EXCEPT ![r] = "gone"]
  /\ UNCHANGED <<gateVars, chan, futures, acks, refused>>

-----------------------------------------------------------------------------
Counted(r) == sub[r] \in {"listening", "leaving"}

\* Faulty variant: resolve's answer is inverted.
PublishDenies(r, d) ==
  /\ Counted(r)
  /\ Len(chan[r]) < MaxPosts
  /\ chan' = IF sub[r] = "listening" THEN [chan EXCEPT ![r] = Append(@, d)] ELSE chan
  /\ UNCHANGED <<gateVars, sub, futures, acks, refused>>

\* resolve: PUBLISH counts a subscriber, chat_confirm answers 200.
Publish(r, d) ==
  /\ Counted(r)
  /\ Len(acks[r]) < MaxPosts
  /\ acks' = [acks EXCEPT ![r] = Append(@, d)]
  /\ chan' = IF sub[r] = "listening" THEN [chan EXCEPT ![r] = Append(@, d)] ELSE chan
  /\ UNCHANGED <<gateVars, sub, futures, refused>>

\* resolve: PUBLISH counts nobody, chat_confirm answers 404.
Refuse(r) ==
  /\ phase[r] # "idle"
  /\ ~Counted(r)
  /\ refused' = refused \cup {r}
  /\ UNCHANGED <<gateVars, sub, chan, futures, acks>>

Wake(r) ==
  /\ DecisionWakes(r) \/ TimeoutWakes(r) \/ CancelWakes(r)
  /\ UNCHANGED storeVars

Expire(r) == TimerFires(r) /\ UNCHANGED storeVars
Continue(r) == Proceed(r) /\ UNCHANGED storeVars

-----------------------------------------------------------------------------
Listed(s) == outstanding \cap Of(s)

\* store.cancel on every listed id: drop it, cancel its future and its task.
CancelListed(s) ==
  /\ futures' = futures \ Listed(s)
  /\ fut' = CancelFutures(Listed(s) \cap futures)
  /\ sub' = [r \in Requests |->
               IF r \notin Listed(s) \cap futures THEN sub[r]
               ELSE IF sub[r] = "starting" THEN "gone"
               ELSE IF sub[r] = "listening" THEN "leaving" ELSE sub[r]]
  /\ chan' = [r \in Requests |-> IF r \in Listed(s) \cap futures THEN <<>> ELSE chan[r]]
  /\ UNCHANGED <<acks, refused>>

CancelStream(s) == DisconnectAtAwait(s) /\ UNCHANGED storeVars
CloseStream(s) == DisconnectAtYield(s) /\ CancelListed(s)
CloseWorkflow(s) == CloseGenerators(s) /\ UNCHANGED storeVars
EndStream(s) == Finish(s) /\ CancelListed(s)

-----------------------------------------------------------------------------
Next ==
  \/ \E r \in Requests :
       \/ Ask(r)
       \/ GatePauses(r)
       \/ HandlerPauses(r)
       \/ Subscribe(r)
       \/ SubscribeFails(r)
       \/ Deliver(r)
       \/ ConnectionLost(r)
       \/ Unsubscribe(r)
       \/ \E d \in Decisions : Publish(r, d)
       \/ Refuse(r)
       \/ Wake(r)
       \/ Expire(r)
       \/ Continue(r)
  \/ \E s \in Streams :
       \/ CancelStream(s)
       \/ CloseStream(s)
       \/ CloseWorkflow(s)
       \/ EndStream(s)

Spec == Init /\ [][Next]_vars

\* Only the worker's own event loop is fair: Redis may stay silent, SUBSCRIBE
\* may never take effect, and nobody has to decide.
FairSpec ==
  /\ Spec
  /\ \A r \in Requests : WF_vars(Wake(r)) /\ WF_vars(Expire(r))
=============================================================================
