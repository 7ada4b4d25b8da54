------------------------- MODULE ConfirmationProofs -------------------------
(***************************************************************************)
(* Safety of the two confirmation stores for every set of streams and      *)
(* pauses, either timeout policy and every bound on the POSTs.  Both share *)
(* GateInv, which ties a verdict to the future that the hook awaited.  The *)
(* in-memory store then needs only that a future holds the one decision    *)
(* that was acknowledged.  The Redis store, taken over the same variables, *)
(* needs the channel: what a listening subscriber has not read is exactly  *)
(* what POSTs were told had been delivered, so the first message it reads  *)
(* is the first acknowledged decision.                                     *)
(***************************************************************************)
EXTENDS InMemoryConfirmation, TLAPS

CONSTANT MaxPosts      \* of RedisConfirmation
VARIABLES sub, chan    \* of RedisConfirmation

Redis == INSTANCE RedisConfirmation

\* A verdict is given once, when the pause ends, and it is the value of the
\* future the hook awaited; only a finished, consented pause has run its step.
GateInv ==
  \A r \in Requests :
    /\ phase[r] \in {"idle", "asked"} => fut[r] = "none"
    /\ phase[r] \in {"idle", "asked", "waiting", "expiring", "cancelling"}
         => verdict[r] = "none"
    /\ phase[r] \in {"settled", "done"} /\ fut[r] # "none" => verdict[r] # "none"
    /\ verdict[r] \in Decisions => fut[r] = verdict[r]
    /\ r \in ran => phase[r] = "done" /\ Consents(verdict[r])

\* What cancelling a set of futures does to each of them.
LEMMA RedisCancelFuturesValue ==
  ASSUME Redis!GateTypeOK, NEW S
  PROVE  /\ Redis!CancelFutures(S)
              \in [Requests -> {"none", "pending", "cancelled"} \cup Decisions]
         /\ \A r \in Requests :
              \/ Redis!CancelFutures(S)[r] = fut[r]
              \/ fut[r] = "pending" /\ Redis!CancelFutures(S)[r] = "cancelled"
  BY DEF Redis!CancelFutures, Redis!GateTypeOK, Redis!Decisions, Decisions

\* What cancelling a set of tasks does to the phase of each pause.
LEMMA RedisAfterTaskCancelValue ==
  ASSUME Redis!GateTypeOK, NEW S
  PROVE  /\ Redis!AfterTaskCancel(S) \in [Requests -> Redis!Phases]
         /\ \A r \in Requests :
              \/ Redis!AfterTaskCancel(S)[r] = phase[r]
              \/ /\ phase[r] \in {"waiting", "expiring"}
                 /\ Redis!AfterTaskCancel(S)[r] = "cancelling"
              \/ /\ phase[r] \in {"asked", "settled"}
                 /\ Redis!AfterTaskCancel(S)[r] = "done"
  BY DEF Redis!AfterTaskCancel, Redis!GateTypeOK, Redis!Phases

-----------------------------------------------------------------------------
\* RedisStore: what a subscriber has not read yet is what was acknowledged.
ChannelInv(r) ==
  /\ phase[r] \in {"idle", "asked"} => sub[r] = "none"
  /\ sub[r] \in {"none", "starting"} => acks[r] = <<>> /\ chan[r] = <<>>
  /\ sub[r] = "listening" => chan[r] = acks[r]
  /\ fut[r] \in Decisions => acks[r] # <<>> /\ fut[r] = Head(acks[r])

StoreInv == \A r \in Requests : ChannelInv(r)

RedisInv == Redis!TypeOK /\ GateInv /\ StoreInv

-----------------------------------------------------------------------------
\* Appending to a non-empty sequence keeps its head.
LEMMA AppendKeepsHead ==
  ASSUME NEW S, NEW q \in Seq(S), NEW e \in S
  PROVE  /\ Append(q, e) \in Seq(S)
         /\ Append(q, e) # <<>>
         /\ q # <<>> => Head(Append(q, e)) = Head(q)
<1>1. Append(q, e) \in Seq(S)
  OBVIOUS
<1>2. Len(Append(q, e)) = Len(q) + 1 /\ Len(q) \in Nat
  OBVIOUS
<1>3. Append(q, e) # <<>>
  BY <1>2
<1>4. ASSUME q # <<>> PROVE Head(Append(q, e)) = Head(q)
  <2>1. Len(q) > 0
    BY <1>4
  <2>2. Append(q, e)[1] = q[1]
    BY <2>1
  <2>3. QED
    BY <1>3, <1>4, <2>2
<1>5. QED
  BY <1>1, <1>3, <1>4

\* The initial state satisfies the inductive invariant.
LEMMA RedisInit == Redis!Init => RedisInv
  BY DEF Redis!Init, Redis!GateInit, RedisInv, Redis!TypeOK, Redis!GateTypeOK, GateInv,
         StoreInv, ChannelInv, Redis!StreamStates, Redis!Phases, Redis!Verdicts,
         Decisions, Redis!Decisions, Redis!SubStates

\* A step that leaves the store alone, completes no future with a decision and
\* takes no pause back to its start keeps StoreInv.
LEMMA StoreUntouched ==
  ASSUME StoreInv, UNCHANGED Redis!storeVars,
         \A r \in Requests : fut'[r] \in Decisions => fut'[r] = fut[r],
         \A r \in Requests : phase'[r] \in {"idle", "asked"} => phase[r] \in {"idle", "asked"}
  PROVE  StoreInv'
  BY DEF StoreInv, ChannelInv, Redis!storeVars

\* Every step preserves the inductive invariant.
LEMMA RedisNext == RedisInv /\ [Redis!Next]_(Redis!vars) => RedisInv'
<1> SUFFICES ASSUME RedisInv, [Redis!Next]_(Redis!vars) PROVE RedisInv'
  OBVIOUS
<1> USE DEF RedisInv, Redis!TypeOK, Redis!GateTypeOK, GateInv, Redis!storeVars, Decisions,
            Redis!Decisions, Redis!Phases, Redis!Verdicts, Redis!StreamStates,
            Redis!SubStates, Consents, Redis!Consents
<1>1. ASSUME NEW r \in Requests, Redis!Ask(r) PROVE RedisInv'
  <2>1. Redis!TypeOK' /\ GateInv'
    BY <1>1 DEF Redis!Ask, Redis!AskGate, Redis!Gates
  <2>2. StoreInv'
    BY <1>1, StoreUntouched DEF Redis!Ask, Redis!AskGate
  <2>3. QED
    BY <2>1, <2>2
<1>2. ASSUME NEW r \in Requests, Redis!GatePauses(r) \/ Redis!HandlerPauses(r) PROVE RedisInv'
  <2>1. /\ phase[r] \in {"idle", "asked"}
        /\ Redis!EnterHook(r)
        /\ Redis!Register(r)
    BY <1>2 DEF Redis!GatePauses, Redis!GateEntersHook, Redis!HandlerPauses,
                Redis!WorkflowPauses
  <2>2. Redis!TypeOK' /\ GateInv'
    BY <2>1 DEF Redis!EnterHook, Redis!Register
  <2>3. StoreInv'
    BY <2>1 DEF Redis!EnterHook, Redis!Register, StoreInv, ChannelInv
  <2>4. QED
    BY <2>2, <2>3
<1>3. ASSUME NEW r \in Requests,
             \/ Redis!Subscribe(r) \/ Redis!SubscribeFails(r) \/ Redis!ConnectionLost(r)
             \/ Redis!Unsubscribe(r)
      PROVE  RedisInv'
  <2>1. Redis!TypeOK' /\ GateInv'
    <3>1. /\ UNCHANGED <<Redis!gateVars, futures, acks, refused>>
          /\ \E t \in Redis!SubStates : sub' = [sub EXCEPT ![r] = t]
      BY <1>3 DEF Redis!Subscribe, Redis!SubscribeFails, Redis!ConnectionLost,
                  Redis!Unsubscribe
    <3>2. chan' = chan \/ chan' = [chan EXCEPT ![r] = <<>>]
      BY <1>3 DEF Redis!Subscribe, Redis!SubscribeFails, Redis!ConnectionLost,
                  Redis!Unsubscribe
    <3>3. chan' \in [Requests -> Seq(Decisions)] /\ sub' \in [Requests -> Redis!SubStates]
      <4>1. <<>> \in Seq(Decisions)
        OBVIOUS
      <4>2. chan' \in [Requests -> Seq(Decisions)]
        BY <3>2, <4>1
      <4>3. sub' \in [Requests -> Redis!SubStates]
        BY <3>1
      <4>4. QED
        BY <4>2, <4>3
    <3>4. QED
      BY <3>1, <3>3 DEF Redis!gateVars
  <2>2. StoreInv'
    BY <1>3 DEF Redis!Subscribe, Redis!SubscribeFails, Redis!ConnectionLost,
                Redis!Unsubscribe, Redis!gateVars, StoreInv, ChannelInv
  <2>3. QED
    BY <2>1, <2>2
<1>4. ASSUME NEW r \in Requests, Redis!Deliver(r) PROVE RedisInv'
  <2>1. chan[r] = acks[r] /\ chan[r] # <<>> /\ sub[r] = "listening"
    BY <1>4 DEF Redis!Deliver, StoreInv, ChannelInv
  <2>2. Head(chan[r]) \in Decisions
    BY <2>1
  <2>3. Redis!TypeOK'
    BY <1>4, <2>2 DEF Redis!Deliver
  <2>4. GateInv'
    BY <1>4, <2>2 DEF Redis!Deliver
  <2>5. StoreInv'
    <3>1. /\ UNCHANGED <<phase, acks>>
          /\ sub'[r] = "leaving"
          /\ fut'[r] = fut[r] \/ fut'[r] = Head(acks[r])
      BY <1>4, <2>1 DEF Redis!Deliver
    <3>2. \A q \in Requests \ {r} : sub'[q] = sub[q] /\ chan'[q] = chan[q] /\ fut'[q] = fut[q]
      BY <1>4 DEF Redis!Deliver
    <3>3. ChannelInv(r)'
      BY <2>1, <3>1 DEF StoreInv, ChannelInv
    <3>4. ASSUME NEW q \in Requests \ {r} PROVE ChannelInv(q)'
      BY <3>1, <3>2 DEF StoreInv, ChannelInv
    <3>5. QED
      BY <3>3, <3>4 DEF StoreInv
  <2>6. QED
    BY <2>3, <2>4, <2>5
<1>5. ASSUME NEW r \in Requests, NEW d \in Decisions, Redis!Publish(r, d) PROVE RedisInv'
  <2>1. /\ Append(acks[r], d) \in Seq(Decisions)
        /\ Append(chan[r], d) \in Seq(Decisions)
        /\ Append(acks[r], d) # <<>>
        /\ acks[r] # <<>> => Head(Append(acks[r], d)) = Head(acks[r])
    <3>1. acks[r] \in Seq(Decisions) /\ chan[r] \in Seq(Decisions)
      OBVIOUS
    <3> HIDE DEF Decisions, Redis!Decisions
    <3>2. QED
      BY <3>1, AppendKeepsHead
  <2>2. Redis!TypeOK'
    BY <1>5, <2>1 DEF Redis!Publish, Redis!gateVars
  <2>3. GateInv'
    BY <1>5 DEF Redis!Publish, Redis!gateVars
  <2>4. StoreInv'
    <3>1. /\ acks'[r] = Append(acks[r], d)
          /\ sub[r] = "listening" => chan'[r] = Append(chan[r], d)
          /\ sub[r] \in {"listening", "leaving"}
      BY <1>5 DEF Redis!Publish, Redis!Counted
    <3>2. \A q \in Requests \ {r} : acks'[q] = acks[q] /\ chan'[q] = chan[q]
      BY <1>5 DEF Redis!Publish
    <3>3. UNCHANGED <<phase, fut, sub>>
      BY <1>5 DEF Redis!Publish, Redis!gateVars
    <3>4. ChannelInv(r)'
      BY <2>1, <3>1, <3>3 DEF StoreInv, ChannelInv
    <3>5. ASSUME NEW q \in Requests \ {r} PROVE ChannelInv(q)'
      BY <3>2, <3>3 DEF StoreInv, ChannelInv
    <3>6. QED
      BY <3>4, <3>5 DEF StoreInv
  <2>5. QED
    BY <2>2, <2>3, <2>4
<1>6. ASSUME NEW r \in Requests, Redis!Refuse(r) PROVE RedisInv'
  <2>1. Redis!TypeOK' /\ GateInv'
    BY <1>6 DEF Redis!Refuse, Redis!gateVars
  <2>2. StoreInv'
    BY <1>6 DEF Redis!Refuse, Redis!gateVars, StoreInv, ChannelInv
  <2>3. QED
    BY <2>1, <2>2
<1>7. ASSUME NEW r \in Requests, Redis!Wake(r) PROVE RedisInv'
  <2>1. Redis!TypeOK' /\ GateInv'
    <3>1. CASE Redis!DecisionWakes(r)
      BY <1>7, <3>1 DEF Redis!Wake, Redis!DecisionWakes
    <3>2. CASE Redis!TimeoutWakes(r)
      BY <1>7, <3>2 DEF Redis!Wake, Redis!TimeoutWakes
    <3>3. CASE Redis!CancelWakes(r)
      BY <1>7, <3>3 DEF Redis!Wake, Redis!CancelWakes
    <3>4. QED
      BY <1>7, <3>1, <3>2, <3>3 DEF Redis!Wake
  <2>2. StoreInv'
    BY <1>7, StoreUntouched DEF Redis!Wake, Redis!DecisionWakes, Redis!TimeoutWakes,
                                Redis!CancelWakes
  <2>3. QED
    BY <2>1, <2>2
<1>8. ASSUME NEW r \in Requests, Redis!Expire(r) PROVE RedisInv'
  <2>1. Redis!TypeOK' /\ GateInv'
    BY <1>8, RedisCancelFuturesValue DEF Redis!Expire, Redis!TimerFires
  <2>2. StoreInv'
    BY <1>8, StoreUntouched, RedisCancelFuturesValue DEF Redis!Expire, Redis!TimerFires
  <2>3. QED
    BY <2>1, <2>2
<1>9. ASSUME NEW r \in Requests, Redis!Continue(r) PROVE RedisInv'
  <2>1. Redis!TypeOK' /\ GateInv'
    BY <1>9 DEF Redis!Continue, Redis!Proceed
  <2>2. StoreInv'
    BY <1>9, StoreUntouched DEF Redis!Continue, Redis!Proceed
  <2>3. QED
    BY <2>1, <2>2
<1>10. ASSUME NEW s \in Streams, Redis!CancelStream(s) \/ Redis!CloseWorkflow(s) PROVE RedisInv'
  <2>1. Redis!TypeOK' /\ GateInv'
    <3>1. CASE Redis!CancelStream(s)
      BY <3>1, RedisCancelFuturesValue, RedisAfterTaskCancelValue
         DEF Redis!CancelStream, Redis!DisconnectAtAwait
    <3>2. CASE Redis!CloseWorkflow(s)
      BY <3>2, RedisCancelFuturesValue, RedisAfterTaskCancelValue
         DEF Redis!CloseWorkflow, Redis!CloseGenerators
    <3>3. QED
      BY <1>10, <3>1, <3>2
  <2>2. StoreInv'
    BY <1>10, StoreUntouched, RedisCancelFuturesValue, RedisAfterTaskCancelValue
       DEF Redis!CancelStream, Redis!DisconnectAtAwait, Redis!CloseWorkflow,
           Redis!CloseGenerators
  <2>3. QED
    BY <2>1, <2>2
<1>11. ASSUME NEW s \in Streams, Redis!CloseStream(s) \/ Redis!EndStream(s) PROVE RedisInv'
  <2>1. /\ Redis!CancelListed(s)
        /\ UNCHANGED <<outstanding, verdict, ran>>
        /\ stream' \in [Streams -> Redis!StreamStates]
        /\ phase' \in [Requests -> Redis!Phases]
        /\ \A r \in Requests :
             \/ phase'[r] = phase[r]
             \/ phase[r] \in {"waiting", "expiring"} /\ phase'[r] = "cancelling"
             \/ phase[r] \in {"asked", "settled"} /\ phase'[r] = "done"
    <3>1. CASE Redis!CloseStream(s)
      BY <3>1, RedisAfterTaskCancelValue DEF Redis!CloseStream, Redis!DisconnectAtYield
    <3>2. CASE Redis!EndStream(s)
      BY <3>2 DEF Redis!EndStream, Redis!Finish
    <3>3. QED
      BY <1>11, <3>1, <3>2
  <2>2. /\ fut' \in [Requests -> {"none", "pending", "cancelled"} \cup Decisions]
        /\ \A r \in Requests :
             fut'[r] = fut[r] \/ (fut[r] = "pending" /\ fut'[r] = "cancelled")
    BY <2>1, RedisCancelFuturesValue DEF Redis!CancelListed
  <2>3. /\ UNCHANGED <<acks, refused>>
        /\ futures' \in SUBSET Requests
        /\ sub' \in [Requests -> Redis!SubStates]
        /\ chan' \in [Requests -> Seq(Decisions)]
        /\ \A r \in Requests :
             \/ sub'[r] = sub[r] /\ chan'[r] = chan[r]
             \/ sub'[r] \in {"gone", "leaving"} /\ sub[r] # "none" /\ chan'[r] = <<>>
             \/ sub'[r] = "none" /\ sub[r] = "none" /\ chan'[r] = <<>>
    BY <2>1 DEF Redis!CancelListed, Redis!Listed
  <2>4. Redis!TypeOK'
    BY <2>1, <2>2, <2>3
  <2>5. GateInv'
    BY <2>1, <2>2
  <2>6. StoreInv'
    <3> SUFFICES ASSUME NEW r \in Requests PROVE ChannelInv(r)'
      BY DEF StoreInv
    <3>1. ChannelInv(r)
      BY DEF StoreInv
    <3>2. QED
      BY <2>1, <2>2, <2>3, <3>1 DEF ChannelInv
  <2>7. QED
    BY <2>4, <2>5, <2>6
<1>12. CASE UNCHANGED Redis!vars
  <2>1. Redis!TypeOK' /\ GateInv'
    BY <1>12 DEF Redis!vars, Redis!gateVars
  <2>2. StoreInv'
    BY <1>12 DEF Redis!vars, Redis!gateVars, StoreInv, ChannelInv
  <2>3. QED
    BY <2>1, <2>2
<1>13. QED
  BY <1>1, <1>2, <1>3, <1>4, <1>5, <1>6, <1>7, <1>8, <1>9, <1>10, <1>11, <1>12 DEF Redis!Next

\* Every reachable state satisfies the inductive invariant.
THEOREM RedisInvariant == Redis!Spec => []RedisInv
  BY RedisInit, RedisNext, PTL DEF Redis!Spec

-----------------------------------------------------------------------------
\* The variables always have their types.
THEOREM RedisTypeCorrect == Redis!Spec => []Redis!TypeOK
  BY RedisInvariant, PTL DEF RedisInv

\* A pause ends with the first decision a POST was told had been delivered, or
\* with none: a later POST, also answered 200, never overrides it.
THEOREM FirstAckWinsHolds == Redis!Spec => []FirstAckWins
<1>1. RedisInv => FirstAckWins
  BY DEF RedisInv, GateInv, StoreInv, ChannelInv, FirstAckWins
<1>2. QED
  BY <1>1, RedisInvariant, PTL

\* A guarded step runs only on consent.
THEOREM RedisRunsOnlyOnConsent == Redis!Spec => []RunsOnlyOnConsent
<1>1. RedisInv => RunsOnlyOnConsent
  BY DEF RedisInv, Redis!TypeOK, Redis!GateTypeOK, GateInv, StoreInv, ChannelInv,
         RunsOnlyOnConsent, Consents, Redis!Consents, Decisions, Redis!Decisions
<1>2. QED
  BY <1>1, RedisInvariant, PTL

-----------------------------------------------------------------------------
\* The initial state is one of the abstract promise.
LEMMA RedisInitImplements == Redis!Init => Promise!Init
  BY DEF Redis!Init, Redis!GateInit, Promise!Init

\* Every step of the store and its askers is a step of the promise, or leaves
\* its variables alone.
LEMMA RedisStepImplements ==
  RedisInv /\ [Redis!Next]_(Redis!vars) => [Promise!Next]_(Promise!vars)
<1> SUFFICES ASSUME RedisInv, [Redis!Next]_(Redis!vars) PROVE [Promise!Next]_(Promise!vars)
  OBVIOUS
<1> USE DEF Promise!vars
<1>1. ASSUME NEW r \in Requests, NEW d \in Decisions, Redis!Publish(r, d)
      PROVE  Promise!Next
  BY <1>1 DEF Redis!Publish, Redis!gateVars, Promise!Next, Promise!Acknowledge,
              Promise!Decisions, Decisions, Redis!Decisions
<1>2. ASSUME NEW r \in Requests, Redis!Wake(r) PROVE Promise!Next
  <2>1. verdict[r] = "none"
    <3>1. phase[r] \in {"waiting", "expiring", "cancelling"}
      BY <1>2 DEF Redis!Wake, Redis!DecisionWakes, Redis!TimeoutWakes, Redis!CancelWakes
    <3>2. QED
      BY <3>1 DEF RedisInv, GateInv
  <2>2. UNCHANGED <<acks, ran>>
    BY <1>2 DEF Redis!Wake, Redis!DecisionWakes, Redis!TimeoutWakes, Redis!CancelWakes,
                Redis!storeVars
  <2>3. CASE Redis!DecisionWakes(r)
    <3>1. acks[r] # <<>> /\ Head(acks[r]) = fut[r]
      BY <2>3 DEF Redis!DecisionWakes, RedisInv, StoreInv, ChannelInv, Redis!Decisions,
                  Decisions
    <3>2. Promise!Decide(r)
      BY <2>1, <2>2, <2>3, <3>1 DEF Redis!DecisionWakes, Promise!Decide
    <3>3. QED
      BY <3>2 DEF Promise!Next
  <2>4. CASE Redis!TimeoutWakes(r) \/ Redis!CancelWakes(r)
    <3>1. Promise!GiveUp(r)
      BY <2>1, <2>2, <2>4 DEF Redis!TimeoutWakes, Redis!CancelWakes, Promise!GiveUp
    <3>2. QED
      BY <3>1 DEF Promise!Next
  <2>5. QED
    BY <1>2, <2>3, <2>4 DEF Redis!Wake
<1>3. ASSUME NEW r \in Requests, Redis!Continue(r)
      PROVE  Promise!Next \/ UNCHANGED Promise!vars
  <2>1. r \notin ran
    BY <1>3 DEF Redis!Continue, Redis!Proceed, RedisInv, GateInv
  <2>2. CASE Consents(verdict[r])
    BY <1>3, <2>1, <2>2 DEF Redis!Continue, Redis!Proceed, Redis!storeVars, Consents,
                            Redis!Consents, Promise!Next, Promise!Run, Promise!Consents
  <2>3. CASE ~Consents(verdict[r])
    BY <1>3, <2>3 DEF Redis!Continue, Redis!Proceed, Redis!storeVars, Redis!Consents,
                      Consents, Redis!Decisions, Decisions
  <2>4. QED
    BY <2>2, <2>3
<1>4. ASSUME NEW r \in Requests,
             \/ Redis!Ask(r) \/ Redis!GatePauses(r) \/ Redis!HandlerPauses(r)
             \/ Redis!Refuse(r) \/ Redis!Expire(r)
             \/ Redis!Subscribe(r) \/ Redis!SubscribeFails(r) \/ Redis!Deliver(r)
             \/ Redis!ConnectionLost(r)
             \/ Redis!Unsubscribe(r)
      PROVE  UNCHANGED Promise!vars
  BY <1>4 DEF Redis!Ask, Redis!AskGate, Redis!GatePauses, Redis!GateEntersHook,
              Redis!HandlerPauses, Redis!WorkflowPauses, Redis!EnterHook, Redis!Register,
              Redis!Refuse, Redis!Expire, Redis!TimerFires, Redis!Subscribe,
              Redis!SubscribeFails, Redis!Deliver, Redis!ConnectionLost,
              Redis!Unsubscribe, Redis!storeVars, Redis!gateVars
<1>5. ASSUME NEW s \in Streams,
             Redis!CancelStream(s) \/ Redis!CloseStream(s) \/ Redis!CloseWorkflow(s)
             \/ Redis!EndStream(s)
      PROVE  UNCHANGED Promise!vars
  BY <1>5 DEF Redis!CancelStream, Redis!DisconnectAtAwait, Redis!CloseStream,
              Redis!DisconnectAtYield, Redis!CloseWorkflow, Redis!CloseGenerators,
              Redis!EndStream, Redis!Finish, Redis!CancelListed, Redis!storeVars
<1>6. CASE UNCHANGED Redis!vars
  BY <1>6 DEF Redis!vars, Redis!gateVars, Redis!storeVars
<1>7. QED
  BY <1>1, <1>2, <1>3, <1>4, <1>5, <1>6 DEF Redis!Next, Redis!Decisions, Decisions

\* The Redis store implements the promise of Consent.
THEOREM RedisImplements == Redis!Spec => KeepsThePromise
  BY RedisInitImplements, RedisStepImplements, RedisInvariant, PTL
     DEF Redis!Spec, KeepsThePromise, Promise!Spec

-----------------------------------------------------------------------------
\* InMemoryStore: a future holds the one decision that was acknowledged, what is
\* still registered was not decided, and what is pending is still registered.
FuturesInv ==
  \A r \in Requests :
    /\ fut[r] \in Decisions => acks[r] = <<fut[r]>>
    /\ fut[r] \notin Decisions => acks[r] = <<>>
    /\ r \in futures => fut[r] \in {"pending", "cancelled"}
    /\ fut[r] = "pending" => r \in futures

InMemoryInv == TypeOK /\ GateInv /\ FuturesInv

\* What cancelling a set of futures does to each of them.
LEMMA InMemoryCancelFuturesValue ==
  ASSUME GateTypeOK, NEW S
  PROVE  /\ CancelFutures(S)
              \in [Requests -> {"none", "pending", "cancelled"} \cup Decisions]
         /\ \A r \in Requests :
              \/ CancelFutures(S)[r] = fut[r]
              \/ fut[r] = "pending" /\ CancelFutures(S)[r] = "cancelled"
         /\ \A r \in S \cap Requests : CancelFutures(S)[r] # "pending"
  BY DEF CancelFutures, GateTypeOK

\* What cancelling a set of tasks does to the phase of each pause.
LEMMA InMemoryAfterTaskCancelValue ==
  ASSUME GateTypeOK, NEW S
  PROVE  /\ AfterTaskCancel(S) \in [Requests -> Phases]
         /\ \A r \in Requests :
              \/ AfterTaskCancel(S)[r] = phase[r]
              \/ /\ phase[r] \in {"waiting", "expiring"}
                 /\ AfterTaskCancel(S)[r] = "cancelling"
              \/ /\ phase[r] \in {"asked", "settled"}
                 /\ AfterTaskCancel(S)[r] = "done"
  BY DEF AfterTaskCancel, GateTypeOK, Phases

-----------------------------------------------------------------------------
\* The initial state satisfies the inductive invariant.
LEMMA InMemoryInit == Init => InMemoryInv
  BY DEF Init, GateInit, InMemoryInv, TypeOK, GateTypeOK, GateInv,
         FuturesInv, StreamStates, Phases, Verdicts, Decisions

\* A stream that is cancelled, closed or ended cuts pauses short, and neither
\* decides one nor takes a decision back.
LEMMA CutShort ==
  ASSUME InMemoryInv,
         stream' \in [Streams -> StreamStates],
         phase' \in [Requests -> Phases],
         \A r \in Requests :
           \/ phase'[r] = phase[r]
           \/ phase[r] \in {"waiting", "expiring"} /\ phase'[r] = "cancelling"
           \/ phase[r] \in {"asked", "settled"} /\ phase'[r] = "done",
         fut' \in [Requests -> {"none", "pending", "cancelled"} \cup Decisions],
         \A r \in Requests :
           fut'[r] = fut[r] \/ (fut[r] = "pending" /\ fut'[r] = "cancelled"),
         futures' \subseteq futures,
         \A r \in futures \ futures' : fut'[r] # "pending",
         UNCHANGED <<outstanding, verdict, ran, acks, refused>>
  PROVE  InMemoryInv'
<1>1. TypeOK'
  BY DEF InMemoryInv, TypeOK, GateTypeOK, Decisions
<1>2. GateInv'
  BY DEF InMemoryInv, GateInv, Decisions
<1>3. FuturesInv'
  BY DEF InMemoryInv, FuturesInv, Decisions, TypeOK
<1> QED BY <1>1, <1>2, <1>3 DEF InMemoryInv

-----------------------------------------------------------------------------
\* Every step preserves the inductive invariant.
LEMMA InMemoryNext == InMemoryInv /\ [Next]_(vars) => InMemoryInv'
<1> SUFFICES ASSUME InMemoryInv, [Next]_(vars) PROVE InMemoryInv'
  OBVIOUS
<1> USE DEF InMemoryInv, TypeOK, GateTypeOK, GateInv, FuturesInv, storeVars,
            Decisions, Phases, Verdicts, StreamStates, Consents
<1>1. ASSUME NEW r \in Requests, Ask(r) PROVE InMemoryInv'
  BY <1>1 DEF Ask, AskGate, Gates
<1>2. ASSUME NEW r \in Requests, GatePauses(r) PROVE InMemoryInv'
  BY <1>2 DEF GatePauses, GateEntersHook, EnterHook, Register
<1>3. ASSUME NEW r \in Requests, HandlerPauses(r) PROVE InMemoryInv'
  BY <1>3 DEF HandlerPauses, WorkflowPauses, EnterHook, Register
<1>4. ASSUME NEW r \in Requests, NEW d \in Decisions, Resolve(r, d)
      PROVE  InMemoryInv'
  <2>1. fut[r] = "pending" /\ acks[r] = <<>>
    BY <1>4 DEF Resolve
  <2>2. acks' = [acks EXCEPT ![r] = <<d>>]
    BY <1>4, <2>1 DEF Resolve
  <2>3. TypeOK'
    <3>1. <<d>> \in Seq(Decisions)
      OBVIOUS
    <3>2. acks' \in [Requests -> Seq(Decisions)]
      BY <2>2, <3>1
    <3>3. fut' \in [Requests -> Decisions \cup {"none", "pending", "cancelled"}]
      BY <1>4 DEF Resolve
    <3>4. QED
      BY <1>4, <3>2, <3>3 DEF Resolve
  <2>4. GateInv'
    BY <1>4, <2>1 DEF Resolve
  <2>5. FuturesInv'
    <3>1. fut'[r] = d /\ acks'[r] = <<d>> /\ r \notin futures'
      <4>1. fut' = [fut EXCEPT ![r] = d] /\ futures' = futures \ {r}
        BY <1>4 DEF Resolve
      <4>2. DOMAIN fut = Requests /\ DOMAIN acks = Requests
        OBVIOUS
      <4> HIDE DEF InMemoryInv, TypeOK, GateInv, FuturesInv
      <4> QED BY <2>2, <4>1, <4>2
    <3>2. \A q \in Requests \ {r} :
            fut'[q] = fut[q] /\ acks'[q] = acks[q] /\ (q \in futures' <=> q \in futures)
      BY <1>4, <2>2 DEF Resolve
    <3>3. QED
      BY <3>1, <3>2
  <2>6. QED
    BY <2>3, <2>4, <2>5
<1>5. ASSUME NEW r \in Requests, Refuse(r) PROVE InMemoryInv'
  BY <1>5 DEF Refuse, gateVars
<1>6. ASSUME NEW r \in Requests, Wake(r) PROVE InMemoryInv'
  <2>1. CASE DecisionWakes(r)
    BY <1>6, <2>1 DEF Wake, DecisionWakes
  <2>2. CASE TimeoutWakes(r)
    BY <1>6, <2>2 DEF Wake, TimeoutWakes
  <2>3. CASE CancelWakes(r)
    BY <1>6, <2>3 DEF Wake, CancelWakes
  <2>4. QED
    BY <1>6, <2>1, <2>2, <2>3 DEF Wake
<1>7. ASSUME NEW r \in Requests, Expire(r) PROVE InMemoryInv'
  BY <1>7, InMemoryCancelFuturesValue DEF Expire, TimerFires
<1>8. ASSUME NEW r \in Requests, Continue(r) PROVE InMemoryInv'
  BY <1>8 DEF Continue, Proceed
<1>9. ASSUME NEW s \in Streams, CancelStream(s) PROVE InMemoryInv'
  BY <1>9, CutShort, InMemoryCancelFuturesValue, InMemoryAfterTaskCancelValue
     DEF InMemoryInv, CancelStream, DisconnectAtAwait
<1>10. ASSUME NEW s \in Streams, CloseStream(s) PROVE InMemoryInv'
  BY <1>10, CutShort, InMemoryCancelFuturesValue, InMemoryAfterTaskCancelValue
     DEF InMemoryInv, CloseStream, DisconnectAtYield, CancelListed
<1>11. ASSUME NEW s \in Streams, CloseWorkflow(s) PROVE InMemoryInv'
  BY <1>11, CutShort, InMemoryCancelFuturesValue, InMemoryAfterTaskCancelValue
     DEF InMemoryInv, CloseWorkflow, CloseGenerators
<1>12. ASSUME NEW s \in Streams, EndStream(s) PROVE InMemoryInv'
  BY <1>12, CutShort, InMemoryCancelFuturesValue
     DEF InMemoryInv, EndStream, Finish, CancelListed
<1>13. CASE UNCHANGED vars
  BY <1>13 DEF vars, gateVars
<1>14. QED
  BY <1>1, <1>2, <1>3, <1>4, <1>5, <1>6, <1>7, <1>8, <1>9, <1>10, <1>11, <1>12,
     <1>13 DEF Next

\* Every reachable state satisfies the inductive invariant.
THEOREM InMemoryInvariant == Spec => []InMemoryInv
  BY InMemoryInit, InMemoryNext, PTL DEF Spec

-----------------------------------------------------------------------------
\* The variables always have their types.
THEOREM InMemoryTypeCorrect == Spec => []TypeOK
  BY InMemoryInvariant, PTL DEF InMemoryInv

\* A pause ends with the human's decision only if that decision is the one and
\* only decision a POST was told had been delivered.
THEOREM VerdictIsTheAckHolds == Spec => []VerdictIsTheAck
<1>1. InMemoryInv => VerdictIsTheAck
  BY DEF InMemoryInv, GateInv, FuturesInv, VerdictIsTheAck, Decisions
<1>2. QED
  BY <1>1, InMemoryInvariant, PTL

\* No two POSTs for one pause are both answered 200.
THEOREM OneAckHolds == Spec => []OneAck
<1>1. InMemoryInv => OneAck
  <2> SUFFICES ASSUME InMemoryInv, NEW r \in Requests PROVE Len(acks[r]) <= 1
    BY DEF OneAck
  <2>1. CASE fut[r] \in Decisions
    <3>1. acks[r] = <<fut[r]>>
      BY <2>1 DEF InMemoryInv, FuturesInv
    <3>2. QED
      BY <3>1
  <2>2. CASE fut[r] \notin Decisions
    BY <2>2 DEF InMemoryInv, FuturesInv
  <2>3. QED
    BY <2>1, <2>2
<1>2. QED
  BY <1>1, InMemoryInvariant, PTL

\* A guarded step runs only on consent.
THEOREM InMemoryRunsOnlyOnConsent == Spec => []RunsOnlyOnConsent
<1>1. InMemoryInv => RunsOnlyOnConsent
  BY DEF InMemoryInv, TypeOK, GateTypeOK, GateInv, FuturesInv,
         RunsOnlyOnConsent, Consents, Decisions
<1>2. QED
  BY <1>1, InMemoryInvariant, PTL

\* A pause that a decision ended leaves nothing registered in the store.
THEOREM OnlyCutShortHolds == Spec => []OnlyCutShortStaysRegistered
<1>1. InMemoryInv => OnlyCutShortStaysRegistered
  BY DEF InMemoryInv, TypeOK, GateTypeOK, GateInv, FuturesInv,
         OnlyCutShortStaysRegistered, Verdicts, Decisions
<1>2. QED
  BY <1>1, InMemoryInvariant, PTL

\* A POST is answered 404 only when the task does not wait for the decision any
\* more: InMemoryStore.resolve turns down nobody whose future is pending.
THEOREM RefusedMeansNobodyWaitsHolds == Spec => RefusedMeansNobodyWaits
<1>1. ASSUME InMemoryInv, [Next]_(vars)
      PROVE  \A r \in refused' \ refused : fut[r] # "pending"
  <2> SUFFICES ASSUME refused' # refused PROVE \A r \in refused' \ refused : fut[r] # "pending"
    OBVIOUS
  <2>1. \E r \in Requests : Refuse(r)
    BY <1>1 DEF Next, vars, storeVars, Ask, GatePauses, HandlerPauses,
                Register, Resolve, Wake, Expire, Continue, CancelStream,
                CloseStream, CloseWorkflow, EndStream, CancelListed
  <2> QED BY <1>1, <2>1 DEF Refuse, InMemoryInv, FuturesInv
<1>2. QED
  BY <1>1, InMemoryInvariant, PTL DEF Spec, RefusedMeansNobodyWaits

-----------------------------------------------------------------------------
\* The initial state is one of the abstract promise.
LEMMA InMemoryInitImplements == Init => Promise!Init
  BY DEF Init, GateInit, Promise!Init

\* Every step of the store and its askers is a step of the promise, or leaves
\* its variables alone.
LEMMA InMemoryStepImplements ==
  InMemoryInv /\ [Next]_(vars) => [Promise!Next]_(Promise!vars)
<1> SUFFICES ASSUME InMemoryInv, [Next]_(vars)
             PROVE  [Promise!Next]_(Promise!vars)
  OBVIOUS
<1> USE DEF Promise!vars
<1>1. ASSUME NEW r \in Requests, NEW d \in Decisions, Resolve(r, d)
      PROVE  Promise!Next
  BY <1>1 DEF Resolve, Promise!Next, Promise!Acknowledge,
              Promise!Decisions, Decisions
<1>2. ASSUME NEW r \in Requests, Wake(r) PROVE Promise!Next
  <2>1. verdict[r] = "none"
    <3>1. phase[r] \in {"waiting", "expiring", "cancelling"}
      BY <1>2 DEF Wake, DecisionWakes, TimeoutWakes, CancelWakes
    <3>2. QED
      BY <3>1 DEF InMemoryInv, GateInv
  <2>2. UNCHANGED <<acks, ran>>
    BY <1>2 DEF Wake, DecisionWakes, TimeoutWakes, CancelWakes,
                storeVars
  <2>3. CASE DecisionWakes(r)
    <3>1. acks[r] # <<>> /\ Head(acks[r]) = fut[r]
      <4>1. acks[r] = <<fut[r]>>
        BY <2>3 DEF DecisionWakes, InMemoryInv, FuturesInv, Decisions
      <4>2. QED
        BY <4>1
    <3>2. Promise!Decide(r)
      BY <2>1, <2>2, <2>3, <3>1 DEF DecisionWakes, Promise!Decide
    <3>3. QED
      BY <3>2 DEF Promise!Next
  <2>4. CASE TimeoutWakes(r) \/ CancelWakes(r)
    <3>1. Promise!GiveUp(r)
      BY <2>1, <2>2, <2>4 DEF TimeoutWakes, CancelWakes, Promise!GiveUp
    <3>2. QED
      BY <3>1 DEF Promise!Next
  <2>5. QED
    BY <1>2, <2>3, <2>4 DEF Wake
<1>3. ASSUME NEW r \in Requests, Continue(r)
      PROVE  Promise!Next \/ UNCHANGED Promise!vars
  <2>1. r \notin ran
    BY <1>3 DEF Continue, Proceed, InMemoryInv, GateInv
  <2>2. CASE Consents(verdict[r])
    BY <1>3, <2>1, <2>2 DEF Continue, Proceed, storeVars, Consents, Decisions, Promise!Next,
                            Promise!Run,
                            Promise!Consents
  <2>3. CASE ~Consents(verdict[r])
    BY <1>3, <2>3 DEF Continue, Proceed, storeVars
  <2>4. QED
    BY <2>2, <2>3
<1>4. ASSUME NEW r \in Requests,
             \/ Ask(r) \/ GatePauses(r) \/ HandlerPauses(r)
             \/ Refuse(r) \/ Expire(r)
      PROVE  UNCHANGED Promise!vars
  BY <1>4 DEF Ask, AskGate, GatePauses, GateEntersHook,
              HandlerPauses, WorkflowPauses, EnterHook, Register,
              Refuse, Expire, TimerFires, storeVars, gateVars
<1>5. ASSUME NEW s \in Streams,
             \/ CancelStream(s) \/ CloseStream(s)
             \/ CloseWorkflow(s) \/ EndStream(s)
      PROVE  UNCHANGED Promise!vars
  BY <1>5 DEF CancelStream, DisconnectAtAwait, CloseStream,
              DisconnectAtYield, CloseWorkflow, CloseGenerators,
              EndStream, Finish, CancelListed, storeVars
<1>6. CASE UNCHANGED vars
  BY <1>6 DEF vars, gateVars, storeVars
<1>7. QED
  BY <1>1, <1>2, <1>3, <1>4, <1>5, <1>6 DEF Next

\* The in-memory store implements the promise of Consent.
THEOREM InMemoryImplements == Spec => KeepsThePromise
  BY InMemoryInitImplements, InMemoryStepImplements, InMemoryInvariant, PTL
     DEF Spec, KeepsThePromise, Promise!Spec
=============================================================================
