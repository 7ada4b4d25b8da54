------------------------------ MODULE Consent ------------------------------
(***************************************************************************)
(* What a pending-confirmation store promises the agent, whatever the      *)
(* store: a pause ends at most once, with the first decision a POST was    *)
(* told had been delivered, or with a timeout or a cancellation; and a     *)
(* paused tool runs only after the pause ended in consent.                 *)
(*                                                                         *)
(* InMemoryConfirmation and RedisConfirmation implement this module.       *)
(***************************************************************************)
EXTENDS Sequences

CONSTANTS
  Requests,    \* ids of the pauses (one fresh uuid per pause)
  OnTimeout    \* AgentRunConfig.confirmation_on_timeout

Decisions == {"confirm", "decline"}

VARIABLES
  acks,      \* per request, the decisions whose POST was answered 200, in order
  verdict,   \* per request, how its pause ended
  ran        \* requests whose guarded step was executed

vars == <<acks, verdict, ran>>

Consents(v) == v = "confirm" \/ (v = "timeout" /\ OnTimeout = "confirm")

Init ==
  /\ acks = [r \in Requests |-> <<>>]
  /\ verdict = [r \in Requests |-> "none"]
  /\ ran = {}

Acknowledge(r, d) ==
  /\ acks' = [acks EXCEPT ![r] = Append(@, d)]
  /\ UNCHANGED <<verdict, ran>>

Decide(r) ==
  /\ verdict[r] = "none"
  /\ acks[r] # <<>>
  /\ verdict' = [verdict EXCEPT ![r] = Head(acks[r])]
  /\ UNCHANGED <<acks, ran>>

GiveUp(r) ==
  /\ verdict[r] = "none"
  /\ \E v \in {"timeout", "cancelled"} : verdict' = [verdict EXCEPT ![r] = v]
  /\ UNCHANGED <<acks, ran>>

Run(r) ==
  /\ Consents(verdict[r])
  /\ r \notin ran
  /\ ran' = ran \cup {r}
  /\ UNCHANGED <<acks, verdict>>

Next ==
  \E r \in Requests :
    \/ \E d \in Decisions : Acknowledge(r, d)
    \/ Decide(r)
    \/ GiveUp(r)
    \/ Run(r)

Spec == Init /\ [][Next]_vars
=============================================================================
