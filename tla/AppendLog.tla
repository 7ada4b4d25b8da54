----------------------------- MODULE AppendLog -----------------------------
(***************************************************************************)
(* What the conversation and transcript stores promise their callers: an   *)
(* append-only log.  An append takes effect at one instant, at the end of  *)
(* the log, and is acknowledged, if ever, after that.                      *)
(***************************************************************************)
EXTENDS Sequences

CONSTANT Entries

VARIABLES log, acked

vars == <<log, acked>>

Init == log = <<>> /\ acked = {}

Add(e) ==
  /\ \A i \in DOMAIN log : log[i] # e
  /\ log' = Append(log, e)
  /\ UNCHANGED acked

Acknowledge(e) ==
  /\ \E i \in DOMAIN log : log[i] = e
  /\ e \notin acked
  /\ acked' = acked \cup {e}
  /\ UNCHANGED log

Next == \E e \in Entries : Add(e) \/ Acknowledge(e)

Spec == Init /\ [][Next]_vars
=============================================================================
