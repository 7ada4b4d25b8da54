----------------------------- MODULE UserMemory -----------------------------
(***************************************************************************)
(* What every MemoryStore promises about the memories it keeps, whatever   *)
(* its calls overlap with: the operations of LocalMemoryStore, each one    *)
(* step under its lock.  An id is used once, a memory changes only by its  *)
(* owner's calls, and what was deleted does not come back.                 *)
(***************************************************************************)
EXTENDS Integers, Functions

CONSTANTS
  Memories,  \* the ids that adds will create
  Owner,     \* the user of each memory
  Values     \* values that a memory may be given

VARIABLES
  memories,  \* from the ids of the live memories to their values
  created    \* ids that were used

Init == memories = [m \in {} |-> 0] /\ created = {}

OwnedBy(u) == {m \in DOMAIN memories : Owner[m] = u}

Add(m, v) ==
  /\ m \notin created
  /\ memories' = [n \in DOMAIN memories \cup {m} |-> IF n = m THEN v ELSE memories[n]]
  /\ created' = created \cup {m}

Update(u, m, v) ==
  /\ m \in OwnedBy(u)
  /\ memories' = [memories EXCEPT ![m] = v]
  /\ UNCHANGED created

Remove(u, m) ==
  /\ m \in OwnedBy(u)
  /\ memories' = Restrict(memories, DOMAIN memories \ {m})
  /\ UNCHANGED created

\* An erasure takes what the user had when it began; what is added meanwhile
\* may escape it.
forget_all(u) ==
  /\ \E gone \in SUBSET OwnedBy(u) :
       memories' = Restrict(memories, DOMAIN memories \ gone)
  /\ UNCHANGED created

Next ==
  \/ \E m \in Memories, v \in Values : Add(m, v)
  \/ \E u \in Range(Owner) :
       \/ \E m \in Memories : Remove(u, m)
       \/ \E m \in Memories, v \in Values : Update(u, m, v)
       \/ forget_all(u)

Spec == Init /\ [][Next]_<<memories, created>>
=============================================================================
