----------------------------- MODULE SeqAppend -----------------------------
(***************************************************************************)
(* Appending to one conversation or one run's transcript in a SQL store:   *)
(* SELECT COALESCE(MAX(seq), 0) + 1, INSERT under the unique key, COMMIT,  *)
(* and at most SEQ_COLLISION_MAX_ATTEMPTS attempts when the INSERT         *)
(* collides.  The loop is the same in the six stores that have it: the     *)
(* sync, the asyncpg and the aiomysql conversation and transcript stores.  *)
(*                                                                         *)
(* A writer is one store of one process with one connection in use: the    *)
(* sync stores' lock, or a pooled connection taken per attempt.  Each      *)
(* statement is one step, so writers interleave between any two.           *)
(***************************************************************************)
EXTENDS Integers, Sequences

CONSTANTS
  Writers,       \* concurrent writers of the same id
  MaxAttempts,   \* SEQ_COLLISION_MAX_ATTEMPTS
  MaxAppends,    \* bound on the appends one writer starts
  Snapshots      \* a SELECT pins the snapshot of its transaction (MySQL's
                 \* REPEATABLE READ), and read() leaves one open

ASSUME SeqAppendAssumption ==
  /\ MaxAttempts \in Nat \ {0}
  /\ MaxAppends \in Nat
  /\ Snapshots \in BOOLEAN

VARIABLES
  table,     \* committed rows: from seq to the append that wrote the row
  pc,        \* where each writer stands in append()
  started,   \* appends each writer has started
  attempt,   \* attempt number of the append in progress
  next,      \* the seq chosen by the last SELECT
  view,      \* rows the open snapshot shows, or NoView
  base,      \* rows committed when the append in progress was called
  acked      \* appends whose call returned

vars == <<table, pc, started, attempt, next, view, base, acked>>

NoView == -1

Entries == Writers \X (1..MaxAppends)

\* The append a writer has in progress, or had last.
Entry(w) == <<w, started[w]>>

\* MAX(seq), 0 when there is no row.
Top ==
  CHOOSE n \in {0} \cup DOMAIN table : \A k \in DOMAIN table : k <= n

Init ==
  /\ table = <<>>
  /\ pc = [w \in Writers |-> "idle"]
  /\ started = [w \in Writers |-> 0]
  /\ attempt = [w \in Writers |-> 0]
  /\ next = [w \in Writers |-> 0]
  /\ view = [w \in Writers |-> NoView]
  /\ base = [w \in Writers |-> 0]
  /\ acked = {}

-----------------------------------------------------------------------------
\* The call is over: its local variables are gone.
Leave(w) ==
  /\ pc' = [pc EXCEPT ![w] = "idle"]
  /\ attempt' = [attempt EXCEPT ![w] = 0]
  /\ next' = [next EXCEPT ![w] = 0]
  /\ base' = [base EXCEPT ![w] = 0]

Begin(w) ==
  /\ pc[w] = "idle"
  /\ started[w] < MaxAppends
  /\ started' = [started EXCEPT ![w] = @ + 1]
  /\ attempt' = [attempt EXCEPT ![w] = 1]
  /\ base' = [base EXCEPT ![w] = Top]
  /\ pc' = [pc EXCEPT ![w] = "select"]
  /\ UNCHANGED <<table, next, view, acked>>

\* read(): its SELECT opens a transaction that nothing closes.
ReadAll(w) ==
  /\ Snapshots
  /\ pc[w] = "idle"
  /\ view[w] = NoView
  /\ view' = [view EXCEPT ![w] = Top]
  /\ UNCHANGED <<table, pc, started, attempt, next, base, acked>>

\* The statement sees the open snapshot, or the rows committed now.
Visible(w) == IF view[w] = NoView THEN Top ELSE view[w]

SelectNext(w) ==
  /\ pc[w] = "select"
  /\ next' = [next EXCEPT ![w] = Visible(w) + 1]
  /\ view' = IF Snapshots THEN [view EXCEPT ![w] = Visible(w)] ELSE view
  /\ pc' = [pc EXCEPT ![w] = "insert"]
  /\ UNCHANGED <<table, started, attempt, base, acked>>

\* The unique index makes an INSERT wait for an uncommitted row of the same key.
KeyFree(w) == \A v \in Writers \ {w} : pc[v] = "commit" => next[v] # next[w]

\* Faulty variants of the INSERT: the call returns without a COMMIT ...
InsertAndReturn(w) ==
  /\ pc[w] = "insert"
  /\ KeyFree(w)
  /\ next[w] \notin DOMAIN table
  /\ pc' = [pc EXCEPT ![w] = "return"]
  /\ UNCHANGED <<table, started, attempt, next, view, base, acked>>

\* ... or an existing row of the key is replaced.
InsertOrReplace(w) ==
  /\ pc[w] = "insert"
  /\ pc' = [pc EXCEPT ![w] = "commit"]
  /\ UNCHANGED <<table, started, attempt, next, view, base, acked>>

Insert(w) ==
  /\ pc[w] = "insert"
  /\ KeyFree(w)
  /\ next[w] \notin DOMAIN table
  /\ pc' = [pc EXCEPT ![w] = "commit"]
  /\ UNCHANGED <<table, started, attempt, next, view, base, acked>>

\* The collision of a loop that runs attempts 1..limit.
CollideUpTo(w, limit) ==
  /\ pc[w] = "insert"
  /\ KeyFree(w)
  /\ next[w] \in DOMAIN table
  /\ view' = [view EXCEPT ![w] = NoView]
  /\ \/ /\ attempt[w] < limit
        /\ attempt' = [attempt EXCEPT ![w] = @ + 1]
        /\ pc' = [pc EXCEPT ![w] = "select"]
     \/ /\ attempt[w] >= limit
        /\ attempt' = attempt
        /\ pc' = [pc EXCEPT ![w] = "gaveup"]
  /\ UNCHANGED <<table, started, next, base, acked>>

\* Faulty variants: an attempt too few, and a loop that neither counts its
\* attempts nor rolls back between them.
CollideOnceLess(w) == CollideUpTo(w, MaxAttempts - 1)
CollideForever(w) ==
  /\ pc[w] = "insert"
  /\ KeyFree(w)
  /\ next[w] \in DOMAIN table
  /\ pc' = [pc EXCEPT ![w] = "select"]
  /\ UNCHANGED <<table, started, attempt, next, view, base, acked>>

\* IntegrityError: roll back, retry with a fresh MAX(seq), or give up.
Collide(w) == CollideUpTo(w, MaxAttempts)

\* Faulty variant: the loop goes on after its COMMIT.
CommitAndLoop(w) ==
  /\ pc[w] = "commit"
  /\ table' = [k \in DOMAIN table \cup {next[w]} |->
                 IF k = next[w] THEN Entry(w) ELSE table[k]]
  /\ view' = [view EXCEPT ![w] = NoView]
  /\ attempt' = [attempt EXCEPT ![w] = IF @ < MaxAttempts THEN @ + 1 ELSE @]
  /\ pc' = [pc EXCEPT ![w] = IF attempt[w] < MaxAttempts THEN "select" ELSE "return"]
  /\ UNCHANGED <<started, next, base, acked>>

Commit(w) ==
  /\ pc[w] = "commit"
  /\ table' = [k \in DOMAIN table \cup {next[w]} |->
                 IF k = next[w] THEN Entry(w) ELSE table[k]]
  /\ view' = [view EXCEPT ![w] = NoView]
  /\ pc' = [pc EXCEPT ![w] = "return"]
  /\ UNCHANGED <<started, attempt, next, base, acked>>

Return(w) ==
  /\ pc[w] = "return"
  /\ acked' = acked \cup {Entry(w)}
  /\ Leave(w)
  /\ UNCHANGED <<table, started, view>>

\* The last IntegrityError is raised to the caller.
Raise(w) ==
  /\ pc[w] = "gaveup"
  /\ Leave(w)
  /\ UNCHANGED <<table, started, view, acked>>

\* Any other driver error rolls back and is raised; the process may as well
\* die.  At "return" the COMMIT took effect but its reply was lost.
Abort(w) ==
  /\ pc[w] \in {"select", "insert", "commit", "return"}
  /\ view' = [view EXCEPT ![w] = NoView]
  /\ Leave(w)
  /\ UNCHANGED <<table, started, acked>>

Next ==
  \E w \in Writers :
    \/ Begin(w)
    \/ ReadAll(w)
    \/ SelectNext(w)
    \/ Insert(w)
    \/ Collide(w)
    \/ Commit(w)
    \/ Return(w)
    \/ Raise(w)
    \/ Abort(w)

Spec == Init /\ [][Next]_vars

\* A thread of the pool runs _run to its end and the database answers every
\* statement; nothing makes a host start an append.
Progress(w) ==
  SelectNext(w) \/ Insert(w) \/ Collide(w) \/ Commit(w) \/ Return(w) \/ Raise(w)

FairSpec == Spec /\ \A w \in Writers : WF_vars(Progress(w))

-----------------------------------------------------------------------------
TypeOK ==
  /\ DOMAIN table \subseteq Nat \ {0}
  /\ \A k \in DOMAIN table : table[k] \in Entries
  /\ pc \in [Writers -> {"idle", "select", "insert", "commit", "return", "gaveup"}]
  /\ started \in [Writers -> Nat]
  /\ attempt \in [Writers -> 0..MaxAttempts]
  /\ next \in [Writers -> Nat]
  /\ view \in [Writers -> Nat \cup {NoView}]
  /\ base \in [Writers -> Nat]
  /\ acked \subseteq Entries

\* The committed seqs are 1..n: no race, rollback or lost reply leaves a gap,
\* so ORDER BY seq returns every message and the count is the last seq.
Dense == DOMAIN table = 1..Top

\* A retry never writes its message twice, and each writer's messages are
\* stored in the order it appended them.
OncePerAppendInOrder ==
  \A i, j \in DOMAIN table :
    table[i][1] = table[j][1] /\ table[i][2] <= table[j][2] => i <= j

\* What was acknowledged is in the table.
AckedIsStored == \A e \in acked : \E k \in DOMAIN table : table[k] = e

\* append() gives up only after other writers committed a row during each of
\* its attempts; a snapshot left open by a read() costs it the first one.
GivesUpOnlyUnderContention ==
  \A w \in Writers : pc[w] = "gaveup" =>
    Top >= base[w] + MaxAttempts - (IF Snapshots THEN 1 ELSE 0)

\* Committed rows are never changed, moved or removed.
AppendOnly ==
  [][\A k \in DOMAIN table : k \in DOMAIN table' /\ table'[k] = table[k]]_vars

\* Every call ends: the retries are bounded and no wait for a key is circular.
EveryCallEnds == \A w \in Writers : pc[w] # "idle" ~> pc[w] = "idle"

\* The table is the append-only log the store promises.
Log == INSTANCE AppendLog WITH log <- [k \in 1..Top |-> table[k]]
IsALog == Log!Spec
=============================================================================
