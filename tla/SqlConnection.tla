--------------------------- MODULE SqlConnection ---------------------------
(***************************************************************************)
(* The sync SQL stores over DB-API connections: appends of one process     *)
(* that share a connection, each store's asyncio.Lock, the thread of       *)
(* asyncio.to_thread that outlives a cancelled call, and another process   *)
(* that writes the same tables.                                            *)
(*                                                                         *)
(* The transaction belongs to the connection and not to the call: a        *)
(* statement sees every uncommitted row of the connection, a commit keeps  *)
(* them all and a rollback drops them all.  Statements are atomic, and a   *)
(* failed one leaves the transaction open, as in sqlite.  A call appends   *)
(* to its store's one table, under one id.                                 *)
(***************************************************************************)
EXTENDS Integers

CONSTANTS
  Calls,         \* the appends of this process, each made once
  Stores,        \* the store instances that were given the connection
  StoreOf,       \* the store each call is made on
  MaxAttempts,   \* SEQ_COLLISION_MAX_ATTEMPTS
  MaxForeign     \* bound on the rows the other process commits

None == "none"

ASSUME SqlConnectionAssumption ==
  /\ StoreOf \in [Calls -> Stores]
  /\ MaxAttempts \in Nat \ {0}
  /\ MaxForeign \in Nat
  /\ None \notin Calls

VARIABLES
  committed,     \* rows <<store, seq, author>> any process sees
  pending,       \* rows of the connection's open transaction
  initialized,   \* stores whose schema is known to exist
  lock,          \* the call that holds each store's lock, or None
  pc,            \* where the call, or its orphaned thread, stands
  cut,           \* calls cancelled while a thread ran for them
  attempt,       \* attempt number of the append
  next,          \* the seq its last SELECT chose
  acked,         \* calls that returned: neither raised nor cancelled
  foreign,       \* rows the other process committed
  mixed          \* two calls' threads were once inside _run together

vars == <<committed, pending, initialized, lock, pc, cut, attempt, next,
          acked, foreign, mixed>>

rows == <<committed, pending, foreign>>
locals == <<attempt, next>>

Places == {"new", "schema", "wait", "select", "insert", "commit",
           "return", "raise", "done"}

\* The seqs in a store's table, as this connection sees it.
Seqs(s) == {r[2] : r \in {q \in committed \cup pending : q[1] = s}}

\* MAX(seq), 0 when there is no row.
Top(s) == CHOOSE n \in {0} \cup Seqs(s) : \A k \in Seqs(s) : k <= n

\* A thread is inside the call's _run.
Running(c) == pc[c] \in {"select", "insert", "commit"}

At(c, place) == pc' = [pc EXCEPT ![c] = place]

\* The thread and its local variables are gone.
Over(c) ==
  /\ At(c, "done")
  /\ cut' = cut \ {c}
  /\ attempt' = [attempt EXCEPT ![c] = 0]
  /\ next' = [next EXCEPT ![c] = 0]

Init ==
  /\ committed = {} /\ pending = {} /\ foreign = 0
  /\ initialized = {}
  /\ lock = [s \in Stores |-> None]
  /\ pc = [c \in Calls |-> "new"]
  /\ cut = {}
  /\ attempt = [c \in Calls |-> 0]
  /\ next = [c \in Calls |-> 0]
  /\ acked = {}
  /\ mixed = FALSE

-----------------------------------------------------------------------------
\* append(): straight to the lock, or through the schema set-up.
Begin(c) ==
  /\ pc[c] = "new"
  /\ At(c, IF StoreOf[c] \in initialized THEN "wait" ELSE "schema")
  /\ UNCHANGED <<rows, initialized, lock, cut, locals, acked, mixed>>

\* CREATE TABLE IF NOT EXISTS and a commit, in a thread and without the lock.
Schema(c) ==
  /\ pc[c] = "schema"
  /\ committed' = committed \cup pending
  /\ pending' = {}
  /\ \/ c \in cut /\ Over(c) /\ UNCHANGED initialized
     \/ /\ c \notin cut
        /\ At(c, "wait")
        /\ initialized' = initialized \cup {StoreOf[c]}
        /\ UNCHANGED <<cut, locals>>
  /\ UNCHANGED <<lock, acked, foreign, mixed>>

\* The set-up fails: no rollback.
SchemaFails(c) ==
  /\ pc[c] = "schema"
  /\ Over(c)
  /\ UNCHANGED <<rows, initialized, lock, acked, mixed>>

\* The call enters _run.
Enter(c) ==
  /\ pc[c] = "wait"
  /\ lock' = [lock EXCEPT ![StoreOf[c]] = c]
  /\ attempt' = [attempt EXCEPT ![c] = 1]
  /\ mixed' = (mixed \/ \E d \in Calls : Running(d))
  /\ At(c, "select")
  /\ UNCHANGED <<rows, initialized, cut, next, acked>>

\* async with self._lock: await asyncio.to_thread(_run)
Acquire(c) == lock[StoreOf[c]] = None /\ Enter(c)

SelectNext(c) ==
  /\ pc[c] = "select"
  /\ next' = [next EXCEPT ![c] = Top(StoreOf[c]) + 1]
  /\ At(c, "insert")
  /\ UNCHANGED <<rows, initialized, lock, cut, attempt, acked, mixed>>

\* Faulty variant: autocommit is taken for granted, and it is off.
InsertAndReturn(c) ==
  /\ pc[c] = "insert"
  /\ next[c] \notin Seqs(StoreOf[c])
  /\ pending' = pending \cup {<<StoreOf[c], next[c], c>>}
  /\ At(c, "return")
  /\ UNCHANGED <<committed, foreign, initialized, lock, cut, locals, acked, mixed>>

Insert(c) ==
  /\ pc[c] = "insert"
  /\ next[c] \notin Seqs(StoreOf[c])
  /\ pending' = pending \cup {<<StoreOf[c], next[c], c>>}
  /\ At(c, "commit")
  /\ UNCHANGED <<committed, foreign, initialized, lock, cut, locals, acked, mixed>>

\* The collision of a loop that runs attempts 1..limit.
CollideUpTo(c, limit) ==
  /\ pc[c] = "insert"
  /\ next[c] \in Seqs(StoreOf[c])
  /\ pending' = {}
  /\ \/ /\ attempt[c] < limit
        /\ attempt' = [attempt EXCEPT ![c] = @ + 1]
        /\ At(c, "select")
     \/ /\ attempt[c] >= limit
        /\ attempt' = attempt
        /\ At(c, "raise")
  /\ UNCHANGED <<committed, foreign, initialized, lock, cut, next, acked, mixed>>

\* IntegrityError: roll the connection back, and retry or give up.
Collide(c) == CollideUpTo(c, MaxAttempts)

\* Faulty variant: the loop goes on after its commit.
CommitAndLoop(c) ==
  /\ pc[c] = "commit"
  /\ committed' = committed \cup pending
  /\ pending' = {}
  /\ \/ At(c, "return") /\ UNCHANGED attempt
     \/ /\ attempt[c] < MaxAttempts
        /\ attempt' = [attempt EXCEPT ![c] = @ + 1]
        /\ At(c, "select")
  /\ UNCHANGED <<foreign, initialized, lock, cut, next, acked, mixed>>

Commit(c) ==
  /\ pc[c] = "commit"
  /\ committed' = committed \cup pending
  /\ pending' = {}
  /\ At(c, "return")
  /\ UNCHANGED <<foreign, initialized, lock, cut, locals, acked, mixed>>

\* Faulty variant: an unforeseen error is raised as it is.
AbortOpen(c) ==
  /\ Running(c)
  /\ At(c, "raise")
  /\ UNCHANGED <<rows, initialized, lock, cut, locals, acked, mixed>>

\* KeyError for a run without a header, or any other error of a statement.
Abort(c) ==
  /\ Running(c)
  /\ pending' = {}
  /\ At(c, "raise")
  /\ UNCHANGED <<committed, foreign, initialized, lock, cut, locals, acked, mixed>>

\* The lock, if the call holds it.
Unlocked(c) == [s \in Stores |-> IF lock[s] = c THEN None ELSE lock[s]]

\* The thread is over; nobody awaits it if the call was cancelled.
Return(c) ==
  /\ pc[c] \in {"return", "raise"}
  /\ acked' = IF pc[c] = "return" /\ c \notin cut THEN acked \cup {c} ELSE acked
  /\ lock' = Unlocked(c)
  /\ Over(c)
  /\ UNCHANGED <<rows, initialized, mixed>>

\* What a cancellation leaves behind.
Abandon(c) ==
  /\ pc[c] \notin {"new", "done"}
  /\ c \notin cut
  /\ \/ /\ pc[c] = "schema" \/ Running(c)
        /\ cut' = cut \cup {c}
        /\ UNCHANGED <<pc, locals>>
     \/ \* No thread has picked the work up, or none is left to run it.
        /\ \/ pc[c] \in {"schema", "wait", "return", "raise"}
           \/ pc[c] = "select" /\ attempt[c] = 1
        /\ Over(c)
  /\ UNCHANGED <<rows, initialized, acked, mixed>>

\* Faulty variant: acquire() and release() without a finally.
CancelHolding(c) == Abandon(c) /\ UNCHANGED lock

\* The task is cancelled: async with releases the lock, the thread goes on.
Cancel(c) == Abandon(c) /\ lock' = Unlocked(c)

\* The other process appends; an open transaction keeps it out.
ForeignCommit(s) ==
  /\ foreign < MaxForeign
  /\ pending = {}
  /\ foreign' = foreign + 1
  /\ committed' = committed \cup {<<s, Top(s) + 1, None>>}
  /\ UNCHANGED <<pending, initialized, lock, pc, cut, locals, acked, mixed>>

Statement(c) == SelectNext(c) \/ Insert(c) \/ Collide(c) \/ Commit(c)

Next ==
  \/ \E c \in Calls :
       \/ Begin(c)
       \/ Schema(c)
       \/ SchemaFails(c)
       \/ Acquire(c)
       \/ Statement(c)
       \/ Abort(c)
       \/ Return(c)
       \/ Cancel(c)
  \/ \E s \in Stores : ForeignCommit(s)

Spec == Init /\ [][Next]_vars

\* The pool runs its threads, the database answers, and a lock that is free is
\* given to a waiter; nothing makes a host call, fail or cancel.
FairSpec ==
  Spec /\ \A c \in Calls :
    WF_vars(Schema(c) \/ Acquire(c) \/ Statement(c) \/ Return(c))

-----------------------------------------------------------------------------
Rows == Stores \X (Nat \ {0}) \X (Calls \cup {None})

TypeOK ==
  /\ committed \subseteq Rows
  /\ pending \subseteq Rows
  /\ initialized \subseteq Stores
  /\ lock \in [Stores -> Calls \cup {None}]
  /\ pc \in [Calls -> Places]
  /\ cut \subseteq Calls
  /\ attempt \in [Calls -> 0..MaxAttempts]
  /\ next \in [Calls -> Nat]
  /\ acked \subseteq Calls
  /\ foreign \in 0..MaxForeign
  /\ mixed \in BOOLEAN

\* The lock keeps the threads of one store apart, but for those that a
\* cancelled call left behind.
KeptApart ==
  \A c, d \in Calls :
    c # d /\ StoreOf[c] = StoreOf[d] /\ Running(c) /\ Running(d)
      => c \in cut \/ d \in cut

\* Every call that returned has its row in the database.
AckedIsCommitted ==
  \A c \in acked : \E r \in committed : r[3] = c

\* The committed seqs of each table have no gap and no double.
Dense ==
  \A s \in Stores :
    LET n == {r \in committed : r[1] = s} IN
      \A r \in n : /\ \A k \in 1..r[2] : \E q \in n : q[2] = k
                   /\ \A q \in n : q[2] = r[2] => q = r

\* As long as no two threads met inside _run, nothing acknowledged is lost and
\* the tables stay dense: the other process and the schema set-ups of other
\* calls, which commit the same transaction, do no harm.
SafeKeptApart == ~mixed => AckedIsCommitted /\ Dense

\* Whatever mixes, a call leaves one row at most.
OncePerCall ==
  \A c \in Calls : \A r, q \in committed \cup pending :
    r[3] = c /\ q[3] = c => r = q

\* A transaction stays open only while a thread is about to commit it: a call
\* that failed or was cancelled does not keep other processes locked out.
NothingLeftOpen == pending # {} => \E c \in Calls : pc[c] = "commit"

\* Every call that was made ends (each is made once): no cancellation loses the
\* lock for the others, and no thread is left behind for good.
EveryCallEnds == <>[](\A c \in Calls : pc[c] \in {"new", "done"})
=============================================================================
