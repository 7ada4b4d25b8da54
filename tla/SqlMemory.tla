----------------------------- MODULE SqlMemory -----------------------------
(***************************************************************************)
(* The table of user memories behind SqlMemoryStore, AsyncpgMemoryStore    *)
(* and AiomysqlMemoryStore, statement by statement, and the memory tools   *)
(* that call them.  Every write is a SELECT, a statement and a COMMIT:     *)
(* nothing but the database orders the statements of two processes.        *)
(*                                                                         *)
(* A pool gives each call a transaction of its own, and ends it with the   *)
(* call.  SqlMemoryStore runs its calls one after the other, under a lock, *)
(* on one connection, and its reads neither commit nor roll back: on MySQL *)
(* they leave a snapshot open, and on PostgreSQL a read that fails leaves  *)
(* a transaction that refuses every further statement.                     *)
(*                                                                         *)
(* The memory that an add creates is named by the call, as every add has a *)
(* fresh id, and so is the value that a call gives to a memory.            *)
(***************************************************************************)
EXTENDS Integers, FiniteSets, FiniteSetsExt, Functions

CONSTANTS
  Calls,     \* calls of the stores, each made once
  Request,   \* what each call asks for: a memory tool's name, or a method
  User,      \* the user_id of each call's context
  Store,     \* the store object that serves it
  Pooled,    \* the store objects that work on a pool
  Dialects,  \* the databases they may share
  MaxCalls,  \* bound on the calls that one behaviour makes
  MaxFaults, \* bound on the statements that fail
  None

Tools == {"memory_recall", "memory_remember", "memory_update", "memory_forget"}
Methods == {"add", "get", "list", "update", "remove", "forget_all"}
Stores == Range(Store)

ASSUME SqlMemoryAssumption ==
  /\ Request \in [Calls -> Tools \cup Methods]
  /\ DOMAIN User = Calls /\ DOMAIN Store = Calls
  /\ Pooled \subseteq Stores
  /\ Dialects \subseteq {"sqlite", "postgresql", "mysql"}
  /\ MaxCalls \in Nat /\ MaxFaults \in Nat
  /\ None \notin Calls

\* The store's method that serves a request.
Method ==
  [c \in Calls |->
     CASE Request[c] = "memory_recall" -> "list"
       [] Request[c] = "memory_remember" -> "add"
       [] Request[c] = "memory_update" -> "update"
       [] Request[c] = "memory_forget" -> "remove"
       [] OTHER -> Request[c]]

Calling(methods) == {c \in Calls : Method[c] \in methods}
Adds == Calling({"add"})
Updates == Calling({"update"})
Lists == Calling({"list"})
Shows == Calling({"get", "list"})
Reads == Calling({"get", "list"})
Targeted == Calling({"get", "update", "remove"})

VARIABLES
  dialect,  \* the database
  table,    \* committed rows: from a memory to its seq and value
  pc,       \* "new", "select", "write", "commit", "done"
  target,   \* the memory_id that each get, update and remove is given, or None
  next,     \* per call, the number its SELECT returned: the seq, or the count
  hit,      \* per call, the rows its UPDATE or DELETE matched
  outcome,  \* per call: "ok", "KeyError", "error", or None
  answer,   \* per read, the rows it returned
  lock,     \* per store object, the call that holds its asyncio.Lock
  view,     \* per store object, the snapshot its connection is in, or None
  aborted,  \* store objects whose transaction refuses every statement
  before,   \* per call, the calls that were over when it began
  stale,    \* calls that began on a connection with an open snapshot
  created   \* memories that were committed

rows == <<table, dialect>>
call == <<next, hit, answer>>
connection == <<view, aborted>>
ghosts == <<before, stale, created>>
vars == <<rows, pc, target, call, outcome, lock, connection, ghosts>>

NoRows == [m \in {} |-> None]

Init ==
  /\ dialect \in Dialects
  /\ table = NoRows
  /\ pc = [c \in Calls |-> "new"]
  /\ target = [c \in Calls |-> None]
  /\ next = [c \in Calls |-> 0]
  /\ hit = [c \in Calls |-> {}]
  /\ outcome = [c \in Calls |-> None]
  /\ answer = [c \in Reads |-> NoRows]
  /\ lock = [s \in Stores |-> None]
  /\ view = [s \in Stores |-> None]
  /\ aborted = {}
  /\ before = [c \in Calls |-> {}]
  /\ stale = {}
  /\ created = {}

-----------------------------------------------------------------------------
At(c, place) == pc' = [pc EXCEPT ![c] = place]

\* Faulty variant: the lock is kept.
OverAndLocked(c, how) ==
  /\ At(c, "done")
  /\ outcome' = [outcome EXCEPT ![c] = how]
  /\ lock' = lock

\* The call returns or raises, and gives the lock back.
Over(c, how) ==
  /\ At(c, "done")
  /\ outcome' = [outcome EXCEPT ![c] = how]
  /\ lock' = [lock EXCEPT ![Store[c]] = IF @ = c THEN None ELSE @]

\* COMMIT, ROLLBACK, or the end of a pooled connection's transaction.
EndTransaction(c) ==
  /\ view' = [view EXCEPT ![Store[c]] = None]
  /\ aborted' = aborted \ {Store[c]}

Begun == {c \in Calls : pc[c] # "new"}

\* The call gets the lock, or a connection of the pool.  The memory it asks
\* for is one that was created: its fresh id is not known earlier.
Begin(c) ==
  /\ pc[c] = "new" /\ Cardinality(Begun) < MaxCalls
  /\ \/ Store[c] \in Pooled /\ UNCHANGED lock
     \/ /\ Store[c] \notin Pooled /\ lock[Store[c]] = None
        /\ lock' = [lock EXCEPT ![Store[c]] = c]
  /\ before' = [before EXCEPT ![c] = {d \in Calls : pc[d] = "done"}]
  /\ stale' = IF view[Store[c]] # None THEN stale \cup {c} ELSE stale
  /\ IF c \in Targeted THEN \E m \in created : target' = [target EXCEPT ![c] = m]
     ELSE UNCHANGED target
  /\ At(c, "select")
  /\ UNCHANGED <<rows, call, outcome, connection, created>>

\* The rows that a SELECT of this call sees, and the snapshot it leaves.
Visible(c) == IF view[Store[c]] = None THEN table ELSE view[Store[c]]
Look(c) ==
  view' = IF dialect = "mysql" /\ Store[c] \notin Pooled
          THEN [view EXCEPT ![Store[c]] = Visible(c)] ELSE view

\* The first statement of a call is answered.
Select(c, method) ==
  /\ pc[c] = "select" /\ Method[c] = method
  /\ Store[c] \notin aborted

Owned(t, u) == {m \in DOMAIN t : User[m] = u}
Seqs(t, u) == {t[m].seq : m \in Owned(t, u)}

\* Faulty variant: the next row takes the number of the last one.
SelectLast(c) ==
  /\ Select(c, "add")
  /\ next' = [next EXCEPT ![c] = Max({1} \cup Seqs(Visible(c), User[c]))]
  /\ Look(c)
  /\ At(c, "write")
  /\ UNCHANGED <<rows, target, hit, outcome, answer, lock, aborted, ghosts>>

SelectMax(c) ==
  /\ Select(c, "add")
  /\ next' = [next EXCEPT ![c] = Max({0} \cup Seqs(Visible(c), User[c])) + 1]
  /\ Look(c)
  /\ At(c, "write")
  /\ UNCHANGED <<rows, target, hit, outcome, answer, lock, aborted, ghosts>>

\* WHERE memory_id = ? AND user_id = ?
Find(c, m) == m \in Owned(Visible(c), User[c])

\* update() and remove() look whether the memory is there.
SelectOne(c) ==
  /\ \E method \in {"update", "remove"} : Select(c, method)
  /\ Find(c, target[c])
  /\ Look(c)
  /\ At(c, "write")
  /\ UNCHANGED <<rows, target, call, outcome, lock, aborted, ghosts>>

\* Faulty variant: a KeyError is not rolled back.
NotFoundLeftOpen(c) ==
  /\ \E method \in {"get", "update", "remove"} : Select(c, method)
  /\ ~Find(c, target[c])
  /\ Look(c)
  /\ Over(c, "KeyError")
  /\ UNCHANGED <<rows, target, call, aborted, ghosts>>

\* KeyError: update() and remove() roll back, get() does not.
NotFound(c) ==
  /\ \E method \in {"get", "update", "remove"} : Select(c, method)
  /\ ~Find(c, target[c])
  /\ IF Method[c] = "get" THEN Look(c) /\ UNCHANGED aborted ELSE EndTransaction(c)
  /\ Over(c, "KeyError")
  /\ UNCHANGED <<rows, target, call, ghosts>>

SelectCount(c) ==
  /\ Select(c, "forget_all")
  /\ next' = [next EXCEPT ![c] = Cardinality(Owned(Visible(c), User[c]))]
  /\ Look(c)
  /\ At(c, "write")
  /\ UNCHANGED <<rows, target, hit, outcome, answer, lock, aborted, ghosts>>

\* A read of one row, of a user's rows in the order of seq.
Return(c, memories) ==
  /\ answer' = [answer EXCEPT ![c] = Restrict(Visible(c), memories)]
  /\ Look(c)
  /\ Over(c, "ok")
  /\ UNCHANGED <<rows, target, next, hit, aborted, ghosts>>

Get(c) ==
  /\ Select(c, "get")
  /\ Find(c, target[c])
  /\ Return(c, {target[c]})

List(c) == Select(c, "list") /\ Return(c, Owned(Visible(c), User[c]))

\* A row that a transaction has written is locked until its end.
RowsFree(c, memories) ==
  \A d \in Calls \ {c} : pc[d] = "commit" => hit[d] \cap memories = {}

Write(c, memories) ==
  /\ pc[c] = "write"
  /\ RowsFree(c, memories)
  /\ hit' = [hit EXCEPT ![c] = memories]
  /\ At(c, "commit")
  /\ UNCHANGED <<rows, target, next, outcome, answer, lock, connection, ghosts>>

Insert(c) == Method[c] = "add" /\ Write(c, {c})

\* They match the committed rows of the moment, whatever the SELECT saw.
UpdateRow(c) ==
  /\ Method[c] = "update"
  /\ Write(c, {target[c]} \cap Owned(table, User[c]))

DeleteRow(c) ==
  /\ Method[c] = "remove"
  /\ Write(c, {target[c]} \cap Owned(table, User[c]))

DeleteRows(c) ==
  /\ Method[c] = "forget_all"
  /\ Write(c, Owned(table, User[c]))

Row(c, m) ==
  [seq |-> IF Method[c] = "add" THEN next[c] ELSE table[m].seq, value |-> c]

\* Faulty variant: an UPDATE that matches nothing inserts the row.
Upserted(c) ==
  IF Method[c] \in {"add", "update"}
  THEN [m \in DOMAIN table \cup hit[c] \cup (IF Method[c] = "update" THEN {target[c]} ELSE {}) |->
          IF m \in hit[c] THEN Row(c, m)
          ELSE IF m \in DOMAIN table THEN table[m] ELSE [seq |-> 1, value |-> c]]
  ELSE Restrict(table, DOMAIN table \ hit[c])

\* What the call's transaction makes of the committed rows.
Written(c) ==
  IF Method[c] \in {"add", "update"}
  THEN [m \in DOMAIN table \cup hit[c] |-> IF m \in hit[c] THEN Row(c, m) ELSE table[m]]
  ELSE Restrict(table, DOMAIN table \ hit[c])

\* COMMIT takes effect; the reply may be lost.
Committed(c, how) ==
  /\ pc[c] = "commit"
  /\ table' = Written(c)
  /\ created' = created \cup DOMAIN Written(c)
  /\ EndTransaction(c)
  /\ Over(c, how)
  /\ UNCHANGED <<dialect, target, call, before, stale>>

\* Faulty variant: the call returns without a COMMIT.
ReturnUncommitted(c) ==
  /\ pc[c] = "commit"
  /\ EndTransaction(c)
  /\ Over(c, "ok")
  /\ UNCHANGED <<rows, target, call, ghosts>>

Commit(c) == Committed(c, "ok")

Faults == Cardinality({c \in Calls : outcome[c] = "error"})

\* A statement fails, or the transaction refuses it.  Writes roll back, the
\* reads of SqlMemoryStore do not.
Fail(c) ==
  /\ \/ pc[c] \in {"select", "write", "commit"} /\ Faults < MaxFaults
     \/ pc[c] = "select" /\ Store[c] \in aborted
  /\ IF c \in Reads /\ Store[c] \notin Pooled
     THEN /\ aborted' = IF dialect = "postgresql" THEN aborted \cup {Store[c]} ELSE aborted
          /\ UNCHANGED view
     ELSE EndTransaction(c)
  /\ Over(c, "error")
  /\ UNCHANGED <<rows, target, call, ghosts>>

LostReply(c) == Faults < MaxFaults /\ Committed(c, "error")

Progress(c) ==
  \/ SelectMax(c) \/ SelectOne(c) \/ NotFound(c) \/ SelectCount(c)
  \/ Get(c) \/ List(c)
  \/ Insert(c) \/ UpdateRow(c) \/ DeleteRow(c) \/ DeleteRows(c)
  \/ Commit(c) \/ Fail(c)

Next == \E c \in Calls : Begin(c) \/ Progress(c) \/ LostReply(c)

Spec == Init /\ [][Next]_vars

\* Threads run to their end, the lock is fair, and the database answers each
\* statement, or fails it.
FairSpec == Spec /\ WF_vars(\E c \in Calls : Progress(c))

-----------------------------------------------------------------------------
\* What the model is told by a memory tool: an exception that is not a
\* KeyError becomes a tool_error in the agent.
Answer(c) ==
  CASE outcome[c] = "KeyError" -> "Memory not found"
    [] outcome[c] = "error" -> "tool_error"
    [] OTHER -> outcome[c]

\* The memories that go into the system prompt after a list.
RecalledPrompt(c) == DOMAIN answer[c]

Done(c) == pc[c] = "done" /\ outcome[c] = "ok"

\* Calls that did away with memory m, and may have.
Removed(m) ==
  {d \in Calls : /\ Done(d) /\ User[d] = User[m]
                 /\ \/ Method[d] = "remove" /\ target[d] = m
                    \/ Method[d] = "forget_all" /\ m \in before[d]}
MayRemove(m) ==
  {d \in Calls : /\ pc[d] # "new" /\ d \notin before[m] /\ User[d] = User[m]
                 /\ \/ Method[d] = "remove" /\ target[d] = m
                    \/ Method[d] = "forget_all"}

TypeOK ==
  /\ dialect \in Dialects
  /\ DOMAIN table \subseteq Adds
  /\ \A m \in DOMAIN table : table[m] \in [seq : Nat \ {0}, value : Calls]
  /\ pc \in [Calls -> {"new", "select", "write", "commit", "done"}]
  /\ target \in [Calls -> Adds \cup {None}]
  /\ next \in [Calls -> Nat] /\ hit \in [Calls -> SUBSET Adds]
  /\ outcome \in [Calls -> {"ok", "KeyError", "error", None}]
  /\ DOMAIN answer = Reads
  /\ lock \in [Stores -> Calls \cup {None}]
  /\ aborted \subseteq Stores \ Pooled
  /\ before \in [Calls -> SUBSET Calls] /\ stale \subseteq Calls

\* "Ordering is insertion order (oldest first)": a memory that was added
\* before another add began is listed before it, unless that add's connection
\* was left in a snapshot by a read.
ListedInOrder ==
  \A m, n \in DOMAIN table :
    /\ User[m] = User[n] /\ m \in before[n] /\ n \notin stale
    => table[m].seq < table[n].seq

\* A memory whose add returned is in every list that begins later, unless a
\* removal or an erasure of that user may have met it.
NothingLost ==
  \A l \in Lists \ stale : Done(l) =>
    \A m \in before[l] \cap Adds :
      Done(m) /\ User[m] = User[l] /\ MayRemove(m) = {} => m \in DOMAIN answer[l]

\* A memory that was removed, or erased, is in no later list or prompt, and no
\* later update brings it back; nor is a value that was overwritten since.
NothingComesBack ==
  /\ \A m \in DOMAIN table : Removed(m) = {}
  /\ \A r \in Shows \ stale : Done(r) =>
       \A m \in RecalledPrompt(r) :
         /\ Removed(m) \cap before[r] = {}
         /\ \A u \in Updates \cap before[r] :
              Done(u) /\ target[u] = m => answer[r][m].value \notin before[u]

ReadsAreCurrent == NothingLost /\ NothingComesBack

\* However a write ends, it leaves neither a snapshot nor a refusing
\* transaction to the calls behind it.
WritesLeaveNothingOpen ==
  [][\A c \in Calls \ Reads : pc[c] # "done" /\ pc'[c] = "done" =>
       view'[Store[c]] = None /\ Store[c] \notin aborted']_vars

\* Every call ends and frees its store: no wait for rows is circular.
EveryCallEnds ==
  <>[](/\ \A c \in Begun : pc[c] = "done"
       /\ \A s \in Stores : lock[s] = None)

\* The committed rows change as those of a MemoryStore may, whatever the calls
\* overlap with: a deleted memory is never written again.
Memory == INSTANCE UserMemory WITH
  Memories <- Adds, Owner <- Restrict(User, Adds), Values <- Calls,
  memories <- [m \in DOMAIN table |-> table[m].value]
IsAMemoryStore == Memory!Spec
=============================================================================
