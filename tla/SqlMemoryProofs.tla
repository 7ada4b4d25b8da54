-------------------------- MODULE SqlMemoryProofs --------------------------
(***************************************************************************)
(* Proofs about SqlMemory, for any calls, users and stores, on a pool or   *)
(* on one connection, on any database, with any number of faults.          *)
(***************************************************************************)
EXTENDS SqlMemory, FiniteSetTheorems, WellFoundedInduction, TLAPS

Active(c) == pc[c] \in {"select", "write", "commit"}

\* A table, or a snapshot of it: its numbers have a largest one.
IsTable(t) ==
  /\ DOMAIN t \subseteq Adds
  /\ \A m \in DOMAIN t : t[m] \in [seq : Nat \ {0}, value : Calls]
  /\ \E bound \in Nat : \A m \in DOMAIN t : t[m].seq <= bound
  /\ DOMAIN t \subseteq created

Shapes ==
  /\ table = [m \in DOMAIN table |-> table[m]] /\ IsTable(table)
  /\ view = [s \in Stores |-> view[s]]
  /\ \A s \in Stores : view[s] # None => IsTable(view[s])
  /\ created \subseteq Adds
  /\ IsFiniteSet(Begun)

\* A store without a pool serves one call at a time; a pool keeps no snapshot.
OneAtATime ==
  /\ \A c \in Calls : Active(c) /\ Store[c] \notin Pooled => lock[Store[c]] = c
  /\ \A s \in Pooled : view[s] = None
  /\ \A c \in Calls \ stale : pc[c] = "select" => view[Store[c]] = None

\* A memory is committed once, by the call that ends with it, and only then
\* can it be asked for, or lie before another call.
Past ==
  /\ \A m \in created : pc[m] = "done"
  /\ \A c \in Calls : c \notin before[c] /\ \A d \in before[c] : pc[d] = "done"
  /\ \A c \in Targeted : pc[c] # "new" => target[c] \in created

\* What a transaction that is about to commit has locked: every row that it is
\* to change and that is there, and no other's.
Holds(c) ==
  /\ c \in Adds => hit[c] = {c}
  /\ c \notin Adds => hit[c] \subseteq Owned(table, User[c])
  /\ c \in Targeted => hit[c] \subseteq {target[c]}
  /\ \A m \in Owned(table, User[c]) :
       \/ c \in Targeted /\ target[c] = m
       \/ Method[c] = "forget_all" /\ m \in before[c]
       => m \in hit[c]
  /\ \A d \in Calls \ {c} : pc[d] = "commit" => hit[c] \cap hit[d] = {}

Holding ==
  /\ \A c \in Calls : pc[c] = "commit" => Holds(c)
  /\ \A c \in Calls : pc[c] \in {"write", "commit"} =>
       c \notin Reads /\ (c \in Targeted => User[target[c]] = User[c])

\* A row keeps the number that its add took, behind the rows it came after.
IsBehind(n) ==
  \A m \in DOMAIN table :
    User[m] = User[n] /\ m \in before[n] => table[m].seq < next[n]

Numbered ==
  \A n \in Adds :
    /\ pc[n] \in {"write", "commit"} => next[n] # 0
    /\ n \in DOMAIN table => table[n].seq = next[n]
    /\ n \notin stale /\ (pc[n] \in {"write", "commit"} \/ n \in DOMAIN table) => IsBehind(n)

\* What a call that returned did to the table is not undone.
Lasting ==
  /\ \A m \in DOMAIN table : Removed(m) = {}
  /\ \A m \in DOMAIN table, d \in Updates :
       Done(d) /\ target[d] = m => table[m].value \notin before[d]
  /\ \A m \in Adds : Done(m) /\ MayRemove(m) = {} => m \in DOMAIN table

\* The call looks, writes, ends without a COMMIT, or commits.
Looking(c) == SelectMax(c) \/ SelectOne(c) \/ SelectCount(c)
Writing(c) == Insert(c) \/ UpdateRow(c) \/ DeleteRow(c) \/ DeleteRows(c)
Ending(c) == NotFound(c) \/ Get(c) \/ List(c) \/ Fail(c)
Committing(c) == Commit(c) \/ LostReply(c)

MemoryInv == TypeOK /\ Shapes /\ OneAtATime /\ Past /\ Holding /\ Numbered /\ Lasting

-----------------------------------------------------------------------------
\* The methods part the calls.
LEMMA Parts ==
  ASSUME NEW c \in Calls
  PROVE  /\ Method[c] \in Methods
         /\ c \in Adds <=> Method[c] = "add"
         /\ c \in Updates <=> Method[c] = "update"
         /\ c \in Lists <=> Method[c] = "list"
         /\ c \in Shows <=> Method[c] \in {"get", "list"}
         /\ c \in Reads <=> Method[c] \in {"get", "list"}
         /\ c \in Targeted <=> Method[c] \in {"get", "update", "remove"}
BY SqlMemoryAssumption DEF Adds, Updates, Lists, Shows, Reads, Targeted, Calling,
     Method, Methods, Tools

LEMMA StoresOfCalls == \A c \in Calls : Store[c] \in Stores
BY SqlMemoryAssumption DEF Stores, Range

\* The largest of some bounded numbers.
LEMMA MaxIsLargest ==
  ASSUME NEW S \in SUBSET Nat, S # {}, NEW b \in Nat, \A x \in S : x <= b
  PROVE  Max(S) \in S /\ \A x \in S : x <= Max(S)
<1> DEFINE Bounds == {n \in Nat : \A x \in S : x <= n}
           R == OpToRel(<, Nat)
<1>1. IsWellFoundedOn(R, Nat)
  BY NatLessThanWellFounded, Zenon
<1>2. PICK least \in Bounds : \A n \in Bounds : ~ (<<n, least>> \in R)
  <2>1. Bounds \subseteq Nat /\ Bounds # {}
    OBVIOUS
  <2> QED BY <1>1, <2>1, WFMin
<1>3. \A n \in Bounds : ~ (n < least)
  BY <1>2 DEF OpToRel
<1>4. least \in S
  <2> SUFFICES ASSUME least \notin S PROVE FALSE
    OBVIOUS
  <2>1. PICK x \in S : TRUE
    OBVIOUS
  <2>2. least - 1 \in Nat /\ \A y \in S : y <= least - 1
    BY <2>1
  <2> QED BY <1>3, <2>2
<1>5. \E x \in S : \A y \in S : x >= y
  BY <1>4
<1>6. Max(S) \in S /\ \A y \in S : Max(S) >= y
  BY <1>5 DEF Max
<1> QED BY <1>6

\* The number of an add is behind every number it has seen of its user.
LEMMA NextNumber ==
  ASSUME NEW t, IsTable(t), NEW u
  PROVE  LET n == Max({0} \cup Seqs(t, u)) + 1
         IN n \in Nat \ {0} /\ \A m \in DOMAIN t : User[m] = u => t[m].seq < n
<1> DEFINE S == {0} \cup Seqs(t, u)
<1>1. S \in SUBSET Nat /\ S # {}
  BY DEF IsTable, Seqs, Owned
<1>2. PICK b \in Nat : \A x \in S : x <= b
  BY DEF IsTable, Seqs, Owned
<1>3. Max(S) \in S /\ \A x \in S : x <= Max(S)
  BY <1>1, <1>2, MaxIsLargest
<1>4. \A m \in DOMAIN t : User[m] = u => t[m].seq \in S
  BY DEF Seqs, Owned
<1>5. \A m \in DOMAIN t : User[m] = u => t[m].seq \in Nat /\ t[m].seq <= Max(S)
  BY <1>1, <1>3, <1>4
<1>6. Max(S) \in Nat
  BY <1>1, <1>3
<1> HIDE DEF S
<1>7. \A m \in DOMAIN t : User[m] = u => t[m].seq < Max(S) + 1
  BY <1>5, <1>6
<1>8. Max(S) + 1 \in Nat \ {0}
  BY <1>6
<1> QED BY <1>7, <1>8 DEF S

-----------------------------------------------------------------------------
\* What each kind of step does.
LEMMA LookingEffect ==
  ASSUME TypeOK, Shapes, NEW c \in Calls, Looking(c)
  PROVE  /\ pc[c] = "select" /\ c \notin Reads
         /\ pc' = [pc EXCEPT ![c] = "write"]
         /\ next' = [next EXCEPT ![c] = next'[c]]
         /\ c \in Adds => next'[c] = Max({0} \cup Seqs(Visible(c), User[c])) + 1
         /\ c \in Targeted => User[target[c]] = User[c]
         /\ \/ view' = view
            \/ Store[c] \notin Pooled /\ view' = [view EXCEPT ![Store[c]] = Visible(c)]
         /\ UNCHANGED <<rows, target, hit, outcome, answer, lock, aborted, ghosts>>
<1>1. Method[c] \in {"add", "update", "remove", "forget_all"}
  BY DEF Looking, SelectMax, SelectOne, SelectCount, Select
<1>2. /\ pc[c] = "select" /\ pc' = [pc EXCEPT ![c] = "write"]
      /\ UNCHANGED <<rows, target, hit, outcome, answer, lock, aborted, ghosts>>
      /\ Look(c)
  BY DEF Looking, SelectMax, SelectOne, SelectCount, Select, At, call
<1>3. next' = [next EXCEPT ![c] = next'[c]]
  BY DEF Looking, SelectMax, SelectOne, SelectCount, call, TypeOK
<1>4. c \in Adds => next'[c] = Max({0} \cup Seqs(Visible(c), User[c])) + 1
  BY Parts DEF Looking, SelectMax, SelectOne, SelectCount, Select, TypeOK
<1>5. c \in Targeted => User[target[c]] = User[c]
  BY Parts DEF Looking, SelectMax, SelectOne, SelectCount, Select, Find, Owned
<1> QED BY <1>1, <1>2, <1>3, <1>4, <1>5, Parts DEF Look

LEMMA WritingEffect ==
  ASSUME TypeOK, Shapes, NEW c \in Calls, Writing(c)
  PROVE  /\ pc[c] = "write" /\ pc' = [pc EXCEPT ![c] = "commit"]
         /\ hit' = [hit EXCEPT ![c] = hit'[c]]
         /\ RowsFree(c, hit'[c])
         /\ hit'[c] \subseteq Adds
         /\ c \in Adds => hit'[c] = {c}
         /\ c \notin Adds => hit'[c] \subseteq Owned(table, User[c])
         /\ c \in Targeted => hit'[c] \subseteq {target[c]}
         /\ \A m \in Owned(table, User[c]) :
              (c \in Targeted /\ target[c] = m) \/ Method[c] = "forget_all" => m \in hit'[c]
         /\ UNCHANGED <<rows, target, next, outcome, answer, lock, connection, ghosts>>
<1>1. CASE Insert(c)
  <2>1. Method[c] = "add" /\ Write(c, {c})
    BY <1>1 DEF Insert
  <2>2. hit' = [hit EXCEPT ![c] = {c}] /\ hit'[c] = {c}
    BY <2>1 DEF Write, TypeOK
  <2> QED BY <2>1, <2>2, Parts DEF Write, At
<1>2. CASE UpdateRow(c) \/ DeleteRow(c)
  <2> DEFINE mine == {target[c]} \cap Owned(table, User[c])
  <2>1. Method[c] \in {"update", "remove"} /\ Write(c, mine)
    BY <1>2 DEF UpdateRow, DeleteRow
  <2>2. hit' = [hit EXCEPT ![c] = mine] /\ hit'[c] = mine
    BY <2>1 DEF Write, TypeOK
  <2>3. mine \subseteq DOMAIN table
    BY DEF Owned
  <2> QED BY <2>1, <2>2, <2>3, Parts DEF Write, At, Shapes, IsTable
<1>3. CASE DeleteRows(c)
  <2> DEFINE mine == Owned(table, User[c])
  <2>1. Method[c] = "forget_all" /\ Write(c, mine)
    BY <1>3 DEF DeleteRows
  <2>2. hit' = [hit EXCEPT ![c] = mine] /\ hit'[c] = mine
    BY <2>1 DEF Write, TypeOK
  <2>3. mine \subseteq DOMAIN table
    BY DEF Owned
  <2> QED BY <2>1, <2>2, <2>3, Parts DEF Write, At, Shapes, IsTable
<1> QED BY <1>1, <1>2, <1>3 DEF Writing

LEMMA EndingEffect ==
  ASSUME TypeOK, Shapes, NEW c \in Calls, Ending(c)
  PROVE  /\ Active(c) /\ pc' = [pc EXCEPT ![c] = "done"]
         /\ outcome' = [outcome EXCEPT ![c] = outcome'[c]]
         /\ outcome'[c] \in {"ok", "KeyError", "error"}
         /\ outcome'[c] = "ok" => c \in Reads /\ pc[c] = "select"
         /\ lock' = [lock EXCEPT ![Store[c]] = IF @ = c THEN None ELSE @]
         /\ \/ view' = view
            \/ view' = [view EXCEPT ![Store[c]] = None]
            \/ Store[c] \notin Pooled /\ view' = [view EXCEPT ![Store[c]] = Visible(c)]
         /\ aborted' \subseteq Stores \ Pooled
         /\ \/ UNCHANGED answer /\ outcome'[c] # "ok"
            \/ c \in Reads /\ answer' = [answer EXCEPT ![c] = answer'[c]]
         /\ c \notin Reads => view'[Store[c]] = None /\ Store[c] \notin aborted'
         /\ UNCHANGED <<rows, target, next, hit, ghosts>>
<1>0. Store[c] \in Stores
  BY StoresOfCalls
<1>1. CASE NotFound(c)
  <2>1. /\ Method[c] \in {"get", "update", "remove"} /\ pc[c] = "select"
        /\ Over(c, "KeyError") /\ UNCHANGED <<rows, target, call, ghosts>>
    BY <1>1 DEF NotFound, Select
  <2>2. /\ outcome' = [outcome EXCEPT ![c] = outcome'[c]] /\ outcome'[c] = "KeyError"
        /\ pc' = [pc EXCEPT ![c] = "done"]
        /\ lock' = [lock EXCEPT ![Store[c]] = IF @ = c THEN None ELSE @]
    BY <2>1 DEF Over, At, TypeOK
  <2>3. CASE Method[c] = "get"
    <3>1. Look(c) /\ UNCHANGED aborted /\ c \in Reads
      BY <1>1, <2>3, Parts DEF NotFound
    <3> QED BY <2>1, <2>2, <3>1 DEF Look, call, TypeOK, Active
  <2>4. CASE Method[c] # "get"
    <3>1. EndTransaction(c) /\ c \notin Reads
      BY <1>1, <2>1, <2>4, Parts DEF NotFound
    <3>2. view'[Store[c]] = None
      BY <1>0, <3>1 DEF EndTransaction, Shapes
    <3> QED BY <2>1, <2>2, <3>1, <3>2 DEF EndTransaction, call, TypeOK, Active
  <2> QED BY <2>3, <2>4
<1>2. CASE Get(c) \/ List(c)
  <2>1. PICK memories : Return(c, memories)
    BY <1>2 DEF Get, List
  <2>2. pc[c] = "select" /\ c \in Reads
    BY <1>2, Parts DEF Get, List, Select
  <2>3. /\ outcome' = [outcome EXCEPT ![c] = outcome'[c]] /\ outcome'[c] = "ok"
        /\ pc' = [pc EXCEPT ![c] = "done"]
        /\ lock' = [lock EXCEPT ![Store[c]] = IF @ = c THEN None ELSE @]
    BY <2>1 DEF Return, Over, At, TypeOK
  <2>4. answer' = [answer EXCEPT ![c] = answer'[c]]
    BY <2>1, <2>2 DEF Return, TypeOK
  <2> QED BY <2>1, <2>2, <2>3, <2>4 DEF Return, Look, Active, TypeOK
<1>3. CASE Fail(c)
  <2>1. /\ outcome' = [outcome EXCEPT ![c] = outcome'[c]] /\ outcome'[c] = "error"
        /\ pc' = [pc EXCEPT ![c] = "done"] /\ Active(c)
        /\ lock' = [lock EXCEPT ![Store[c]] = IF @ = c THEN None ELSE @]
        /\ UNCHANGED <<rows, target, next, hit, answer, ghosts>>
    BY <1>3 DEF Fail, Over, At, call, TypeOK, Active
  <2>2. CASE c \in Reads /\ Store[c] \notin Pooled
    BY <1>0, <1>3, <2>1, <2>2 DEF Fail, TypeOK
  <2>3. CASE ~ (c \in Reads /\ Store[c] \notin Pooled)
    <3>1. EndTransaction(c)
      BY <1>3, <2>3 DEF Fail
    <3>2. view'[Store[c]] = None /\ view' = [view EXCEPT ![Store[c]] = None]
      BY <1>0, <3>1 DEF EndTransaction, Shapes
    <3> QED BY <2>1, <3>1, <3>2 DEF EndTransaction, TypeOK
  <2> QED BY <2>2, <2>3
<1> QED BY <1>1, <1>2, <1>3 DEF Ending

LEMMA CommittingEffect ==
  ASSUME TypeOK, Shapes, NEW c \in Calls, Committing(c)
  PROVE  /\ pc[c] = "commit" /\ pc' = [pc EXCEPT ![c] = "done"]
         /\ table' = Written(c) /\ created' = created \cup DOMAIN Written(c)
         /\ outcome' = [outcome EXCEPT ![c] = outcome'[c]]
         /\ outcome'[c] \in {"ok", "error"}
         /\ lock' = [lock EXCEPT ![Store[c]] = IF @ = c THEN None ELSE @]
         /\ view' = [view EXCEPT ![Store[c]] = None] /\ view'[Store[c]] = None
         /\ aborted' = aborted \ {Store[c]}
         /\ UNCHANGED <<dialect, target, call, before, stale>>
<1>1. PICK how \in {"ok", "error"} : Committed(c, how)
  BY DEF Committing, Commit, LostReply
<1> QED BY <1>1, StoresOfCalls DEF Committed, EndTransaction, Over, At, TypeOK, Shapes

\* The rows that a commit leaves.
LEMMA WrittenRows ==
  ASSUME MemoryInv, NEW c \in Calls, pc[c] = "commit"
  PROVE  /\ Method[c] \in {"add", "update", "remove", "forget_all"}
         /\ Written(c) = [m \in DOMAIN Written(c) |-> Written(c)[m]]
         /\ Method[c] = "add" =>
              /\ DOMAIN Written(c) = DOMAIN table \cup {c} /\ c \notin created
              /\ Written(c)[c] = [seq |-> next[c], value |-> c]
              /\ \A m \in DOMAIN table : Written(c)[m] = table[m]
         /\ Method[c] = "update" =>
              /\ DOMAIN Written(c) = DOMAIN table
              /\ \A m \in DOMAIN table : Written(c)[m] =
                   IF m \in hit[c] THEN [seq |-> table[m].seq, value |-> c] ELSE table[m]
         /\ Method[c] \in {"remove", "forget_all"} =>
              /\ DOMAIN Written(c) = DOMAIN table \ hit[c]
              /\ \A m \in DOMAIN table \ hit[c] : Written(c)[m] = table[m]
<1>1. Method[c] \in {"add", "update", "remove", "forget_all"}
  BY Parts DEF MemoryInv, Holding, Methods
<1>2. CASE Method[c] = "add"
  <2>1. hit[c] = {c} /\ c \notin created
    BY <1>2, Parts DEF MemoryInv, Holding, Holds, Past
  <2>2. c \notin DOMAIN table
    BY <2>1 DEF MemoryInv, Shapes, IsTable
  <2> QED BY <1>2, <2>1, <2>2 DEF Written, Row
<1>3. CASE Method[c] = "update"
  <2>1. hit[c] \subseteq DOMAIN table
    BY <1>3, Parts DEF MemoryInv, Holding, Holds, Owned
  <2> QED BY <1>3, <2>1 DEF Written, Row
<1>4. CASE Method[c] \in {"remove", "forget_all"}
  BY <1>4 DEF Written, Restrict
<1> QED BY <1>1, <1>2, <1>3, <1>4

LEMMA StepKinds ==
  ASSUME Next
  PROVE  \E c \in Calls : Begin(c) \/ Looking(c) \/ Writing(c) \/ Ending(c) \/ Committing(c)
BY DEF Next, Progress, Looking, Writing, Ending, Committing

\* What a commit makes of the rows is a table.
LEMMA WrittenIsTable ==
  ASSUME MemoryInv, NEW c \in Calls, pc[c] = "commit"
  PROVE  /\ DOMAIN Written(c) \subseteq Adds
         /\ \A m \in DOMAIN Written(c) : Written(c)[m] \in [seq : Nat \ {0}, value : Calls]
         /\ \E bound \in Nat : \A m \in DOMAIN Written(c) : Written(c)[m].seq <= bound
<1>1. IsTable(table)
  BY DEF MemoryInv, Shapes
<1>2. PICK b \in Nat : \A m \in DOMAIN table : table[m].seq <= b
  BY <1>1 DEF IsTable
<1>3. CASE Method[c] = "add"
  <2>1. c \in Adds /\ next[c] \in Nat \ {0}
    BY <1>3, Parts DEF MemoryInv, TypeOK, Numbered
  <2> DEFINE b2 == IF next[c] <= b THEN b ELSE next[c]
  <2>2. b2 \in Nat /\ b <= b2 /\ next[c] <= b2
    BY <2>1, <1>2
  <2>3. \A m \in DOMAIN table : table[m].seq \in Nat
    BY <1>1 DEF IsTable
  <2>4. \A m \in DOMAIN table : table[m].seq <= b2
    BY <1>2, <2>2, <2>3
  <2>5. /\ DOMAIN Written(c) = DOMAIN table \cup {c}
        /\ Written(c)[c] = [seq |-> next[c], value |-> c]
        /\ \A m \in DOMAIN table : Written(c)[m] = table[m]
    BY <1>3, WrittenRows
  <2>6. Written(c)[c].seq = next[c]
    BY <2>5
  <2>7. \A m \in DOMAIN Written(c) : Written(c)[m].seq <= b2
    BY <2>2, <2>4, <2>5, <2>6
  <2>8. /\ DOMAIN Written(c) \subseteq Adds
        /\ \A m \in DOMAIN Written(c) : Written(c)[m] \in [seq : Nat \ {0}, value : Calls]
    BY <1>1, <2>1, <2>5 DEF IsTable
  <2> QED BY <2>2, <2>7, <2>8
<1>4. CASE Method[c] # "add"
  <2>1. /\ DOMAIN Written(c) \subseteq DOMAIN table
        /\ \A m \in DOMAIN Written(c) :
             Written(c)[m] = table[m] \/ Written(c)[m] = [seq |-> table[m].seq, value |-> c]
    BY <1>4, WrittenRows
  <2>2. \A m \in DOMAIN Written(c) : Written(c)[m].seq = table[m].seq
    BY <2>1
  <2> QED BY <1>1, <1>2, <2>1, <2>2 DEF IsTable
<1> QED BY <1>3, <1>4

LEMMA TypeStep ==
  ASSUME MemoryInv, NEW c \in Calls,
         Begin(c) \/ Looking(c) \/ Writing(c) \/ Ending(c) \/ Committing(c)
  PROVE  TypeOK'
<1> USE DEF MemoryInv
<1>0. Store[c] \in Stores
  BY StoresOfCalls
<1>1. CASE Begin(c)
  <2>1. created \subseteq Adds
    BY DEF Shapes
  <2> QED BY <1>0, <1>1, <2>1 DEF Begin, At, TypeOK, rows, call, connection
<1>2. CASE Looking(c)
  <2>1. next'[c] \in Nat
    <3>1. CASE Method[c] = "add"
      <4>1. IsTable(Visible(c))
        BY <1>0 DEF Shapes, Visible
      <4>2. next'[c] = Max({0} \cup Seqs(Visible(c), User[c])) + 1
        BY <1>2, <3>1, LookingEffect, Parts
      <4> QED BY <4>1, <4>2, NextNumber
    <3>2. CASE Method[c] = "forget_all"
      <4>1. IsTable(Visible(c))
        BY <1>0 DEF Shapes, Visible
      <4>2. Owned(Visible(c), User[c]) \subseteq Begun
        BY <4>1 DEF IsTable, Owned, Past, Begun, Adds, Calling
      <4>3. Cardinality(Owned(Visible(c), User[c])) \in Nat
        BY <4>2, FS_Subset, FS_CardinalityType DEF Shapes
      <4> QED BY <1>2, <3>2, <4>3 DEF Looking, SelectMax, SelectOne, SelectCount, Select, TypeOK
    <3>3. CASE Method[c] \in {"update", "remove"}
      BY <1>2, <3>3 DEF Looking, SelectMax, SelectOne, SelectCount, Select, TypeOK, call
    <3> QED BY <1>2, <3>1, <3>2, <3>3 DEF Looking, SelectMax, SelectOne, SelectCount, Select
  <2>2. /\ next' = [next EXCEPT ![c] = next'[c]]
        /\ pc' = [pc EXCEPT ![c] = "write"]
    BY <1>2, LookingEffect
  <2>3. next' \in [Calls -> Nat]
    <3> DEFINE n == next'[c]
    <3>1. n \in Nat /\ next' = [next EXCEPT ![c] = n]
      BY <2>1, <2>2
    <3> HIDE DEF n
    <3> QED BY <3>1 DEF TypeOK
  <2>4. pc' \in [Calls -> {"new", "select", "write", "commit", "done"}]
    BY <2>2 DEF TypeOK
  <2> QED BY <1>2, <2>3, <2>4, LookingEffect DEF TypeOK, rows, ghosts
<1>3. CASE Writing(c)
  <2>1. /\ hit' \in [Calls -> SUBSET Adds]
        /\ pc' \in [Calls -> {"new", "select", "write", "commit", "done"}]
    BY <1>3, WritingEffect DEF TypeOK
  <2> QED BY <1>3, <2>1, WritingEffect DEF TypeOK, rows, ghosts, connection
<1>4. CASE Ending(c)
  <2>1. /\ outcome' \in [Calls -> {"ok", "KeyError", "error", None}]
        /\ pc' \in [Calls -> {"new", "select", "write", "commit", "done"}]
        /\ lock' \in [Stores -> Calls \cup {None}]
        /\ DOMAIN answer' = Reads
    BY <1>4, EndingEffect DEF TypeOK
  <2> QED BY <1>4, <2>1, EndingEffect DEF TypeOK, rows, ghosts
<1>5. CASE Committing(c)
  <2>1. /\ outcome' \in [Calls -> {"ok", "KeyError", "error", None}]
        /\ pc' \in [Calls -> {"new", "select", "write", "commit", "done"}]
        /\ lock' \in [Stores -> Calls \cup {None}]
        /\ aborted' \subseteq Stores \ Pooled
    BY <1>5, CommittingEffect DEF TypeOK
  <2>2. /\ DOMAIN table' \subseteq Adds
        /\ \A m \in DOMAIN table' : table'[m] \in [seq : Nat \ {0}, value : Calls]
    BY <1>5, CommittingEffect, WrittenIsTable
  <2> QED BY <1>5, <2>1, <2>2, CommittingEffect DEF TypeOK, call
<1> QED BY <1>1, <1>2, <1>3, <1>4, <1>5

\* A snapshot that a call leaves is one of the table, or an older one.
LEMMA SnapshotIsTable ==
  ASSUME MemoryInv, NEW c \in Calls,
         \/ view' = view
         \/ view' = [view EXCEPT ![Store[c]] = None]
         \/ Store[c] \notin Pooled /\ view' = [view EXCEPT ![Store[c]] = Visible(c)]
  PROVE  /\ view' = [s \in Stores |-> view'[s]]
         /\ \A s \in Stores : view'[s] # None => IsTable(view'[s])
<1>1. Store[c] \in Stores /\ IsTable(Visible(c))
  BY StoresOfCalls DEF MemoryInv, Shapes, Visible
<1> DEFINE V == Visible(c)
<1>2. view = [s \in Stores |-> view[s]] /\ \A s \in Stores : view[s] # None => IsTable(view[s])
  BY DEF MemoryInv, Shapes
<1>3. IsTable(V)
  BY <1>1
<1>4. view' = view \/ view' = [view EXCEPT ![Store[c]] = None] \/ view' = [view EXCEPT ![Store[c]] = V]
  OBVIOUS
<1> HIDE DEF V
<1> QED BY <1>1, <1>2, <1>3, <1>4

LEMMA ShapesStep ==
  ASSUME MemoryInv, NEW c \in Calls,
         Begin(c) \/ Looking(c) \/ Writing(c) \/ Ending(c) \/ Committing(c)
  PROVE  Shapes'
<1> USE DEF MemoryInv
<1>1. IsFiniteSet(Begun')
  <2>1. \E place \in {"select", "write", "commit", "done"} : pc' = [pc EXCEPT ![c] = place]
    BY LookingEffect, WritingEffect, EndingEffect, CommittingEffect DEF Begin, At
  <2>2. Begun' = Begun \/ Begun' = Begun \cup {c}
    BY <2>1 DEF Begun, TypeOK
  <2> QED BY <2>2, FS_AddElement DEF Shapes
<1>2. ASSUME UNCHANGED <<table, created>>,
             \/ view' = view
             \/ view' = [view EXCEPT ![Store[c]] = None]
             \/ Store[c] \notin Pooled /\ view' = [view EXCEPT ![Store[c]] = Visible(c)]
      PROVE  Shapes'
  <2>1. /\ view' = [s \in Stores |-> view'[s]]
        /\ \A s \in Stores : view'[s] # None => IsTable(view'[s])
    BY <1>2, SnapshotIsTable
  <2> QED BY <1>1, <1>2, <2>1 DEF Shapes, IsTable
<1>3. CASE Begin(c)
  BY <1>2, <1>3 DEF Begin, rows, connection
<1>4. CASE Looking(c)
  BY <1>2, <1>4, LookingEffect DEF rows, ghosts
<1>5. CASE Writing(c)
  BY <1>2, <1>5, WritingEffect DEF rows, ghosts, connection
<1>6. CASE Ending(c)
  BY <1>2, <1>6, EndingEffect DEF rows, ghosts
<1>7. CASE Committing(c)
  <2>1. /\ pc[c] = "commit" /\ table' = Written(c) /\ created' = created \cup DOMAIN table'
        /\ view' = [view EXCEPT ![Store[c]] = None]
    BY <1>7, CommittingEffect
  <2>2. IsTable(table)' /\ created' \subseteq Adds
    BY <2>1, WrittenIsTable DEF IsTable, Shapes
  <2>3. \A t : IsTable(t) => IsTable(t)'
    BY <2>1 DEF IsTable
  <2>4. table' = [m \in DOMAIN table' |-> table'[m]]
    <3> DEFINE W == Written(c)
    <3>1. W = [m \in DOMAIN W |-> W[m]] /\ table' = W
      BY <2>1, WrittenRows
    <3> HIDE DEF W
    <3> QED BY <3>1
  <2>5. /\ view' = [s \in Stores |-> view'[s]]
        /\ \A s \in Stores : view'[s] # None => IsTable(view'[s])
    BY <2>1, SnapshotIsTable
  <2>6. \A s \in Stores : view'[s] # None => IsTable(view[s])'
    BY <2>1, <2>5 DEF IsTable
  <2> QED BY <1>1, <2>2, <2>4, <2>5, <2>6 DEF Shapes
<1> QED BY <1>3, <1>4, <1>5, <1>6, <1>7

LEMMA OneAtATimeStep ==
  ASSUME MemoryInv, NEW c \in Calls,
         Begin(c) \/ Looking(c) \/ Writing(c) \/ Ending(c) \/ Committing(c)
  PROVE  OneAtATime'
<1> USE DEF MemoryInv
<1>0. \A d \in Calls : Store[d] \in Stores
  BY StoresOfCalls
<1>1. None \notin Calls /\ Pooled \subseteq Stores
  BY SqlMemoryAssumption
<1>2. ASSUME Active(c), Store[c] \notin Pooled,
             NEW d \in Calls, Active(d), Store[d] = Store[c]
      PROVE  d = c
  BY <1>2 DEF OneAtATime
<1>3. CASE Begin(c)
  BY <1>0, <1>1, <1>3 DEF Begin, At, OneAtATime, Active, TypeOK, connection, Shapes
<1>4. CASE Looking(c)
  <2>1. /\ pc[c] = "select" /\ pc' = [pc EXCEPT ![c] = "write"]
        /\ \/ view' = view
           \/ Store[c] \notin Pooled /\ view' = [view EXCEPT ![Store[c]] = Visible(c)]
        /\ UNCHANGED <<lock, stale>>
    BY <1>4, LookingEffect DEF ghosts
  <2>2. \A d \in Calls \ {c} : Active(d) /\ Store[c] \notin Pooled => Store[d] # Store[c]
    BY <1>2, <2>1 DEF Active
  <2>3. \A s \in Stores : view'[s] = view[s] \/ (s = Store[c] /\ s \notin Pooled)
    BY <1>0, <2>1 DEF Shapes
  <2> QED BY <1>0, <1>1, <2>1, <2>2, <2>3 DEF OneAtATime, Active, TypeOK
<1>5. CASE Writing(c)
  BY <1>5, WritingEffect DEF OneAtATime, Active, TypeOK, ghosts, connection
<1>6. CASE Ending(c) \/ Committing(c)
  <2>1. /\ Active(c) /\ pc' = [pc EXCEPT ![c] = "done"] /\ UNCHANGED stale
        /\ lock' = [lock EXCEPT ![Store[c]] = IF @ = c THEN None ELSE @]
        /\ \/ view' = view
           \/ view' = [view EXCEPT ![Store[c]] = None]
           \/ Store[c] \notin Pooled /\ view' = [view EXCEPT ![Store[c]] = Visible(c)]
    BY <1>6, EndingEffect, CommittingEffect DEF ghosts, Active
  <2>2. \A d \in Calls \ {c} : Active(d) /\ Store[c] \notin Pooled => Store[d] # Store[c]
    BY <1>2, <2>1
  <2>3. \A s \in Stores : view'[s] = view[s] \/ view'[s] = None \/ (s = Store[c] /\ s \notin Pooled)
    BY <1>0, <2>1 DEF Shapes
  <2>4. \A d \in Calls \ {c} : lock[Store[d]] = d => lock'[Store[d]] = d
    BY <1>0, <2>1 DEF TypeOK
  <2> QED BY <1>0, <1>1, <2>1, <2>2, <2>3, <2>4 DEF OneAtATime, Active, TypeOK
<1> QED BY <1>3, <1>4, <1>5, <1>6

LEMMA PastStep ==
  ASSUME MemoryInv, NEW c \in Calls,
         Begin(c) \/ Looking(c) \/ Writing(c) \/ Ending(c) \/ Committing(c)
  PROVE  Past'
<1> USE DEF MemoryInv
<1>1. CASE Begin(c)
  <2>1. /\ pc[c] = "new" /\ pc' = [pc EXCEPT ![c] = "select"]
        /\ before' = [before EXCEPT ![c] = {d \in Calls : pc[d] = "done"}]
        /\ created' = created
    BY <1>1 DEF Begin, At
  <2>2. \A d \in Targeted \ {c} : target'[d] = target[d]
    BY <1>1 DEF Begin, TypeOK, Targeted, Calling
  <2>3. c \in Targeted => target'[c] \in created
    BY <1>1 DEF Begin, TypeOK
  <2>4. \A d \in Calls : pc[d] = "done" => pc'[d] = "done"
    BY <2>1 DEF TypeOK
  <2>5. \A d \in Calls : before'[d] = IF d = c THEN {e \in Calls : pc[e] = "done"} ELSE before[d]
    BY <2>1 DEF TypeOK
  <2>6. \A d \in Calls \ {c} : pc'[d] = pc[d]
    BY <2>1 DEF TypeOK
  <2>7. Targeted \subseteq Calls /\ created \subseteq Calls /\ \A d \in Calls : before[d] \subseteq Calls
    BY DEF Targeted, Calling, Shapes, TypeOK, Adds
  <2> QED BY <2>1, <2>2, <2>3, <2>4, <2>5, <2>6, <2>7 DEF Past
<1>2. CASE Looking(c) \/ Writing(c) \/ Ending(c) \/ Committing(c)
  <2>1. /\ pc[c] # "new" /\ pc[c] # "done" /\ UNCHANGED <<before, target>>
        /\ \E place \in {"write", "commit", "done"} : pc' = [pc EXCEPT ![c] = place]
        /\ \/ created' = created
           \/ /\ created' = created \cup DOMAIN Written(c)
              /\ pc[c] = "commit" /\ pc'[c] = "done"
    <3>1. CASE Looking(c)
      BY <3>1, LookingEffect DEF ghosts
    <3>2. CASE Writing(c)
      BY <3>2, WritingEffect DEF ghosts
    <3>3. CASE Ending(c)
      BY <3>3, EndingEffect DEF ghosts, Active
    <3>4. CASE Committing(c)
      BY <3>4, CommittingEffect DEF TypeOK, call
    <3> QED BY <1>2, <3>1, <3>2, <3>3, <3>4
  <2>2. created' \subseteq created \cup {c} /\ created \subseteq created'
    <3>1. pc[c] = "commit" => DOMAIN Written(c) \subseteq DOMAIN table \cup {c}
      BY WrittenRows
    <3> QED BY <2>1, <3>1 DEF Shapes, IsTable
  <2>3. c \in created' => pc'[c] = "done" \/ c \in created
    BY <2>1
  <2>4. \A d \in Calls \ {c} : pc'[d] = pc[d]
    BY <2>1 DEF TypeOK
  <2>5. Targeted \subseteq Calls /\ created \subseteq Calls /\ \A d \in Calls : before[d] \subseteq Calls
    BY DEF Targeted, Calling, Shapes, TypeOK, Adds
  <2> QED BY <2>1, <2>2, <2>3, <2>4, <2>5 DEF Past
<1> QED BY <1>1, <1>2

\* What a call that is about to commit asks for is over, and not this call.
LEMMA CommitIsFresh ==
  ASSUME MemoryInv, NEW c \in Calls, pc[c] \in {"new", "select", "write", "commit"}
  PROVE  /\ c \notin created /\ c \notin DOMAIN table
         /\ \A d \in Calls : c \notin before[d]
         /\ \A d \in Targeted : pc[d] # "new" => target[d] # c
BY DEF MemoryInv, Past, Shapes, IsTable

LEMMA HoldingStep ==
  ASSUME MemoryInv, NEW c \in Calls,
         Begin(c) \/ Looking(c) \/ Writing(c) \/ Ending(c) \/ Committing(c)
  PROVE  Holding'
<1> USE DEF MemoryInv
<1>0. Targeted \subseteq Calls
  BY DEF Targeted, Calling
<1>1. CASE Begin(c)
  <2>1. /\ pc[c] = "new" /\ pc' = [pc EXCEPT ![c] = "select"] /\ UNCHANGED <<table, hit>>
        /\ before' = [before EXCEPT ![c] = {d \in Calls : pc[d] = "done"}]
        /\ \A d \in Calls \ {c} : target'[d] = target[d]
    BY <1>1 DEF Begin, At, rows, call, TypeOK
  <2>2. \A d \in Calls \ {c} : pc'[d] = pc[d] /\ before'[d] = before[d]
    BY <2>1 DEF TypeOK
  <2>3. pc'[c] = "select"
    BY <2>1 DEF TypeOK
  <2> QED BY <1>0, <2>1, <2>2, <2>3 DEF Holding, Holds, Owned
<1>2. CASE Looking(c)
  <2>1. /\ pc' = [pc EXCEPT ![c] = "write"] /\ UNCHANGED <<table, hit, before, target>>
        /\ c \notin Reads /\ (c \in Targeted => User[target[c]] = User[c])
    BY <1>2, LookingEffect DEF rows, ghosts
  <2> QED BY <1>0, <2>1 DEF Holding, Holds, Owned, TypeOK
<1>3. CASE Writing(c)
  <2>1. /\ pc[c] = "write" /\ pc' = [pc EXCEPT ![c] = "commit"]
        /\ hit' = [hit EXCEPT ![c] = hit'[c]]
        /\ \A d \in Calls \ {c} : pc[d] = "commit" => hit[d] \cap hit'[c] = {}
        /\ c \in Adds => hit'[c] = {c}
        /\ c \notin Adds => hit'[c] \subseteq Owned(table, User[c])
        /\ c \in Targeted => hit'[c] \subseteq {target[c]}
        /\ \A m \in Owned(table, User[c]) :
              (c \in Targeted /\ target[c] = m) \/ Method[c] = "forget_all" => m \in hit'[c]
        /\ UNCHANGED <<table, before, target>>
    BY <1>3, WritingEffect DEF rows, ghosts, RowsFree
  <2>2. \A d \in Calls \ {c} : pc'[d] = pc[d] /\ hit'[d] = hit[d]
    BY <2>1 DEF TypeOK
  <2>3. pc'[c] = "commit"
    BY <2>1 DEF TypeOK
  <2>4. Holds(c)'
    BY <2>1, <2>2 DEF Holds, Owned
  <2>5. \A d \in Calls \ {c} : pc'[d] = "commit" => Holds(d)'
    BY <2>1, <2>2 DEF Holding, Holds, Owned
  <2> QED BY <1>0, <2>1, <2>2, <2>3, <2>4, <2>5 DEF Holding
<1>4. CASE Ending(c)
  <2>1. pc' = [pc EXCEPT ![c] = "done"] /\ UNCHANGED <<table, hit, before, target>>
    BY <1>4, EndingEffect DEF rows, ghosts
  <2> QED BY <1>0, <2>1 DEF Holding, Holds, Owned, TypeOK
<1>5. CASE Committing(c)
  <2>1. /\ pc[c] = "commit" /\ pc' = [pc EXCEPT ![c] = "done"]
        /\ table' = Written(c) /\ UNCHANGED <<hit, before, target>>
    BY <1>5, CommittingEffect DEF call
  <2>2. \A d \in Calls \ {c} : pc'[d] = pc[d]
    BY <2>1 DEF TypeOK
  <2>3. /\ DOMAIN table \ hit[c] \subseteq DOMAIN table'
        /\ DOMAIN table' \subseteq DOMAIN table \cup {c}
    BY <2>1, WrittenRows
  <2>4. ASSUME NEW d \in Calls \ {c}, pc[d] = "commit"
        PROVE  Holds(d)'
    <3>1. Holds(d) /\ hit[d] \cap hit[c] = {}
      BY <2>1, <2>4 DEF Holding, Holds
    <3>2. /\ \A e \in Calls : c \notin before[e]
          /\ d \in Targeted => target[d] # c
      BY <2>1, <2>4, CommitIsFresh
    <3>3. Owned(table, User[d]) \ hit[c] \subseteq Owned(table', User[d])
      BY <2>3 DEF Owned
    <3>4. Owned(table', User[d]) \subseteq Owned(table, User[d]) \cup {c}
      BY <2>3 DEF Owned
    <3> QED BY <2>1, <2>2, <3>1, <3>2, <3>3, <3>4 DEF Holds
  <2> QED BY <1>0, <2>1, <2>2, <2>4 DEF Holding, TypeOK
<1> QED BY <1>1, <1>2, <1>3, <1>4, <1>5

LEMMA NumberedStep ==
  ASSUME MemoryInv, NEW c \in Calls,
         Begin(c) \/ Looking(c) \/ Writing(c) \/ Ending(c) \/ Committing(c)
  PROVE  Numbered'
<1> USE DEF MemoryInv
<1>0. Adds \subseteq Calls /\ DOMAIN table \subseteq Adds
  BY DEF Adds, Calling, Shapes, IsTable
<1>1. CASE Begin(c)
  <2>1. /\ pc[c] = "new" /\ pc' = [pc EXCEPT ![c] = "select"] /\ UNCHANGED <<table, next>>
        /\ before' = [before EXCEPT ![c] = {d \in Calls : pc[d] = "done"}]
        /\ stale \subseteq stale'
    BY <1>1 DEF Begin, At, rows, call
  <2>2. \A d \in Calls \ {c} : pc'[d] = pc[d] /\ before'[d] = before[d]
    BY <2>1 DEF TypeOK
  <2>3. pc'[c] = "select" /\ c \notin DOMAIN table
    BY <2>1, CommitIsFresh DEF TypeOK
  <2> QED BY <1>0, <2>1, <2>2, <2>3 DEF Numbered, IsBehind
<1>2. CASE Looking(c)
  <2>1. /\ pc[c] = "select" /\ pc' = [pc EXCEPT ![c] = "write"]
        /\ UNCHANGED <<table, before, stale>>
        /\ next' = [next EXCEPT ![c] = next'[c]]
        /\ c \in Adds => next'[c] = Max({0} \cup Seqs(Visible(c), User[c])) + 1
    BY <1>2, LookingEffect DEF rows, ghosts
  <2>2. c \notin DOMAIN table
    BY <2>1, CommitIsFresh
  <2>3. \A d \in Calls \ {c} : pc'[d] = pc[d] /\ next'[d] = next[d]
    BY <2>1 DEF TypeOK
  <2>4. ASSUME c \in Adds PROVE next'[c] # 0
    <3>1. IsTable(Visible(c))
      BY StoresOfCalls DEF Shapes, Visible
    <3> QED BY <2>1, <2>4, <3>1, NextNumber
  <2>5. ASSUME c \in Adds, c \notin stale PROVE IsBehind(c)'
    <3>1. Visible(c) = table /\ IsTable(table)
      BY <2>1, <2>5 DEF OneAtATime, Visible, Shapes
    <3>2. next'[c] = Max({0} \cup Seqs(table, User[c])) + 1
      BY <2>1, <2>5, <3>1
    <3>3. \A m \in DOMAIN table : User[m] = User[c] => table[m].seq < next'[c]
      BY <3>1, <3>2, NextNumber
    <3> QED BY <2>1, <3>3 DEF IsBehind
  <2> QED BY <1>0, <2>1, <2>2, <2>3, <2>4, <2>5 DEF Numbered, IsBehind
<1>3. CASE Writing(c)
  <2>1. /\ pc[c] = "write" /\ pc' = [pc EXCEPT ![c] = "commit"]
        /\ UNCHANGED <<table, before, stale, next>>
    BY <1>3, WritingEffect DEF rows, ghosts
  <2> QED BY <1>0, <2>1 DEF Numbered, IsBehind, TypeOK
<1>4. CASE Ending(c)
  <2>1. /\ pc' = [pc EXCEPT ![c] = "done"] /\ UNCHANGED <<table, before, stale, next>>
    BY <1>4, EndingEffect DEF rows, ghosts
  <2> QED BY <1>0, <2>1 DEF Numbered, IsBehind, TypeOK
<1>5. CASE Committing(c)
  <2>1. /\ pc[c] = "commit" /\ pc' = [pc EXCEPT ![c] = "done"]
        /\ table' = Written(c) /\ UNCHANGED <<next, before, stale>>
    BY <1>5, CommittingEffect DEF call
  <2>2. \A d \in Calls \ {c} : pc'[d] = pc[d]
    BY <2>1 DEF TypeOK
  <2>3. pc'[c] = "done"
    BY <2>1 DEF TypeOK
  <2>4. /\ DOMAIN table' \subseteq DOMAIN table \cup {c}
        /\ \A m \in DOMAIN table' \cap DOMAIN table : table'[m].seq = table[m].seq
        /\ c \in DOMAIN table' => c \in Adds /\ table'[c].seq = next[c]
    <3>1. c \notin DOMAIN table
      BY <2>1, CommitIsFresh
    <3>2. CASE Method[c] = "add"
      <4>1. /\ DOMAIN table' = DOMAIN table \cup {c}
            /\ table'[c] = [seq |-> next[c], value |-> c]
            /\ \A m \in DOMAIN table : table'[m] = table[m]
        BY <2>1, <3>2, WrittenRows
      <4>2. table'[c].seq = next[c] /\ c \in Adds
        BY <3>2, <4>1, Parts
      <4> QED BY <3>1, <4>1, <4>2
    <3>3. CASE Method[c] = "update"
      <4>1. \A m \in DOMAIN table :
              Written(c)[m] = table[m] \/ Written(c)[m] = [seq |-> table[m].seq, value |-> c]
        BY <2>1, <3>3, WrittenRows
      <4>2. ASSUME NEW m \in DOMAIN table PROVE Written(c)[m].seq = table[m].seq
        <5>1. CASE Written(c)[m] = table[m]
          BY <5>1
        <5>2. CASE Written(c)[m] = [seq |-> table[m].seq, value |-> c]
          BY <5>2
        <5> QED BY <4>1, <5>1, <5>2
      <4>3. DOMAIN Written(c) = DOMAIN table
        BY <2>1, <3>3, WrittenRows
      <4> QED BY <2>1, <3>1, <4>2, <4>3
    <3>4. CASE Method[c] \in {"remove", "forget_all"}
      BY <2>1, <3>1, <3>4, WrittenRows
    <3> QED BY <2>1, <3>2, <3>3, <3>4, WrittenRows
  <2>5. \A d \in Calls : c \notin before[d]
    BY <2>1, CommitIsFresh
  <2>6. ASSUME NEW n \in Adds, IsBehind(n) PROVE IsBehind(n)'
    BY <2>1, <2>4, <2>5, <2>6, <1>0 DEF IsBehind
  <2> QED BY <1>0, <2>1, <2>2, <2>3, <2>4, <2>6 DEF Numbered
<1> QED BY <1>1, <1>2, <1>3, <1>4, <1>5

LEMMA LastingStep ==
  ASSUME MemoryInv, NEW c \in Calls,
         Begin(c) \/ Looking(c) \/ Writing(c) \/ Ending(c) \/ Committing(c)
  PROVE  Lasting'
<1> USE DEF MemoryInv
<1>0. /\ Adds \subseteq Calls /\ Updates \subseteq Calls /\ DOMAIN table \subseteq Adds
      /\ \A d \in Calls : before[d] \subseteq Calls
  BY DEF Adds, Updates, Calling, Shapes, IsTable, TypeOK
<1>1. ASSUME UNCHANGED table,
             \A d \in Calls : Done(d)' => Done(d) \/ d \in Reads,
             \A d \in Calls : Done(d) => Done(d)' /\ before'[d] = before[d] /\ target'[d] = target[d],
             \A d \in Calls : pc[d] # "new" => pc'[d] # "new" /\ target'[d] = target[d]
      PROVE  Lasting'
  <2>1. \A d \in Calls : d \in Reads => d \notin Adds /\ d \notin Updates
                                    /\ Method[d] \notin {"remove", "forget_all"}
    BY Parts
  <2>2. \A m \in DOMAIN table : Removed(m)' \subseteq Removed(m)
    BY <1>1, <2>1 DEF Removed
  <2>3. \A m \in Adds : Done(m) => MayRemove(m) \subseteq MayRemove(m)'
    BY <1>0, <1>1 DEF MayRemove
  <2> QED BY <1>0, <1>1, <2>1, <2>2, <2>3 DEF Lasting
<1>2. CASE Begin(c)
  <2>1. /\ pc[c] = "new" /\ pc' = [pc EXCEPT ![c] = "select"] /\ UNCHANGED <<table, outcome>>
        /\ before' = [before EXCEPT ![c] = {d \in Calls : pc[d] = "done"}]
        /\ \A d \in Calls \ {c} : target'[d] = target[d]
    BY <1>2 DEF Begin, At, rows, TypeOK
  <2> QED BY <1>1, <2>1 DEF Done, TypeOK
<1>3. CASE Looking(c) \/ Writing(c) \/ Ending(c)
  <2>1. /\ pc[c] \in {"select", "write", "commit"}
        /\ \E place \in {"write", "commit", "done"} : pc' = [pc EXCEPT ![c] = place]
        /\ UNCHANGED <<table, before, target>>
        /\ pc'[c] = "done" /\ outcome'[c] = "ok" => c \in Reads
        /\ \A d \in Calls \ {c} : outcome'[d] = outcome[d]
    <3>1. CASE Looking(c)
      BY <3>1, LookingEffect DEF rows, ghosts, TypeOK
    <3>2. CASE Writing(c)
      BY <3>2, WritingEffect DEF rows, ghosts, TypeOK
    <3>3. CASE Ending(c)
      BY <3>3, EndingEffect DEF rows, ghosts, Active, TypeOK
    <3> QED BY <1>3, <3>1, <3>2, <3>3
  <2> QED BY <1>1, <2>1 DEF Done, TypeOK
<1>4. CASE Committing(c)
  <2>1. /\ pc[c] = "commit" /\ pc' = [pc EXCEPT ![c] = "done"]
        /\ table' = Written(c) /\ UNCHANGED <<before, target, hit>>
        /\ outcome' = [outcome EXCEPT ![c] = outcome'[c]]
    BY <1>4, CommittingEffect DEF call
  <2>2. \A d \in Calls \ {c} : Done(d)' <=> Done(d)
    BY <2>1 DEF Done, TypeOK
  <2>3. \A d \in Calls : pc'[d] # "new" <=> pc[d] # "new"
    BY <2>1 DEF TypeOK
  <2>4. Holds(c) /\ (c \in Targeted => User[target[c]] = User[c])
    BY <2>1 DEF Holding
  <2>5. /\ \A d \in Calls : c \notin before[d]
        /\ \A d \in Targeted : pc[d] # "new" => target[d] # c
    BY <2>1, CommitIsFresh
  <2>6. ~Done(c)
    BY <2>1 DEF Done
  <2>7. /\ Method[c] \in {"add", "update", "remove", "forget_all"}
        /\ DOMAIN table' \subseteq DOMAIN table \cup {c}
        /\ Method[c] \in {"remove", "forget_all"} => DOMAIN table' = DOMAIN table \ hit[c]
        /\ Method[c] \in {"add", "update"} => DOMAIN table \subseteq DOMAIN table'
        /\ Method[c] = "add" => c \in DOMAIN table'
        /\ c \in DOMAIN table' => Method[c] = "add"
    <3>1. c \notin DOMAIN table
      BY <2>1, CommitIsFresh
    <3>2. /\ Method[c] \in {"add", "update", "remove", "forget_all"}
          /\ Method[c] = "add" => DOMAIN table' = DOMAIN table \cup {c}
          /\ Method[c] = "update" => DOMAIN table' = DOMAIN table
          /\ Method[c] \in {"remove", "forget_all"} => DOMAIN table' = DOMAIN table \ hit[c]
      BY <2>1, WrittenRows
    <3> QED BY <3>1, <3>2
  <2>8. ASSUME NEW m \in DOMAIN table', NEW d \in Removed(m)' PROVE FALSE
    <3>1. /\ d \in Calls /\ Done(d)' /\ User[d] = User[m]
          /\ \/ Method[d] = "remove" /\ target[d] = m
             \/ Method[d] = "forget_all" /\ m \in before[d]
      BY <2>1, <2>8 DEF Removed
    <3>2. m # c
      BY <2>5, <3>1, <2>2, <2>7, Parts DEF Done
    <3>3. m \in DOMAIN table
      BY <2>7, <3>2
    <3>4. CASE d # c
      <4>1. d \in Removed(m)
        BY <2>2, <3>1, <3>4 DEF Removed
      <4> QED BY <3>3, <4>1 DEF Lasting
    <3>5. CASE d = c
      <4>1. m \in Owned(table, User[c])
        BY <3>1, <3>3, <3>5 DEF Owned
      <4>2. m \in hit[c]
        BY <2>4, <3>1, <3>5, <4>1, Parts DEF Holds
      <4> QED BY <2>7, <3>1, <3>5, <4>2
    <3> QED BY <3>4, <3>5
  <2>9. ASSUME NEW m \in DOMAIN table', NEW d \in Updates, Done(d)', target'[d] = m
        PROVE  table'[m].value \notin before'[d]
    <3>1. m # c /\ m \in DOMAIN table /\ d \in Targeted
      BY <1>0, <2>1, <2>2, <2>5, <2>7, <2>9, Parts DEF Done
    <3>2. CASE d = c
      <4>1. Method[c] = "update" /\ m \in hit[c]
        BY <1>0, <2>1, <2>4, <2>9, <3>1, <3>2, Parts DEF Holds, Owned
      <4>2. table'[m] = [seq |-> table[m].seq, value |-> c]
        BY <2>1, <3>1, <4>1, WrittenRows
      <4>3. table'[m].value = c
        BY <4>2
      <4> QED BY <2>1, <2>5, <3>2, <4>3
    <3>3. CASE d # c
      <4>1. table[m].value \notin before[d]
        BY <1>0, <2>1, <2>2, <2>9, <3>1, <3>3 DEF Lasting
      <4>2. table'[m] = table[m] \/ table'[m] = [seq |-> table[m].seq, value |-> c]
        BY <2>1, <2>7, <3>1, WrittenRows
      <4>3. table'[m].value \in {table[m].value, c}
        BY <4>2
      <4> QED BY <1>0, <2>1, <2>5, <4>1, <4>3
    <3> QED BY <3>2, <3>3
  <2>10. ASSUME NEW m \in Adds, Done(m)', MayRemove(m)' = {}
         PROVE  m \in DOMAIN table'
    <3>1. CASE m = c
      BY <2>7, <3>1, Parts
    <3>2. CASE m # c
      <4>1. Done(m) /\ MayRemove(m) = {}
        BY <1>0, <2>1, <2>2, <2>3, <2>10, <3>2 DEF MayRemove
      <4>2. m \in DOMAIN table
        BY <4>1 DEF Lasting
      <4>3. c \notin MayRemove(m)
        BY <4>1
      <4>4. Method[c] \in {"remove", "forget_all"} => m \notin hit[c]
        <5>1. c \in Adds <=> Method[c] = "add"
          BY Parts
        <5>2. c \in Targeted <=> Method[c] \in {"get", "update", "remove"}
          BY Parts
        <5> QED BY <1>0, <2>1, <2>4, <2>5, <4>3, <5>1, <5>2 DEF Holds, MayRemove, Owned
      <4> QED BY <2>7, <4>2, <4>4
    <3> QED BY <3>1, <3>2
  <2> QED BY <2>8, <2>9, <2>10 DEF Lasting
<1> QED BY <1>2, <1>3, <1>4

LEMMA InitInv == Init => MemoryInv
<1> SUFFICES ASSUME Init PROVE MemoryInv
  OBVIOUS
<1>1. DOMAIN table = {} /\ table = [m \in {} |-> None] /\ created = {}
  BY DEF Init, NoRows
<1>2. TypeOK
  BY <1>1 DEF Init, TypeOK
<1>3. Shapes
  <2>1. IsTable(table)
    BY <1>1 DEF IsTable
  <2>2. Begun = {}
    BY DEF Init, Begun
  <2> QED BY <1>1, <2>1, <2>2, FS_EmptySet DEF Init, Shapes
<1>4. OneAtATime /\ Past /\ Holding
  BY <1>1, SqlMemoryAssumption DEF Init, OneAtATime, Past, Holding, Active, Targeted, Calling
<1>5. Numbered /\ Lasting
  <2>1. Adds \subseteq Calls
    BY DEF Adds, Calling
  <2> QED BY <1>1, <2>1 DEF Init, Numbered, Lasting, Done
<1> QED BY <1>2, <1>3, <1>4, <1>5 DEF MemoryInv

LEMMA NextInv == MemoryInv /\ [Next]_vars => MemoryInv'
<1>1. CASE MemoryInv /\ Next
  BY <1>1, StepKinds, TypeStep, ShapesStep, OneAtATimeStep, PastStep, HoldingStep,
     NumberedStep, LastingStep DEF MemoryInv
<1>2. CASE MemoryInv /\ UNCHANGED vars
  <2>1. UNCHANGED <<dialect, table, pc, target, next, hit, outcome, answer, lock, view,
                    aborted, before, stale, created>>
    BY <1>2 DEF vars, rows, call, connection, ghosts
  <2>2. TypeOK'
    BY <1>2, <2>1 DEF MemoryInv, TypeOK
  <2>3. Shapes' /\ OneAtATime' /\ Past'
    BY <1>2, <2>1 DEF MemoryInv, Shapes, IsTable, Begun, OneAtATime, Active, Past
  <2>4. Holding' /\ Numbered'
    BY <1>2, <2>1 DEF MemoryInv, Holding, Holds, Owned, Numbered, IsBehind
  <2>5. Lasting'
    BY <1>2, <2>1 DEF MemoryInv, Lasting, Done, Removed, MayRemove
  <2> QED BY <2>2, <2>3, <2>4, <2>5 DEF MemoryInv
<1> QED BY <1>1, <1>2

LEMMA Invariance == Spec => []MemoryInv
<1> QED BY InitInv, NextInv, PTL DEF Spec

\* The variables keep to their types, and the numbers of the rows are positive.
THEOREM TypeCorrect == Spec => []TypeOK
<1>1. MemoryInv => TypeOK
  BY DEF MemoryInv
<1> QED BY <1>1, Invariance, PTL

\* Whatever overlaps, memories are listed in the order in which their adds came
\* one after the other, but for adds behind a snapshot that a read left open.
THEOREM ListedInOrderHolds == Spec => []ListedInOrder
<1>1. MemoryInv => ListedInOrder
  <2> SUFFICES ASSUME MemoryInv, NEW m \in DOMAIN table, NEW n \in DOMAIN table,
                      User[m] = User[n], m \in before[n], n \notin stale
               PROVE  table[m].seq < table[n].seq
    BY DEF ListedInOrder
  <2>1. n \in Adds
    BY DEF MemoryInv, Shapes, IsTable
  <2> QED BY <2>1 DEF MemoryInv, Numbered, IsBehind
<1> QED BY <1>1, Invariance, PTL

-----------------------------------------------------------------------------
\* A read that did not begin in an old snapshot returns rows of the table.
LEMMA ReadIsCurrent ==
  ASSUME MemoryInv, NEW c \in Calls, Ending(c), outcome'[c] = "ok", c \notin stale
  PROVE  /\ answer'[c] = [m \in DOMAIN answer'[c] |-> table[m]]
         /\ DOMAIN answer'[c] \subseteq DOMAIN table
         /\ c \in Lists => DOMAIN answer'[c] = Owned(table, User[c])
<1> USE DEF MemoryInv
<1>1. Get(c) \/ List(c)
  BY DEF Ending, NotFound, Fail, Over, TypeOK
<1>2. pc[c] = "select" /\ c \in Reads
  BY EndingEffect
<1>3. Visible(c) = table
  BY <1>2 DEF OneAtATime, Visible
<1>4. CASE Get(c)
  <2>1. Method[c] = "get" /\ target[c] \in DOMAIN table /\ Return(c, {target[c]})
    BY <1>3, <1>4 DEF Get, Select, Find, Owned
  <2>2. answer'[c] = Restrict(table, {target[c]})
    BY <1>2, <1>3, <2>1 DEF Return, TypeOK
  <2> QED BY <2>1, <2>2, Parts DEF Restrict
<1>5. CASE List(c)
  <2>1. Return(c, Owned(table, User[c]))
    BY <1>3, <1>5 DEF List
  <2>2. answer'[c] = Restrict(table, Owned(table, User[c]))
    BY <1>2, <1>3, <2>1 DEF Return, TypeOK
  <2> QED BY <2>2 DEF Restrict, Owned
<1> QED BY <1>1, <1>4, <1>5

\* What was answered stays, and what came before it does not change any more.
LEMMA AnswersStay ==
  ASSUME MemoryInv, NEW c \in Calls,
         Begin(c) \/ Looking(c) \/ Writing(c) \/ Ending(c) \/ Committing(c)
  PROVE  /\ \A d \in Calls : pc[d] = "done" =>
               /\ pc'[d] = "done" /\ outcome'[d] = outcome[d] /\ target'[d] = target[d]
               /\ before'[d] = before[d] /\ (d \in stale' <=> d \in stale)
               /\ d \in Reads => answer'[d] = answer[d]
         /\ \A d \in Calls : Done(d)' /\ ~Done(d) /\ d \in Reads =>
               d = c /\ Ending(c) /\ outcome'[c] = "ok"
                /\ UNCHANGED <<target, before, stale, table>>
         /\ \A d \in Calls : pc[d] # "new" =>
               pc'[d] # "new" /\ target'[d] = target[d] /\ before'[d] = before[d]
<1> USE DEF MemoryInv
<1>1. CASE Begin(c)
  <2>1. /\ pc[c] = "new" /\ pc' = [pc EXCEPT ![c] = "select"] /\ UNCHANGED <<outcome, answer>>
        /\ before' = [before EXCEPT ![c] = {d \in Calls : pc[d] = "done"}]
        /\ stale' = stale \/ stale' = stale \cup {c}
        /\ \A d \in Calls \ {c} : target'[d] = target[d]
    BY <1>1 DEF Begin, At, call, TypeOK
  <2> QED BY <2>1 DEF Done, TypeOK
<1>2. CASE Looking(c)
  <2>1. /\ pc[c] = "select" /\ pc' = [pc EXCEPT ![c] = "write"]
        /\ UNCHANGED <<outcome, answer, before, target, stale>>
    BY <1>2, LookingEffect DEF ghosts
  <2> QED BY <2>1 DEF Done, TypeOK
<1>3. CASE Writing(c)
  <2>1. /\ pc[c] = "write" /\ pc' = [pc EXCEPT ![c] = "commit"]
        /\ UNCHANGED <<outcome, answer, before, target, stale>>
    BY <1>3, WritingEffect DEF ghosts
  <2> QED BY <2>1 DEF Done, TypeOK
<1>4. CASE Ending(c)
  <2>1. /\ pc[c] # "done" /\ pc' = [pc EXCEPT ![c] = "done"]
        /\ outcome' = [outcome EXCEPT ![c] = outcome'[c]]
        /\ answer' = answer \/ answer' = [answer EXCEPT ![c] = answer'[c]]
        /\ UNCHANGED <<table, before, target, stale>>
    BY <1>4, EndingEffect DEF rows, ghosts, Active
  <2>2. \A d \in Reads \ {c} : answer'[d] = answer[d]
    BY <2>1 DEF TypeOK
  <2>3. \A d \in Calls \ {c} : outcome'[d] = outcome[d] /\ pc'[d] = pc[d]
    BY <2>1 DEF TypeOK
  <2>4. pc'[c] = "done"
    BY <2>1 DEF TypeOK
  <2> QED BY <1>4, <2>1, <2>2, <2>3, <2>4 DEF Done
<1>5. CASE Committing(c)
  <2>1. /\ pc[c] = "commit" /\ pc' = [pc EXCEPT ![c] = "done"] /\ c \notin Reads
        /\ outcome' = [outcome EXCEPT ![c] = outcome'[c]]
        /\ UNCHANGED <<answer, before, target, stale>>
    BY <1>5, CommittingEffect DEF call, Holding
  <2>3. \A d \in Calls \ {c} : outcome'[d] = outcome[d] /\ pc'[d] = pc[d]
    BY <2>1 DEF TypeOK
  <2>4. pc'[c] = "done"
    BY <2>1 DEF TypeOK
  <2> QED BY <2>1, <2>3, <2>4 DEF Done
<1> QED BY <1>1, <1>2, <1>3, <1>4, <1>5

LEMMA NothingLostStep ==
  ASSUME MemoryInv, NothingLost, NEW c \in Calls,
         Begin(c) \/ Looking(c) \/ Writing(c) \/ Ending(c) \/ Committing(c)
  PROVE  NothingLost'
<1> USE DEF MemoryInv
<1> SUFFICES ASSUME NEW l \in Lists \ stale', Done(l)', NEW m \in before'[l] \cap Adds,
                    Done(m)', User[m] = User[l], MayRemove(m)' = {}
             PROVE  m \in DOMAIN answer'[l]
  BY DEF NothingLost
<1>0. l \in Calls /\ l \in Reads /\ Lists \subseteq Calls
  BY Parts DEF Lists, Calling
<1>1. ASSUME m \in before[l], before'[l] = before[l] PROVE Done(m) /\ MayRemove(m) = {}
  <2>1. pc[m] = "done" /\ m \in Calls
    BY <1>0, <1>1 DEF Past, TypeOK
  <2>2. Done(m)
    BY <2>1, AnswersStay DEF Done
  <2>3. MayRemove(m) \subseteq MayRemove(m)'
    BY <2>1, AnswersStay DEF MayRemove
  <2> QED BY <2>2, <2>3
<1>2. CASE Done(l)
  <2>1. answer'[l] = answer[l] /\ before'[l] = before[l] /\ l \notin stale
    BY <1>0, <1>2, AnswersStay DEF Done
  <2> QED BY <1>1, <1>2, <2>1 DEF NothingLost
<1>3. CASE ~Done(l)
  <2>1. l = c /\ Ending(c) /\ outcome'[c] = "ok" /\ before' = before /\ c \notin stale
    BY <1>0, <1>3, AnswersStay
  <2>2. Done(m) /\ MayRemove(m) = {}
    BY <1>1, <2>1
  <2>3. m \in Owned(table, User[c])
    BY <2>1, <2>2 DEF Lasting, Owned
  <2> QED BY <2>1, <2>3, ReadIsCurrent
<1> QED BY <1>2, <1>3

LEMMA NothingComesBackStep ==
  ASSUME MemoryInv, NothingComesBack, NEW c \in Calls,
         Begin(c) \/ Looking(c) \/ Writing(c) \/ Ending(c) \/ Committing(c)
  PROVE  NothingComesBack'
<1> USE DEF MemoryInv
<1>1. Lasting'
  BY LastingStep
<1>2. ASSUME NEW r \in Shows \ stale', Done(r)', NEW m \in DOMAIN answer'[r]
      PROVE  /\ Removed(m)' \cap before'[r] = {}
             /\ \A u \in Updates \cap before'[r] :
                  Done(u)' /\ target'[u] = m => answer'[r][m].value \notin before'[u]
  <2>0. r \in Calls /\ r \in Reads
    BY Parts DEF Shows, Calling
  <2>1. ASSUME before'[r] = before[r], NEW d \in before[r]
        PROVE  /\ d \in Calls /\ (Done(d)' <=> Done(d))
               /\ before'[d] = before[d] /\ target'[d] = target[d]
    <3>1. d \in Calls /\ pc[d] = "done"
      BY <2>0, <2>1 DEF Past, TypeOK
    <3> QED BY <3>1, AnswersStay DEF Done
  <2>2. ASSUME before'[r] = before[r]
        PROVE  Removed(m)' \cap before'[r] \subseteq Removed(m) \cap before[r]
    BY <2>1, <2>2 DEF Removed
  <2>3. CASE Done(r)
    <3>1. answer'[r] = answer[r] /\ before'[r] = before[r] /\ r \notin stale
      BY <2>0, <2>3, AnswersStay DEF Done
    <3>2. /\ Removed(m) \cap before[r] = {}
          /\ \A u \in Updates \cap before[r] :
               Done(u) /\ target[u] = m => answer[r][m].value \notin before[u]
      BY <1>2, <2>3, <3>1 DEF NothingComesBack, RecalledPrompt
    <3> QED BY <2>1, <2>2, <3>1, <3>2
  <2>4. CASE ~Done(r)
    <3>1. r = c /\ Ending(c) /\ outcome'[c] = "ok" /\ before' = before /\ c \notin stale
      BY <1>2, <2>0, <2>4, AnswersStay
    <3>2. m \in DOMAIN table /\ answer'[r][m] = table[m]
      <4>1. /\ answer'[c] = [q \in DOMAIN answer'[c] |-> table[q]]
            /\ DOMAIN answer'[c] \subseteq DOMAIN table
        BY <3>1, ReadIsCurrent
      <4>2. m \in DOMAIN answer'[c]
        BY <1>2, <3>1
      <4>3. answer'[c][m] = table[m]
        BY <4>1, <4>2
      <4> QED BY <3>1, <4>1, <4>2, <4>3
    <3>3. /\ Removed(m) = {}
          /\ \A u \in Updates : Done(u) /\ target[u] = m => table[m].value \notin before[u]
      BY <3>2 DEF Lasting
    <3> QED BY <2>1, <2>2, <3>1, <3>2, <3>3
  <2> QED BY <2>3, <2>4
<1> QED BY <1>1, <1>2 DEF NothingComesBack, Lasting, RecalledPrompt

\* Nothing that was added, removed, erased or overwritten before a read began is
\* missing from it, or comes back in it, or later in the table.
THEOREM ReadsAreCurrentHolds == Spec => []ReadsAreCurrent
<1>1. Init => ReadsAreCurrent
  <2> SUFFICES ASSUME Init PROVE ReadsAreCurrent
    OBVIOUS
  <2>1. DOMAIN table = {} /\ \A c \in Calls : ~Done(c)
    BY DEF Init, NoRows, Done
  <2>2. Lists \subseteq Calls /\ Shows \subseteq Calls
    BY DEF Lists, Shows, Calling
  <2> QED BY <2>1, <2>2 DEF ReadsAreCurrent, NothingLost, NothingComesBack
<1>2. MemoryInv /\ ReadsAreCurrent /\ [Next]_vars => ReadsAreCurrent'
  <2>1. CASE MemoryInv /\ ReadsAreCurrent /\ Next
    BY <2>1, StepKinds, NothingLostStep, NothingComesBackStep DEF ReadsAreCurrent
  <2>2. CASE MemoryInv /\ ReadsAreCurrent /\ UNCHANGED vars
    <3>1. UNCHANGED <<table, pc, target, outcome, answer, before, stale>>
      BY <2>2 DEF vars, rows, call, connection, ghosts
    <3>2. NothingLost'
      BY <2>2, <3>1 DEF ReadsAreCurrent, NothingLost, Done, MayRemove
    <3>3. NothingComesBack'
      BY <2>2, <3>1 DEF ReadsAreCurrent, NothingComesBack, Done, Removed, RecalledPrompt
    <3> QED BY <3>2, <3>3 DEF ReadsAreCurrent
  <2> QED BY <2>1, <2>2
<1> QED BY <1>1, <1>2, Invariance, PTL DEF Spec

\* A call that writes ends its transaction with it, however it ends: the next
\* call on its connection finds neither a snapshot nor a refusal.
THEOREM WritesLeaveNothingOpenHolds == Spec => WritesLeaveNothingOpen
<1>1. MemoryInv /\ [Next]_vars =>
        [\A c \in Calls \ Reads : pc[c] # "done" /\ pc'[c] = "done" =>
           view'[Store[c]] = None /\ Store[c] \notin aborted']_vars
  <2> SUFFICES ASSUME MemoryInv, Next, NEW c \in Calls \ Reads,
                      pc[c] # "done", pc'[c] = "done"
               PROVE  view'[Store[c]] = None /\ Store[c] \notin aborted'
    OBVIOUS
  <2> USE DEF MemoryInv
  <2>1. PICK d \in Calls : Begin(d) \/ Looking(d) \/ Writing(d) \/ Ending(d) \/ Committing(d)
    BY StepKinds
  <2>2. \E place \in {"select", "write", "commit", "done"} : pc' = [pc EXCEPT ![d] = place]
    BY <2>1, LookingEffect, WritingEffect, EndingEffect, CommittingEffect DEF Begin, At
  <2>3. d = c
    BY <2>2 DEF TypeOK
  <2>4. ~Begin(c)
    BY <2>2, <2>3 DEF Begin, At, TypeOK
  <2>5. ~Looking(c)
    BY LookingEffect DEF TypeOK
  <2>6. ~Writing(c)
    BY WritingEffect DEF TypeOK
  <2>7. Ending(c) \/ Committing(c)
    BY <2>1, <2>3, <2>4, <2>5, <2>6
  <2> QED BY <2>7, EndingEffect, CommittingEffect
<1> QED BY <1>1, Invariance, PTL DEF Spec, WritesLeaveNothingOpen

-----------------------------------------------------------------------------
\* What a commit does to the memories, as UserMemory has it.
LEMMA CommitIsAnOperation ==
  ASSUME MemoryInv, NEW c \in Calls, Committing(c)
  PROVE  [Memory!Next]_<<[m \in DOMAIN table |-> table[m].value], created>>
<1> USE DEF MemoryInv
<1> DEFINE before1 == [m \in DOMAIN table |-> table[m].value]
           after1 == [m \in DOMAIN table' |-> table'[m].value]
           owner == Restrict(User, Adds)
<1>0. /\ pc[c] = "commit" /\ table' = Written(c) /\ created' = created \cup DOMAIN table'
      /\ DOMAIN table \subseteq created /\ DOMAIN table \subseteq Adds
  BY CommittingEffect DEF Shapes, IsTable
<1>1. Holds(c) /\ (c \in Targeted => User[target[c]] = User[c])
  BY <1>0 DEF Holding
<1>2. \A m \in Adds : owner[m] = User[m] /\ User[m] \in Memory!Range(owner)
  BY DEF Restrict, Memory!Range
<1>3. CASE Method[c] = "add"
  <2>1. /\ DOMAIN table' = DOMAIN table \cup {c} /\ c \notin created /\ c \in Adds
        /\ table'[c] = [seq |-> next[c], value |-> c]
        /\ \A m \in DOMAIN table : table'[m] = table[m]
    BY <1>0, <1>3, WrittenRows, Parts
  <2>2. table'[c].value = c
    BY <2>1
  <2>3. after1 = [m \in DOMAIN before1 \cup {c} |-> IF m = c THEN c ELSE before1[m]]
    BY <2>1, <2>2
  <2>4. created' = created \cup {c}
    BY <1>0, <2>1
  <2>5. Memory!Add(c, c)
    BY <2>1, <2>3, <2>4 DEF Memory!Add
  <2> QED BY <2>1, <2>5 DEF Memory!Next
<1>4. CASE Method[c] = "update"
  <2>1. /\ DOMAIN table' = DOMAIN table /\ created' = created
        /\ \A m \in DOMAIN table : table'[m] =
             IF m \in hit[c] THEN [seq |-> table[m].seq, value |-> c] ELSE table[m]
    BY <1>0, <1>4, WrittenRows
  <2>2. hit[c] \subseteq Owned(table, User[c]) /\ hit[c] \subseteq {target[c]}
    BY <1>1, <1>4, Parts DEF Holds
  <2>3. CASE hit[c] = {}
    BY <2>1, <2>3
  <2>4. CASE hit[c] = {target[c]}
    <3> DEFINE n == target[c]
    <3>1. n \in DOMAIN before1 /\ User[n] = User[c] /\ n \in Adds
      BY <1>0, <2>2, <2>4 DEF Owned
    <3>2. table'[n].value = c
      BY <2>1, <2>4, <3>1
    <3>3. after1 = [before1 EXCEPT ![n] = c]
      BY <2>1, <2>4, <3>2
    <3>4. Memory!Update(User[c], n, c)
      BY <1>2, <2>1, <3>1, <3>3 DEF Memory!Update, Memory!OwnedBy
    <3> QED BY <1>2, <3>1, <3>4 DEF Memory!Next
  <2> QED BY <2>2, <2>3, <2>4
<1>5. CASE Method[c] = "remove"
  <2>1. /\ DOMAIN table' = DOMAIN table \ hit[c] /\ created' = created
        /\ \A m \in DOMAIN table' : table'[m] = table[m]
    BY <1>0, <1>5, WrittenRows
  <2>2. hit[c] \subseteq Owned(table, User[c]) /\ hit[c] \subseteq {target[c]}
    BY <1>1, <1>5, Parts DEF Holds
  <2>3. CASE hit[c] = {}
    <3>1. after1 = before1
      BY <2>1, <2>3
    <3> QED BY <2>1, <3>1
  <2>4. CASE hit[c] = {target[c]}
    <3>0. PICK n : n = target[c]
      OBVIOUS
    <3>1. n \in DOMAIN before1 /\ User[n] = User[c] /\ n \in Adds
      BY <1>0, <2>2, <2>4, <3>0 DEF Owned
    <3>2. after1 = Memory!Restrict(before1, DOMAIN before1 \ {n})
      BY <2>1, <2>4, <3>0 DEF Memory!Restrict
    <3>3. Memory!Remove(User[c], n)
      BY <1>2, <2>1, <3>1, <3>2 DEF Memory!Remove, Memory!OwnedBy
    <3> QED BY <1>2, <3>1, <3>3 DEF Memory!Next
  <2> QED BY <2>2, <2>3, <2>4
<1>6. CASE Method[c] = "forget_all"
  <2>1. /\ DOMAIN table' = DOMAIN table \ hit[c] /\ created' = created
        /\ \A m \in DOMAIN table' : table'[m] = table[m]
    <3>1. DOMAIN table' = DOMAIN table \ hit[c]
      BY <1>0, <1>6, WrittenRows
    <3>2. \A m \in DOMAIN table \ hit[c] : table'[m] = table[m]
      BY <1>0, <1>6, WrittenRows
    <3> QED BY <1>0, <3>1, <3>2
  <2>2. hit[c] \subseteq Owned(table, User[c])
    BY <1>1, <1>6, Parts DEF Holds
  <2>3. CASE hit[c] = {}
    <3>1. after1 = before1
      BY <2>1, <2>3
    <3> QED BY <2>1, <3>1
  <2>4. CASE hit[c] # {}
    <3>1. PICK n \in hit[c] : TRUE
      BY <2>4
    <3>2. User[c] \in Memory!Range(owner)
      BY <1>0, <1>2, <2>2, <3>1 DEF Owned
    <3>3. after1 = Memory!Restrict(before1, DOMAIN before1 \ hit[c])
      BY <2>1 DEF Memory!Restrict
    <3>4. \A m \in hit[c] : m \in DOMAIN before1 /\ owner[m] = User[c]
      BY <1>0, <1>2, <2>2 DEF Owned
    <3>5. hit[c] \in SUBSET Memory!OwnedBy(User[c])
      BY <3>4 DEF Memory!OwnedBy
    <3>6. Memory!forget_all(User[c])
      BY <2>1, <3>3, <3>5 DEF Memory!forget_all
    <3> QED BY <3>2, <3>6 DEF Memory!Next
  <2> QED BY <2>3, <2>4
<1> QED BY <1>0, <1>3, <1>4, <1>5, <1>6, WrittenRows

\* The table of rows is a memory store: whatever the statements of its calls
\* overlap with, each commit is one operation of it, or changes nothing.
THEOREM Implements == Spec => IsAMemoryStore
<1>1. Init => Memory!Init
  BY DEF Init, Memory!Init, NoRows
<1>2. MemoryInv /\ [Next]_vars =>
        [Memory!Next]_<<[m \in DOMAIN table |-> table[m].value], created>>
  <2> SUFFICES ASSUME MemoryInv, [Next]_vars
               PROVE  [Memory!Next]_<<[m \in DOMAIN table |-> table[m].value], created>>
    OBVIOUS
  <2>1. CASE UNCHANGED <<table, created>>
    BY <2>1
  <2>2. CASE \E c \in Calls : Committing(c)
    BY <2>2, CommitIsAnOperation
  <2>3. UNCHANGED <<table, created>> \/ \E c \in Calls : Committing(c)
    BY StepKinds, LookingEffect, WritingEffect, EndingEffect
      DEF Begin, vars, rows, ghosts, MemoryInv
  <2> QED BY <2>1, <2>2, <2>3
<1> QED BY <1>1, <1>2, Invariance, PTL DEF Spec, IsAMemoryStore, Memory!Spec
=============================================================================
