------------------------ MODULE SqlConnectionProofs ------------------------
(***************************************************************************)
(* Proofs about SqlConnection, for any calls, stores and bounds.           *)
(***************************************************************************)
EXTENDS SqlConnection, WellFoundedInduction, TLAPS

\* Between Acquire and the end of its thread and its await.
Inside(c) == pc[c] \in {"select", "insert", "commit", "return", "raise"}

\* Before its INSERT.
Early == {"new", "schema", "wait", "select", "insert"}

\* A call inside holds its store's lock, unless it was cut loose.
Locked == \A c \in Calls : Inside(c) /\ c \notin cut => lock[StoreOf[c]] = c

\* A call that has not inserted has no row.
Fresh == \A c \in Calls : pc[c] \in Early => \A r \in committed \cup pending : r[3] # c

\* Uncommitted rows belong to threads that are about to commit.
Owned == \A r \in pending : r[3] \in Calls /\ pc[r[3]] = "commit"

\* A number about to be inserted is at least 1.
Numbered == \A c \in Calls : pc[c] = "insert" => next[c] >= 1

\* No row is beyond some number, so MAX(seq) exists.
Bounded == \E b \in Nat : \A r \in committed \cup pending : r[2] <= b

\* The seqs of each store's rows in R have no gap and no double.
Gapless(R) ==
  \A r \in R : /\ \A k \in 1..r[2] : \E q \in R : q[1] = r[1] /\ q[2] = k
               /\ \A q \in R : q[1] = r[1] /\ q[2] = r[2] => q = r

\* While no two threads met: one runs at most, what it acknowledges is there,
\* and what it inserts is next in line.
Apart ==
  ~mixed =>
    /\ \A c, d \in Calls : Running(c) /\ Running(d) => c = d
    /\ AckedIsCommitted
    /\ \A c \in Calls : pc[c] = "return" => \E r \in committed : r[3] = c
    /\ \A c \in Calls : pc[c] = "commit" => \E r \in committed \cup pending : r[3] = c
    /\ Gapless(committed) /\ Gapless(committed \cup pending)
    /\ \A c \in Calls : pc[c] = "insert" =>
         \A k \in 1..(next[c] - 1) : \E r \in committed : r[1] = StoreOf[c] /\ r[2] = k

ConnInv ==
  TypeOK /\ Locked /\ Fresh /\ Owned /\ OncePerCall /\ Numbered /\ Bounded /\ Apart

-----------------------------------------------------------------------------
\* A bounded set of naturals has a maximum (0 if it is empty).
LEMMA BoundedHasMax ==
  ASSUME NEW S \in SUBSET Nat, NEW b \in Nat, \A k \in S : k <= b
  PROVE  \E n \in {0} \cup S : \A k \in S : k <= n
<1> DEFINE Bounds == {m \in Nat : \A k \in S : k <= m}
           R == OpToRel(<, Nat)
<1>1. IsWellFoundedOn(R, Nat)
  BY NatLessThanWellFounded, Zenon
<1>2. Bounds \subseteq Nat /\ Bounds # {}
  OBVIOUS
<1>3. PICK m \in Bounds : \A k \in Bounds : ~(<<k, m>> \in R)
  <2> HIDE DEF Bounds, R
  <2> QED BY <1>1, <1>2, WFMin
<1>4. \A k \in Bounds : ~(k < m)
  <2>1. \A k \in Nat : k < m => <<k, m>> \in R
    BY DEF OpToRel
  <2> QED BY <1>3, <2>1
<1>5. m = 0 \/ m - 1 \notin Bounds
  BY <1>4
<1>6. CASE m = 0
  BY <1>6
<1>7. CASE m # 0
  <2>1. m - 1 \in Nat
    BY <1>7
  <2>2. PICK k \in S : ~(k <= m - 1)
    BY <1>5, <1>7, <2>1
  <2>3. k = m
    BY <2>2
  <2> QED BY <2>3
<1> QED BY <1>6, <1>7

\* MAX(seq) is a natural, no row is above it, and it is a row's unless it is 0.
LEMMA TopFacts ==
  ASSUME TypeOK, Bounded, NEW s \in Stores
  PROVE  /\ Top(s) \in Nat /\ \A k \in Seqs(s) : k <= Top(s)
         /\ Top(s) = 0 \/ Top(s) \in Seqs(s)
<1>1. Seqs(s) \in SUBSET Nat
  BY DEF TypeOK, Rows, Seqs
<1>2. PICK b \in Nat : \A k \in Seqs(s) : k <= b
  BY DEF Bounded, Seqs
<1>3. \E n \in {0} \cup Seqs(s) : \A k \in Seqs(s) : k <= n
  BY <1>1, <1>2, BoundedHasMax
<1>4. Top(s) \in {0} \cup Seqs(s) /\ \A k \in Seqs(s) : k <= Top(s)
  BY <1>3 DEF Top
<1> QED BY <1>1, <1>4

LEMMA InitInv == Init => ConnInv
<1> SUFFICES ASSUME Init PROVE ConnInv
  OBVIOUS
<1>1. TypeOK
  <2>1. pc \in [Calls -> Places] /\ lock \in [Stores -> Calls \cup {None}]
    BY DEF Init, Places
  <2>2. attempt \in [Calls -> 0..MaxAttempts] /\ next \in [Calls -> Nat]
        /\ foreign \in 0..MaxForeign
    BY SqlConnectionAssumption DEF Init
  <2>3. committed \subseteq Rows /\ pending \subseteq Rows /\ initialized \subseteq Stores
        /\ cut \subseteq Calls /\ acked \subseteq Calls /\ mixed \in BOOLEAN
    BY DEF Init
  <2> QED BY <2>1, <2>2, <2>3 DEF TypeOK
<1>2. Locked /\ Fresh /\ Owned /\ OncePerCall /\ Numbered /\ Bounded
  BY DEF Init, Locked, Inside, Fresh, Owned, OncePerCall, Numbered, Bounded
<1>3. Apart
  BY DEF Init, Apart, Running, AckedIsCommitted, Gapless
<1> QED BY <1>1, <1>2, <1>3 DEF ConnInv

-----------------------------------------------------------------------------
\* Steps that leave the rows alone and bring no call further in.
LEMMA RowsStill ==
  ASSUME ConnInv, NEW c \in Calls, UNCHANGED <<committed, pending, mixed>>,
         \A d \in Calls \ {c} : pc'[d] = pc[d] /\ next'[d] = next[d],
         pc'[c] \in Early => pc[c] \in Early,
         pc'[c] = "commit" <=> pc[c] = "commit",
         pc'[c] = "return" => pc[c] = "return",
         Running(c)' => Running(c),
         pc'[c] = "insert" => pc[c] = "insert" /\ next'[c] = next[c],
         acked' = acked \/ (acked' = acked \cup {c} /\ pc[c] = "return")
  PROVE  Fresh' /\ Owned' /\ OncePerCall' /\ Numbered' /\ Bounded' /\ Apart'
<1>1. Fresh'
  BY DEF ConnInv, Fresh
<1>2. Owned'
  BY DEF ConnInv, Owned
<1>3. OncePerCall' /\ Numbered' /\ Bounded'
  BY DEF ConnInv, OncePerCall, Numbered, Bounded
<1>4. Apart'
  <2> SUFFICES ASSUME ~mixed' PROVE Apart'
    BY DEF Apart
  <2>1. ~mixed
    OBVIOUS
  <2>2. \A d, e \in Calls : Running(d)' /\ Running(e)' => d = e
    <3>1. \A d \in Calls : Running(d)' => Running(d)
      BY DEF Running
    <3> QED BY <2>1, <3>1 DEF ConnInv, Apart
  <2>3. AckedIsCommitted'
    BY <2>1 DEF ConnInv, Apart, AckedIsCommitted
  <2>4. \A d \in Calls : pc'[d] = "return" => \E r \in committed' : r[3] = d
    BY <2>1 DEF ConnInv, Apart
  <2>5. \A d \in Calls : pc'[d] = "commit" => \E r \in (committed \cup pending)' : r[3] = d
    BY <2>1 DEF ConnInv, Apart
  <2>6. Gapless(committed)' /\ Gapless(committed \cup pending)'
    BY <2>1 DEF ConnInv, Apart, Gapless
  <2>7. ASSUME NEW d \in Calls, pc'[d] = "insert"
        PROVE  \A k \in 1..(next'[d] - 1) :
                 \E r \in committed' : r[1] = StoreOf[d] /\ r[2] = k
    <3>1. pc[d] = "insert" /\ next'[d] = next[d]
      BY <2>7
    <3> QED BY <2>1, <3>1 DEF ConnInv, Apart
  <2> QED BY <2>2, <2>3, <2>4, <2>5, <2>6, <2>7 DEF Apart
<1> QED BY <1>1, <1>2, <1>3, <1>4

LEMMA BeginInv == ASSUME ConnInv, NEW c \in Calls, Begin(c) PROVE ConnInv'
<1>1. /\ pc[c] = "new" /\ pc'[c] \in {"wait", "schema"}
      /\ pc' \in [Calls -> Places]
      /\ \A d \in Calls \ {c} : pc'[d] = pc[d]
      /\ UNCHANGED <<committed, pending, foreign, initialized, lock, cut, attempt, next, acked, mixed>>
  BY DEF Begin, At, ConnInv, TypeOK, Places, rows, locals
<1>2. TypeOK'
  BY <1>1 DEF ConnInv, TypeOK
<1>3. Locked'
  BY <1>1 DEF ConnInv, Locked, Inside
<1> QED BY <1>1, <1>2, <1>3, RowsStill DEF ConnInv, Running, Early

LEMMA SchemaFailsInv == ASSUME ConnInv, NEW c \in Calls, SchemaFails(c) PROVE ConnInv'
<1>1. /\ pc[c] = "schema" /\ pc'[c] = "done"
      /\ pc' \in [Calls -> Places]
      /\ \A d \in Calls \ {c} : pc'[d] = pc[d] /\ next'[d] = next[d]
      /\ cut' = cut \ {c}
      /\ UNCHANGED <<committed, pending, foreign, initialized, lock, acked, mixed>>
  BY DEF SchemaFails, Over, At, ConnInv, TypeOK, Places, rows
<1>2. TypeOK'
  <2>1. attempt' \in [Calls -> 0..MaxAttempts] /\ next' \in [Calls -> Nat]
    BY SqlConnectionAssumption DEF SchemaFails, Over, ConnInv, TypeOK
  <2> QED BY <1>1, <2>1 DEF ConnInv, TypeOK
<1>3. Locked'
  BY <1>1 DEF ConnInv, Locked, Inside
<1> QED BY <1>1, <1>2, <1>3, RowsStill DEF ConnInv, Running, Early

LEMMA ReturnInv == ASSUME ConnInv, NEW c \in Calls, Return(c) PROVE ConnInv'
<1>1. /\ pc[c] \in {"return", "raise"} /\ pc'[c] = "done"
      /\ pc' \in [Calls -> Places]
      /\ \A d \in Calls \ {c} : pc'[d] = pc[d] /\ next'[d] = next[d]
      /\ cut' = cut \ {c}
      /\ acked' = acked \/ (acked' = acked \cup {c} /\ pc[c] = "return")
      /\ UNCHANGED <<committed, pending, foreign, initialized, mixed>>
  BY DEF Return, Over, At, ConnInv, TypeOK, Places, rows
<1>2. lock' \in [Stores -> Calls \cup {None}]
      /\ \A s \in Stores : lock[s] # c => lock'[s] = lock[s]
  BY DEF Return, Unlocked, ConnInv, TypeOK
<1>3. TypeOK'
  <2>1. attempt' \in [Calls -> 0..MaxAttempts] /\ next' \in [Calls -> Nat]
    BY SqlConnectionAssumption DEF Return, Over, ConnInv, TypeOK
  <2> QED BY <1>1, <1>2, <2>1 DEF ConnInv, TypeOK
<1>4. Locked'
  BY <1>1, <1>2, SqlConnectionAssumption DEF ConnInv, Locked, Inside
<1> QED BY <1>1, <1>3, <1>4, RowsStill DEF ConnInv, Running, Early

LEMMA CancelInv == ASSUME ConnInv, NEW c \in Calls, Cancel(c) PROVE ConnInv'
<1>1. lock' \in [Stores -> Calls \cup {None}]
      /\ \A s \in Stores : lock[s] # c => lock'[s] = lock[s]
  BY DEF Cancel, Unlocked, ConnInv, TypeOK
<1>2. UNCHANGED <<committed, pending, foreign, initialized, acked, mixed>>
  BY DEF Cancel, Abandon, rows
<1>3. CASE cut' = cut \cup {c} /\ UNCHANGED <<pc, locals>>
  <2>1. UNCHANGED <<pc, attempt, next>>
    BY <1>3 DEF locals
  <2>2. TypeOK'
    BY <1>1, <1>2, <1>3, <2>1 DEF ConnInv, TypeOK
  <2>3. Locked'
    BY <1>1, <1>3, <2>1, SqlConnectionAssumption DEF ConnInv, Locked, Inside
  <2> QED BY <1>2, <2>1, <2>2, <2>3, RowsStill DEF ConnInv, Running
<1>4. CASE pc[c] \in {"schema", "wait", "return", "raise", "select"} /\ Over(c)
  <2>1. /\ pc'[c] = "done" /\ pc' \in [Calls -> Places]
        /\ \A d \in Calls \ {c} : pc'[d] = pc[d] /\ next'[d] = next[d]
        /\ cut' = cut \ {c}
    BY <1>4 DEF Over, At, ConnInv, TypeOK, Places
  <2>2. attempt' \in [Calls -> 0..MaxAttempts] /\ next' \in [Calls -> Nat]
    BY <1>4, SqlConnectionAssumption DEF Over, ConnInv, TypeOK
  <2>3. TypeOK'
    BY <1>1, <1>2, <2>1, <2>2 DEF ConnInv, TypeOK
  <2>4. Locked'
    BY <1>1, <2>1, SqlConnectionAssumption DEF ConnInv, Locked, Inside
  <2> QED BY <1>2, <1>4, <2>1, <2>3, <2>4, RowsStill DEF ConnInv, Running, Early
<1> QED BY <1>3, <1>4 DEF Cancel, Abandon

-----------------------------------------------------------------------------
\* Steps that commit what is pending.
LEMMA RowsFlushed ==
  ASSUME ConnInv, NEW c \in Calls,
         committed' = committed \cup pending, pending' = {}, UNCHANGED <<acked, mixed>>,
         \A d \in Calls \ {c} : pc'[d] = pc[d] /\ next'[d] = next[d],
         pc'[c] \in Early => pc[c] \in Early,
         pc'[c] = "return" => pc[c] = "commit",
         ~Running(c)'
  PROVE  Fresh' /\ Owned' /\ OncePerCall' /\ Numbered' /\ Bounded' /\ Apart'
<1>0. (committed \cup pending)' = committed \cup pending
  OBVIOUS
<1>1. Fresh' /\ Owned' /\ OncePerCall' /\ Numbered' /\ Bounded'
  BY <1>0 DEF ConnInv, Fresh, Owned, OncePerCall, Numbered, Bounded, Running
<1>2. Apart'
  <2> SUFFICES ASSUME ~mixed' PROVE Apart'
    BY DEF Apart
  <2>1. ~mixed
    OBVIOUS
  <2>2. \A d, e \in Calls : Running(d)' /\ Running(e)' => d = e
    <3>1. \A d \in Calls : Running(d)' => Running(d)
      BY DEF Running
    <3> QED BY <2>1, <3>1 DEF ConnInv, Apart
  <2>3. AckedIsCommitted'
    BY <2>1 DEF ConnInv, Apart, AckedIsCommitted
  <2>4. ASSUME NEW d \in Calls, pc'[d] = "return" PROVE \E r \in committed' : r[3] = d
    <3>1. CASE d = c
      BY <2>1, <2>4, <3>1 DEF ConnInv, Apart
    <3>2. CASE d # c
      BY <2>1, <2>4, <3>2 DEF ConnInv, Apart
    <3> QED BY <3>1, <3>2
  <2>5. ASSUME NEW d \in Calls, pc'[d] = "commit"
        PROVE  \E r \in (committed \cup pending)' : r[3] = d
    <3>1. pc[d] = "commit"
      BY <2>5 DEF Running
    <3> QED BY <1>0, <2>1, <3>1 DEF ConnInv, Apart
  <2>6. Gapless(committed)' /\ Gapless(committed \cup pending)'
    <3>1. Gapless(committed \cup pending)
      BY <2>1 DEF ConnInv, Apart
    <3> QED BY <1>0, <3>1 DEF Gapless
  <2>7. ASSUME NEW d \in Calls, pc'[d] = "insert"
        PROVE  \A k \in 1..(next'[d] - 1) :
                 \E r \in committed' : r[1] = StoreOf[d] /\ r[2] = k
    <3>1. pc[d] = "insert" /\ next'[d] = next[d]
      BY <2>7 DEF Running
    <3> QED BY <2>1, <3>1 DEF ConnInv, Apart
  <2> QED BY <2>2, <2>3, <2>4, <2>5, <2>6, <2>7 DEF Apart
<1> QED BY <1>1, <1>2

LEMMA SchemaInv == ASSUME ConnInv, NEW c \in Calls, Schema(c) PROVE ConnInv'
<1>1. /\ pc[c] = "schema" /\ pc'[c] \in {"done", "wait"}
      /\ pc' \in [Calls -> Places]
      /\ \A d \in Calls \ {c} : pc'[d] = pc[d] /\ next'[d] = next[d]
      /\ cut' = cut \/ cut' = cut \ {c}
      /\ committed' = committed \cup pending /\ pending' = {}
      /\ UNCHANGED <<foreign, lock, acked, mixed>>
  BY DEF Schema, Over, At, ConnInv, TypeOK, Places, locals
<1>2. TypeOK'
  <2>1. attempt' \in [Calls -> 0..MaxAttempts] /\ next' \in [Calls -> Nat]
    BY SqlConnectionAssumption DEF Schema, Over, ConnInv, TypeOK, locals
  <2>2. initialized' \subseteq Stores
    BY SqlConnectionAssumption DEF Schema, ConnInv, TypeOK
  <2> QED BY <1>1, <2>1, <2>2 DEF ConnInv, TypeOK
<1>3. Locked'
  BY <1>1 DEF ConnInv, Locked, Inside
<1> QED BY <1>1, <1>2, <1>3, RowsFlushed DEF ConnInv, Running, Early

LEMMA CommitInv == ASSUME ConnInv, NEW c \in Calls, Commit(c) PROVE ConnInv'
<1>1. /\ pc[c] = "commit" /\ pc'[c] = "return"
      /\ pc' \in [Calls -> Places]
      /\ \A d \in Calls \ {c} : pc'[d] = pc[d]
      /\ committed' = committed \cup pending /\ pending' = {}
      /\ UNCHANGED <<foreign, initialized, lock, cut, attempt, next, acked, mixed>>
  BY DEF Commit, At, ConnInv, TypeOK, Places, locals
<1>2. TypeOK'
  BY <1>1 DEF ConnInv, TypeOK
<1>3. Locked'
  BY <1>1 DEF ConnInv, Locked, Inside
<1> QED BY <1>1, <1>2, <1>3, RowsFlushed DEF ConnInv, Running, Early

\* Steps of a thread that roll back what is pending.
LEMMA RowsDropped ==
  ASSUME ConnInv, NEW c \in Calls, Running(c),
         pending' = {}, UNCHANGED <<committed, next, acked, mixed>>,
         \A d \in Calls \ {c} : pc'[d] = pc[d],
         \/ pc'[c] = "raise"
         \/ pc'[c] = "select" /\ pc[c] = "insert"
  PROVE  Fresh' /\ Owned' /\ OncePerCall' /\ Numbered' /\ Bounded' /\ Apart'
<1>1. Fresh' /\ Owned' /\ OncePerCall' /\ Numbered' /\ Bounded'
  <2>1. \A d \in Calls : pc'[d] \in Early => pc[d] \in Early
    BY DEF Early
  <2> QED BY <2>1 DEF ConnInv, Fresh, Owned, OncePerCall, Numbered, Bounded
<1>2. Apart'
  <2> SUFFICES ASSUME ~mixed' PROVE Apart'
    BY DEF Apart
  <2>1. ~mixed
    OBVIOUS
  <2>2. \A d \in Calls : Running(d)' => Running(d)
    BY DEF Running
  <2>3. \A d \in Calls : Running(d) => d = c
    BY <2>1 DEF ConnInv, Apart
  <2>4. AckedIsCommitted'
    BY <2>1 DEF ConnInv, Apart, AckedIsCommitted
  <2>5. \A d \in Calls : pc'[d] = "return" => \E r \in committed' : r[3] = d
    BY <2>1 DEF ConnInv, Apart
  <2>6. \A d \in Calls : pc'[d] \notin {"commit", "insert"}
    <3>1. \A d \in Calls : pc'[d] \in {"commit", "insert"} => d = c
      BY <2>2, <2>3 DEF Running
    <3> QED BY <3>1
  <2>7. Gapless(committed)' /\ Gapless(committed \cup pending)'
    <3>1. Gapless(committed) /\ (committed \cup pending)' = committed
      BY <2>1 DEF ConnInv, Apart
    <3> QED BY <3>1 DEF Gapless
  <2> QED BY <2>2, <2>3, <2>4, <2>5, <2>6, <2>7 DEF Apart
<1> QED BY <1>1, <1>2

LEMMA AbortInv == ASSUME ConnInv, NEW c \in Calls, Abort(c) PROVE ConnInv'
<1>1. /\ Running(c) /\ pc'[c] = "raise"
      /\ pc' \in [Calls -> Places]
      /\ \A d \in Calls \ {c} : pc'[d] = pc[d]
      /\ pending' = {}
      /\ UNCHANGED <<committed, foreign, initialized, lock, cut, attempt, next, acked, mixed>>
  BY DEF Abort, At, ConnInv, TypeOK, Places, locals
<1>2. TypeOK'
  BY <1>1 DEF ConnInv, TypeOK
<1>3. Locked'
  BY <1>1 DEF ConnInv, Locked, Inside, Running
<1> QED BY <1>1, <1>2, <1>3, RowsDropped DEF ConnInv

LEMMA CollideInv == ASSUME ConnInv, NEW c \in Calls, Collide(c) PROVE ConnInv'
<1>1. /\ Running(c) /\ pc[c] = "insert" /\ pc'[c] \in {"select", "raise"}
      /\ pc' \in [Calls -> Places]
      /\ \A d \in Calls \ {c} : pc'[d] = pc[d]
      /\ pending' = {}
      /\ UNCHANGED <<committed, foreign, initialized, lock, cut, next, acked, mixed>>
  BY DEF Collide, CollideUpTo, At, ConnInv, TypeOK, Places, Running
<1>2. TypeOK'
  <2>1. attempt' \in [Calls -> 0..MaxAttempts]
    BY SqlConnectionAssumption DEF Collide, CollideUpTo, ConnInv, TypeOK
  <2> QED BY <1>1, <2>1 DEF ConnInv, TypeOK
<1>3. Locked'
  BY <1>1 DEF ConnInv, Locked, Inside
<1> QED BY <1>1, <1>2, <1>3, RowsDropped DEF ConnInv

-----------------------------------------------------------------------------
\* While threads stay apart, a thread that has not inserted sees nothing pending.
LEMMA NothingPending ==
  ASSUME ConnInv, ~mixed, NEW c \in Calls, pc[c] \in {"select", "insert"}
  PROVE  pending = {}
<1> SUFFICES ASSUME NEW r \in pending PROVE FALSE
  OBVIOUS
<1>1. r[3] \in Calls /\ pc[r[3]] = "commit"
  BY DEF ConnInv, Owned
<1>2. Running(c) /\ Running(r[3])
  BY <1>1 DEF Running
<1> QED BY <1>1, <1>2 DEF ConnInv, Apart

\* The seqs up to MAX(seq) are taken.
LEMMA TakenToTop ==
  ASSUME TypeOK, Bounded, Gapless(committed), pending = {}, NEW s \in Stores,
         NEW k \in 1..Top(s)
  PROVE  \E r \in committed : r[1] = s /\ r[2] = k
<1>1. Top(s) \in Nat /\ Top(s) # 0 /\ Top(s) \in Seqs(s)
  BY TopFacts
<1>2. PICK r \in committed : r[1] = s /\ r[2] = Top(s)
  BY <1>1 DEF Seqs
<1> QED BY <1>2 DEF Gapless

\* A row that is next in line leaves no gap and no double.
LEMMA NextInLine ==
  ASSUME NEW R, Gapless(R), NEW x, x[2] \in Nat,
         \A r \in R : r[2] \in Nat,
         \A k \in 1..(x[2] - 1) : \E r \in R : r[1] = x[1] /\ r[2] = k,
         \A r \in R : r[1] = x[1] => r[2] # x[2]
  PROVE  Gapless(R \cup {x})
<1> SUFFICES ASSUME NEW r \in R \cup {x}
             PROVE  /\ \A k \in 1..r[2] : \E q \in R \cup {x} : q[1] = r[1] /\ q[2] = k
                    /\ \A q \in R \cup {x} : q[1] = r[1] /\ q[2] = r[2] => q = r
  BY DEF Gapless
<1>1. CASE r \in R
  BY <1>1 DEF Gapless
<1>2. CASE r = x
  <2>1. ASSUME NEW k \in 1..x[2] PROVE \E q \in R \cup {x} : q[1] = x[1] /\ q[2] = k
    <3>1. k = x[2] \/ k \in 1..(x[2] - 1)
      OBVIOUS
    <3> QED BY <3>1
  <2> QED BY <1>2, <2>1
<1> QED BY <1>1, <1>2

LEMMA SelectNextInv == ASSUME ConnInv, NEW c \in Calls, SelectNext(c) PROVE ConnInv'
<1>1. /\ pc[c] = "select" /\ pc'[c] = "insert"
      /\ pc' \in [Calls -> Places]
      /\ \A d \in Calls \ {c} : pc'[d] = pc[d]
      /\ next' = [next EXCEPT ![c] = Top(StoreOf[c]) + 1]
      /\ UNCHANGED <<committed, pending, foreign, initialized, lock, cut, attempt, acked, mixed>>
  BY DEF SelectNext, At, ConnInv, TypeOK, Places, rows
<1>2. StoreOf[c] \in Stores /\ Top(StoreOf[c]) \in Nat
  BY SqlConnectionAssumption, TopFacts DEF ConnInv
<1>3. /\ next' \in [Calls -> Nat] /\ next'[c] = Top(StoreOf[c]) + 1
      /\ \A d \in Calls \ {c} : next'[d] = next[d]
  BY <1>1, <1>2 DEF ConnInv, TypeOK
<1>4. TypeOK'
  BY <1>1, <1>3 DEF ConnInv, TypeOK
<1>5. Locked'
  BY <1>1 DEF ConnInv, Locked, Inside
<1>6. Fresh' /\ Owned' /\ OncePerCall' /\ Bounded'
  BY <1>1 DEF ConnInv, Fresh, Early, Owned, OncePerCall, Bounded
<1>7. Numbered'
  BY <1>1, <1>2, <1>3 DEF ConnInv, Numbered
<1>8. Apart'
  <2> SUFFICES ASSUME ~mixed' PROVE Apart'
    BY DEF Apart
  <2>1. ~mixed
    BY <1>1
  <2>2. \A d, e \in Calls : Running(d)' /\ Running(e)' => d = e
    <3>1. \A d \in Calls : Running(d)' => Running(d)
      BY <1>1 DEF Running
    <3> QED BY <2>1, <3>1 DEF ConnInv, Apart
  <2>3. AckedIsCommitted' /\ Gapless(committed)' /\ Gapless(committed \cup pending)'
    BY <1>1, <2>1 DEF ConnInv, Apart, AckedIsCommitted, Gapless
  <2>4. /\ \A d \in Calls : pc'[d] = "return" => \E r \in committed' : r[3] = d
        /\ \A d \in Calls : pc'[d] = "commit" => \E r \in (committed \cup pending)' : r[3] = d
    BY <1>1, <2>1 DEF ConnInv, Apart
  <2>5. ASSUME NEW d \in Calls, pc'[d] = "insert"
        PROVE  \A k \in 1..(next'[d] - 1) :
                 \E r \in committed' : r[1] = StoreOf[d] /\ r[2] = k
    <3>1. CASE d = c
      <4>1. pending = {} /\ Gapless(committed)
        BY <1>1, <2>1, NothingPending DEF ConnInv, Apart
      <4>2. \A k \in 1..Top(StoreOf[c]) :
              \E r \in committed : r[1] = StoreOf[c] /\ r[2] = k
        BY <1>2, <4>1, TakenToTop DEF ConnInv
      <4> QED BY <1>1, <1>2, <1>3, <3>1, <4>2
    <3>2. CASE d # c
      BY <1>1, <1>3, <2>1, <2>5, <3>2 DEF ConnInv, Apart
    <3> QED BY <3>1, <3>2
  <2> QED BY <2>2, <2>3, <2>4, <2>5 DEF Apart
<1> QED BY <1>4, <1>5, <1>6, <1>7, <1>8 DEF ConnInv

LEMMA InsertInv == ASSUME ConnInv, NEW c \in Calls, Insert(c) PROVE ConnInv'
<1> DEFINE x == <<StoreOf[c], next[c], c>>
<1>1. /\ pc[c] = "insert" /\ pc'[c] = "commit" /\ next[c] \notin Seqs(StoreOf[c])
      /\ pc' \in [Calls -> Places]
      /\ \A d \in Calls \ {c} : pc'[d] = pc[d]
      /\ pending' = pending \cup {x}
      /\ UNCHANGED <<committed, foreign, initialized, lock, cut, attempt, next, acked, mixed>>
  BY DEF Insert, At, ConnInv, TypeOK, Places, locals
<1>2. /\ StoreOf[c] \in Stores /\ next[c] \in Nat \ {0}
      /\ x[1] = StoreOf[c] /\ x[2] = next[c] /\ x[3] = c
  BY <1>1, SqlConnectionAssumption DEF ConnInv, TypeOK, Numbered
<1>3. \A r \in committed \cup pending : r[2] \in Nat
  BY DEF ConnInv, TypeOK, Rows
<1>4. TypeOK'
  <2>1. x \in Rows
    BY <1>2 DEF Rows
  <2> HIDE DEF x
  <2> QED BY <1>1, <2>1 DEF ConnInv, TypeOK
<1> HIDE DEF x
<1>5. Locked'
  BY <1>1 DEF ConnInv, Locked, Inside
<1>6. Fresh'
  <2>1. \A d \in Calls : pc'[d] \in Early => d # c /\ pc[d] \in Early
    BY <1>1 DEF Early
  <2> QED BY <1>1, <1>2, <2>1 DEF ConnInv, Fresh
<1>7. Owned'
  BY <1>1, <1>2 DEF ConnInv, Owned
<1>8. OncePerCall'
  <2>1. \A r \in committed \cup pending : r[3] # c
    BY <1>1 DEF ConnInv, Fresh, Early
  <2> QED BY <1>1, <1>2, <2>1 DEF ConnInv, OncePerCall
<1>9. Numbered'
  BY <1>1 DEF ConnInv, Numbered
<1>10. Bounded'
  <2>1. PICK b \in Nat : \A r \in committed \cup pending : r[2] <= b
    BY DEF ConnInv, Bounded
  <2>2. b + next[c] \in Nat /\ \A r \in (committed \cup pending)' : r[2] <= b + next[c]
    BY <1>1, <1>2, <1>3, <2>1
  <2> QED BY <2>2 DEF Bounded
<1>11. Apart'
  <2> SUFFICES ASSUME ~mixed' PROVE Apart'
    BY DEF Apart
  <2>1. ~mixed /\ pending = {} /\ (committed \cup pending)' = committed \cup {x}
    BY <1>1, NothingPending
  <2>2. \A d, e \in Calls : Running(d)' /\ Running(e)' => d = e
    <3>1. \A d \in Calls : Running(d)' => Running(d)
      BY <1>1 DEF Running
    <3> QED BY <2>1, <3>1 DEF ConnInv, Apart
  <2>3. AckedIsCommitted' /\ Gapless(committed)'
    BY <1>1, <2>1 DEF ConnInv, Apart, AckedIsCommitted, Gapless
  <2>4. \A d \in Calls : pc'[d] = "return" => \E r \in committed' : r[3] = d
    BY <1>1, <2>1 DEF ConnInv, Apart
  <2>5. \A d \in Calls : pc'[d] = "commit" => \E r \in (committed \cup pending)' : r[3] = d
    <3>1. \A d \in Calls : pc'[d] = "commit" => d = c
      BY <1>1, <2>2 DEF Running
    <3> QED BY <1>2, <2>1, <3>1
  <2>6. Gapless(committed \cup pending)'
    <3>1. Gapless(committed)
          /\ \A k \in 1..(x[2] - 1) : \E r \in committed : r[1] = x[1] /\ r[2] = k
      BY <1>1, <1>2, <2>1 DEF ConnInv, Apart
    <3>2. \A r \in committed : r[1] = x[1] => r[2] # x[2]
      BY <1>1, <1>2 DEF Seqs
    <3>3. Gapless(committed \cup {x})
      BY <1>2, <1>3, <3>1, <3>2, NextInLine
    <3> QED BY <2>1, <3>3 DEF Gapless
  <2>7. ASSUME NEW d \in Calls, pc'[d] = "insert" PROVE FALSE
    BY <1>1, <2>2, <2>7 DEF Running
  <2> QED BY <2>2, <2>3, <2>4, <2>5, <2>6, <2>7 DEF Apart
<1> QED BY <1>4, <1>5, <1>6, <1>7, <1>8, <1>9, <1>10, <1>11 DEF ConnInv

LEMMA AcquireInv == ASSUME ConnInv, NEW c \in Calls, Acquire(c) PROVE ConnInv'
<1>1. /\ lock[StoreOf[c]] = None /\ pc[c] = "wait" /\ pc'[c] = "select"
      /\ pc' \in [Calls -> Places]
      /\ \A d \in Calls \ {c} : pc'[d] = pc[d]
      /\ mixed' = (mixed \/ \E d \in Calls : Running(d))
      /\ UNCHANGED <<committed, pending, foreign, initialized, cut, next, acked>>
  BY DEF Acquire, Enter, At, ConnInv, TypeOK, Places, rows
<1>2. /\ StoreOf[c] \in Stores
      /\ lock' \in [Stores -> Calls \cup {None}] /\ lock'[StoreOf[c]] = c
      /\ \A s \in Stores : s # StoreOf[c] => lock'[s] = lock[s]
  BY SqlConnectionAssumption DEF Acquire, Enter, ConnInv, TypeOK
<1>3. TypeOK'
  <2>1. attempt' \in [Calls -> 0..MaxAttempts]
    BY SqlConnectionAssumption DEF Acquire, Enter, ConnInv, TypeOK
  <2>2. mixed' \in BOOLEAN
    BY <1>1
  <2> QED BY <1>1, <1>2, <2>1, <2>2 DEF ConnInv, TypeOK
<1>4. Locked'
  <2> SUFFICES ASSUME NEW d \in Calls, Inside(d)', d \notin cut'
               PROVE  lock'[StoreOf[d]] = d
    BY DEF Locked
  <2>1. CASE d = c
    BY <1>2, <2>1
  <2>2. CASE d # c
    <3>1. Inside(d) /\ lock[StoreOf[d]] = d /\ StoreOf[d] \in Stores
      BY <1>1, <2>2, SqlConnectionAssumption DEF ConnInv, Locked, Inside
    <3>2. StoreOf[d] # StoreOf[c]
      BY <1>1, <3>1, SqlConnectionAssumption
    <3> QED BY <1>2, <3>1, <3>2
  <2> QED BY <2>1, <2>2
<1>5. Fresh' /\ Owned' /\ OncePerCall' /\ Numbered' /\ Bounded'
  BY <1>1 DEF ConnInv, Fresh, Early, Owned, OncePerCall, Numbered, Bounded
<1>6. Apart'
  <2> SUFFICES ASSUME ~mixed' PROVE Apart'
    BY DEF Apart
  <2>1. ~mixed /\ \A d \in Calls : ~Running(d)
    BY <1>1
  <2>2. \A d \in Calls : Running(d)' => d = c
    BY <1>1, <2>1 DEF Running
  <2>3. AckedIsCommitted' /\ Gapless(committed)' /\ Gapless(committed \cup pending)'
    BY <1>1, <2>1 DEF ConnInv, Apart, AckedIsCommitted, Gapless
  <2>4. \A d \in Calls : pc'[d] = "return" => \E r \in committed' : r[3] = d
    BY <1>1, <2>1 DEF ConnInv, Apart
  <2>5. \A d \in Calls : pc'[d] \notin {"commit", "insert"}
    <3>1. \A d \in Calls : pc'[d] \in {"commit", "insert"} => d = c
      BY <2>2 DEF Running
    <3> QED BY <1>1, <3>1
  <2> QED BY <2>2, <2>3, <2>4, <2>5 DEF Apart
<1> QED BY <1>3, <1>4, <1>5, <1>6 DEF ConnInv

LEMMA ForeignInv == ASSUME ConnInv, NEW s \in Stores, ForeignCommit(s) PROVE ConnInv'
<1> DEFINE x == <<s, Top(s) + 1, None>>
<1>1. /\ pending = {} /\ foreign < MaxForeign /\ foreign' = foreign + 1
      /\ committed' = committed \cup {x}
      /\ UNCHANGED <<pending, initialized, lock, pc, cut, attempt, next, acked, mixed>>
  BY DEF ForeignCommit, locals
<1>2. /\ Top(s) \in Nat /\ \A k \in Seqs(s) : k <= Top(s)
      /\ x[1] = s /\ x[2] = Top(s) + 1 /\ x[3] = None
  BY TopFacts DEF ConnInv
<1>3. /\ \A r \in committed : r[2] \in Nat
      /\ \A r \in committed : r[1] = s => r[2] <= Top(s)
  BY <1>2 DEF ConnInv, TypeOK, Rows, Seqs
<1>4. TypeOK'
  <2>1. x \in Rows
    BY <1>2 DEF Rows
  <2>2. foreign' \in 0..MaxForeign
    BY <1>1, SqlConnectionAssumption DEF ConnInv, TypeOK
  <2> HIDE DEF x
  <2> QED BY <1>1, <2>1, <2>2 DEF ConnInv, TypeOK
<1> HIDE DEF x
<1>5. Locked' /\ Owned' /\ Numbered'
  BY <1>1 DEF ConnInv, Locked, Inside, Owned, Numbered
<1>6. Fresh' /\ OncePerCall'
  BY <1>1, <1>2, SqlConnectionAssumption DEF ConnInv, Fresh, OncePerCall
<1>7. Bounded'
  <2>1. PICK b \in Nat : \A r \in committed \cup pending : r[2] <= b
    BY DEF ConnInv, Bounded
  <2>2. b + Top(s) + 1 \in Nat
        /\ \A r \in (committed \cup pending)' : r[2] <= b + Top(s) + 1
    BY <1>1, <1>2, <1>3, <2>1
  <2> QED BY <2>2 DEF Bounded
<1>8. Apart'
  <2> SUFFICES ASSUME ~mixed' PROVE Apart'
    BY DEF Apart
  <2>1. ~mixed /\ (committed \cup pending)' = committed'
    BY <1>1
  <2>2. \A d, e \in Calls : Running(d)' /\ Running(e)' => d = e
    BY <1>1, <2>1 DEF ConnInv, Apart, Running
  <2>3. Gapless(committed) /\ AckedIsCommitted
    BY <2>1 DEF ConnInv, Apart
  <2>4. AckedIsCommitted'
    BY <1>1, <2>3 DEF AckedIsCommitted
  <2>5. /\ \A d \in Calls : pc'[d] = "return" => \E r \in committed' : r[3] = d
        /\ \A d \in Calls : pc'[d] = "commit" => \E r \in (committed \cup pending)' : r[3] = d
    BY <1>1, <2>1 DEF ConnInv, Apart
  <2>6. Gapless(committed)' /\ Gapless(committed \cup pending)'
    <3>1. \A k \in 1..(x[2] - 1) : \E r \in committed : r[1] = x[1] /\ r[2] = k
      <4>1. \A k \in 1..Top(s) : \E r \in committed : r[1] = s /\ r[2] = k
        BY <1>1, <2>3, TakenToTop DEF ConnInv
      <4> QED BY <1>2, <4>1
    <3>2. \A r \in committed : r[1] = x[1] => r[2] # x[2]
      BY <1>2, <1>3
    <3>3. Gapless(committed \cup {x})
      BY <1>2, <1>3, <2>3, <3>1, <3>2, NextInLine
    <3> QED BY <1>1, <2>1, <3>3 DEF Gapless
  <2>7. \A d \in Calls : pc'[d] = "insert" =>
          \A k \in 1..(next'[d] - 1) : \E r \in committed' : r[1] = StoreOf[d] /\ r[2] = k
    BY <1>1, <2>1 DEF ConnInv, Apart
  <2> QED BY <2>2, <2>4, <2>5, <2>6, <2>7 DEF Apart
<1> QED BY <1>4, <1>5, <1>6, <1>7, <1>8 DEF ConnInv

-----------------------------------------------------------------------------
LEMMA StepInv == ConnInv /\ [Next]_vars => ConnInv'
<1> SUFFICES ASSUME ConnInv, [Next]_vars PROVE ConnInv'
  OBVIOUS
<1>1. CASE UNCHANGED vars
  BY <1>1 DEF vars, ConnInv, TypeOK, Locked, Inside, Fresh, Owned, OncePerCall,
     Numbered, Bounded, Apart, Running, AckedIsCommitted, Gapless
<1>2. ASSUME NEW c \in Calls, Begin(c) \/ Schema(c) \/ SchemaFails(c) \/ Acquire(c)
      PROVE  ConnInv'
  BY <1>2, BeginInv, SchemaInv, SchemaFailsInv, AcquireInv
<1>3. ASSUME NEW c \in Calls, Statement(c) \/ Abort(c) \/ Return(c) \/ Cancel(c)
      PROVE  ConnInv'
  BY <1>3, SelectNextInv, InsertInv, CollideInv, CommitInv, AbortInv, ReturnInv,
     CancelInv DEF Statement
<1>4. ASSUME NEW s \in Stores, ForeignCommit(s) PROVE ConnInv'
  BY <1>4, ForeignInv
<1> QED BY <1>1, <1>2, <1>3, <1>4 DEF Next

\* The inductive invariant holds of every state.
THEOREM Invariant == Spec => []ConnInv
BY InitInv, StepInv, PTL DEF Spec

\* Every variable keeps its type: MAX(seq) is a number whatever rolls back.
THEOREM TypeCorrect == Spec => []TypeOK
<1>1. ConnInv => TypeOK
  BY DEF ConnInv
<1> QED BY <1>1, Invariant, PTL

\* The lock keeps the threads of a store apart, but for those cut loose.
THEOREM KeptApartHolds == Spec => []KeptApart
<1>1. ConnInv => KeptApart
  <2> SUFFICES ASSUME ConnInv, NEW c \in Calls, NEW d \in Calls, StoreOf[c] = StoreOf[d],
                      Running(c), Running(d), c \notin cut, d \notin cut
               PROVE  c = d
    BY DEF KeptApart
  <2>1. lock[StoreOf[c]] = c /\ lock[StoreOf[d]] = d
    BY DEF ConnInv, Locked, Inside, Running
  <2> QED BY <2>1
<1> QED BY <1>1, Invariant, PTL

\* Nothing acknowledged is lost, and no seq is skipped or used twice, as long as
\* no two threads met inside _run.
THEOREM SafeKeptApartHolds == Spec => []SafeKeptApart
<1>1. ConnInv => SafeKeptApart
  <2> SUFFICES ASSUME ConnInv, ~mixed PROVE AckedIsCommitted /\ Dense
    BY DEF SafeKeptApart
  <2>1. AckedIsCommitted /\ Gapless(committed)
    BY DEF ConnInv, Apart
  <2>2. Dense
    BY <2>1 DEF Dense, Gapless
  <2> QED BY <2>1, <2>2
<1> QED BY <1>1, Invariant, PTL

\* A call leaves one row at most, whatever mixes.
THEOREM OncePerCallHolds == Spec => []OncePerCall
<1>1. ConnInv => OncePerCall
  BY DEF ConnInv
<1> QED BY <1>1, Invariant, PTL

\* A transaction is open only while a thread is about to commit it.
THEOREM NothingLeftOpenHolds == Spec => []NothingLeftOpen
<1>1. ConnInv => NothingLeftOpen
  BY DEF ConnInv, Owned, NothingLeftOpen
<1> QED BY <1>1, Invariant, PTL
=============================================================================
