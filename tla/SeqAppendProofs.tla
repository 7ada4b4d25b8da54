-------------------------- MODULE SeqAppendProofs --------------------------
(***************************************************************************)
(* Proofs about SeqAppend, for any number of writers, attempts and         *)
(* appends, and for databases with and without pinned snapshots.           *)
(***************************************************************************)
EXTENDS SeqAppend, TLAPS

\* The attempt a snapshot that was open before the call can waste.
Stale == IF Snapshots THEN 1 ELSE 0

\* What a writer knows of the table at each point of append().
WriterInv(w) ==
  /\ view[w] <= Top
  /\ pc[w] # "idle" => attempt[w] >= 1 /\ base[w] <= Top /\ started[w] >= 1
  /\ ~Snapshots \/ (pc[w] = "select" /\ attempt[w] > 1) => view[w] = NoView
  /\ pc[w] = "select" /\ attempt[w] > 1 => Top >= base[w] + attempt[w] - 1 - Stale
  /\ pc[w] = "insert" => 1 <= next[w] /\ next[w] <= Top + 1
  /\ pc[w] = "insert" /\ (~Snapshots \/ attempt[w] > 1) =>
       next[w] >= base[w] + attempt[w] - Stale
  /\ pc[w] = "gaveup" => Top >= base[w] + MaxAttempts - Stale
  /\ pc[w] = "commit" => next[w] = Top + 1
  /\ pc[w] = "return" => \E k \in DOMAIN table : table[k] = Entry(w)

\* The unique index lets one uncommitted row in at a time: all claim Top + 1.
OneCommits == \A v, w \in Writers : pc[v] = "commit" /\ pc[w] = "commit" => v = w

\* A row, or an acknowledgement, belongs to an append that was started, and
\* to an earlier one than that in progress until it commits (or returns).
Past ==
  /\ \A k \in DOMAIN table : \A w \in Writers : table[k][1] = w =>
       /\ table[k][2] <= started[w]
       /\ pc[w] \in {"select", "insert", "commit", "gaveup"} =>
            table[k][2] < started[w]
  /\ \A e \in acked : \A w \in Writers : e[1] = w =>
       /\ e[2] <= started[w]
       /\ pc[w] # "idle" => e[2] < started[w]

AppendInv ==
  /\ TypeOK
  /\ started \in [Writers -> 0..MaxAppends]
  /\ DOMAIN table = 1..Top
  /\ Top \in Nat
  /\ \A w \in Writers : WriterInv(w)
  /\ OneCommits
  /\ Past
  /\ OncePerAppendInOrder
  /\ AckedIsStored

-----------------------------------------------------------------------------
\* The chosen maximum of 1..n is n, before a step and after it.
LEMMA MaxOfInterval ==
  ASSUME NEW n \in Nat, NEW S, S = 1..n
  PROVE  (CHOOSE m \in {0} \cup S : \A k \in S : k <= m) = n
<1>1. n \in {0} \cup S /\ \A k \in S : k <= n
  OBVIOUS
<1>2. \A m \in {0} \cup S : (\A k \in S : k <= m) => m = n
  <2> SUFFICES ASSUME NEW m \in {0} \cup S, \A k \in S : k <= m
               PROVE  m = n
    OBVIOUS
  <2>1. m \in 0..n
    OBVIOUS
  <2>2. n = 0 \/ n \in S
    OBVIOUS
  <2> QED BY <2>1, <2>2
<1> QED BY <1>1, <1>2

LEMMA TopIs == \A n \in Nat : DOMAIN table = 1..n => Top = n
BY MaxOfInterval DEF Top

LEMMA TopIsPrime == \A n \in Nat : DOMAIN table' = 1..n => Top' = n
BY MaxOfInterval DEF Top

\* The state before the first append satisfies the invariant.
LEMMA InitInv == Init => AppendInv
<1> SUFFICES ASSUME Init PROVE AppendInv
  OBVIOUS
<1> USE SeqAppendAssumption
<1>1. DOMAIN table = 1..0
  BY DEF Init
<1>2. Top = 0
  BY <1>1, TopIs
<1>3. TypeOK /\ started \in [Writers -> 0..MaxAppends]
  BY <1>1 DEF Init, TypeOK, NoView
<1>4. \A w \in Writers : WriterInv(w)
  <2> SUFFICES ASSUME NEW w \in Writers PROVE WriterInv(w)
    OBVIOUS
  <2>1. pc[w] = "idle" /\ view[w] = NoView
    BY DEF Init
  <2>2. view[w] <= Top
    BY <1>2, <2>1 DEF NoView
  <2> QED BY <2>1, <2>2 DEF WriterInv
<1>5. OneCommits /\ Past /\ OncePerAppendInOrder /\ AckedIsStored
  BY <1>1 DEF Init, OneCommits, Past, OncePerAppendInOrder, AckedIsStored
<1> QED BY <1>1, <1>2, <1>3, <1>4, <1>5 DEF AppendInv

\* What a step that leaves the table alone may do to the rest: it keeps the
\* invariant when it does so for its own writer.
LEMMA TableUntouched ==
  ASSUME AppendInv, NEW w \in Writers, UNCHANGED table, TypeOK',
         started' \in [Writers -> 0..MaxAppends],
         \A v \in Writers \ {w} :
           /\ pc'[v] = pc[v] /\ started'[v] = started[v]
           /\ attempt'[v] = attempt[v] /\ next'[v] = next[v]
           /\ view'[v] = view[v] /\ base'[v] = base[v],
         WriterInv(w)', OneCommits', Past', AckedIsStored'
  PROVE  AppendInv'
<1>1. Top' = Top
  BY DEF Top
<1>2. ASSUME NEW v \in Writers PROVE WriterInv(v)'
  <2>1. CASE v = w
    BY <2>1
  <2>2. CASE v # w
    <3>1. WriterInv(v)
      BY DEF AppendInv
    <3>2. Entry(v)' = Entry(v)
      BY <2>2 DEF Entry
    <3> QED BY <1>1, <2>2, <3>1, <3>2 DEF WriterInv
  <2> QED BY <2>1, <2>2
<1>3. OncePerAppendInOrder'
  BY DEF AppendInv, OncePerAppendInOrder
<1> QED BY <1>1, <1>2, <1>3 DEF AppendInv

\* One writer at most is between its INSERT and its COMMIT, if the step's
\* writer is not, or was.
LEMMA StillOneCommits ==
  ASSUME AppendInv, NEW w \in Writers, TypeOK',
         \A v \in Writers \ {w} : pc'[v] = pc[v],
         pc'[w] = "commit" => pc[w] = "commit"
  PROVE  OneCommits'
BY DEF AppendInv, OneCommits

LEMMA BeginInv ==
  ASSUME AppendInv, NEW w \in Writers, Begin(w)
  PROVE  AppendInv'
<1> USE SeqAppendAssumption
<1>1. TypeOK' /\ started' \in [Writers -> 0..MaxAppends]
  BY DEF AppendInv, TypeOK, Begin
<1>2. Top' = Top
  BY DEF Begin, Top
<1>3. WriterInv(w)'
  <2>1. WriterInv(w) /\ pc'[w] = "select" /\ attempt'[w] = 1 /\ base'[w] = Top
        /\ started'[w] = started[w] + 1 /\ view' = view
    BY DEF AppendInv, Begin, TypeOK
  <2>2. started[w] \in Nat /\ Top \in Nat
    BY DEF AppendInv, TypeOK
  <2> QED BY <1>2, <2>1, <2>2 DEF WriterInv
<1>4. Past'
  <2>1. /\ \A k \in DOMAIN table : table[k][2] \in Nat
        /\ \A e \in acked : e[2] \in Nat
    BY DEF AppendInv, TypeOK, Entries
  <2>2. /\ \A v \in Writers : started[v] \in Nat
        /\ started'[w] = started[w] + 1 /\ pc'[w] = "select" /\ pc[w] = "idle"
        /\ \A v \in Writers \ {w} : started'[v] = started[v] /\ pc'[v] = pc[v]
        /\ UNCHANGED <<table, acked>>
    BY DEF AppendInv, TypeOK, Begin
  <2>3. ASSUME NEW k \in DOMAIN table', NEW v \in Writers, table'[k][1] = v
        PROVE  /\ table'[k][2] <= started'[v]
               /\ pc'[v] \in {"select", "insert", "commit", "gaveup"} =>
                    table'[k][2] < started'[v]
    <3>1. table' = table /\ table[k][2] \in Nat /\ table[k][2] <= started[v]
      BY <2>1, <2>2, <2>3 DEF AppendInv, Past
    <3>2. CASE v = w
      BY <2>2, <3>1, <3>2
    <3>3. CASE v # w
      BY <2>2, <2>3, <3>1, <3>3 DEF AppendInv, Past
    <3> QED BY <3>2, <3>3
  <2>4. ASSUME NEW e \in acked', NEW v \in Writers, e[1] = v
        PROVE  e[2] <= started'[v] /\ (pc'[v] # "idle" => e[2] < started'[v])
    <3>1. e \in acked /\ e[2] \in Nat /\ e[2] <= started[v]
      BY <2>1, <2>2, <2>4 DEF AppendInv, Past
    <3>2. CASE v = w
      BY <2>2, <3>1, <3>2
    <3>3. CASE v # w
      BY <2>2, <2>4, <3>1, <3>3 DEF AppendInv, Past
    <3> QED BY <3>2, <3>3
  <2> QED BY <2>3, <2>4 DEF Past
<1>5. OneCommits'
  BY <1>1, StillOneCommits DEF Begin, AppendInv, TypeOK
<1>6. AckedIsStored'
  BY DEF AppendInv, AckedIsStored, Begin
<1> QED BY <1>1, <1>3, <1>4, <1>5, <1>6, TableUntouched DEF Begin, AppendInv, TypeOK

LEMMA ReadAllInv ==
  ASSUME AppendInv, NEW w \in Writers, ReadAll(w)
  PROVE  AppendInv'
<1> USE SeqAppendAssumption
<1>1. TypeOK' /\ started' \in [Writers -> 0..MaxAppends]
  BY DEF AppendInv, TypeOK, ReadAll
<1>2. Top' = Top
  BY DEF ReadAll, Top
<1>3. WriterInv(w)'
  <2>1. /\ WriterInv(w) /\ pc[w] = "idle" /\ view'[w] = Top /\ Top \in Nat
        /\ UNCHANGED <<table, pc, started, attempt, next, base, acked>>
    BY DEF AppendInv, ReadAll, TypeOK
  <2>2. pc'[w] = "idle" /\ view'[w] <= Top'
    BY <1>2, <2>1
  <2> QED BY <2>1, <2>2 DEF WriterInv, ReadAll
<1>4. Past'
  BY DEF AppendInv, Past, ReadAll
<1>5. OneCommits' /\ AckedIsStored'
  BY DEF AppendInv, OneCommits, AckedIsStored, ReadAll
<1> QED BY <1>1, <1>3, <1>4, <1>5, TableUntouched DEF ReadAll, AppendInv, TypeOK

LEMMA SelectNextInv ==
  ASSUME AppendInv, NEW w \in Writers, SelectNext(w)
  PROVE  AppendInv'
<1> USE SeqAppendAssumption
<1>1. Visible(w) \in Nat /\ Visible(w) <= Top
  BY DEF AppendInv, TypeOK, WriterInv, Visible, NoView
<1>2. TypeOK' /\ started' \in [Writers -> 0..MaxAppends]
  <2>1. next' \in [Writers -> Nat] /\ view' \in [Writers -> Nat \cup {NoView}]
    BY <1>1 DEF AppendInv, TypeOK, SelectNext
  <2>2. /\ pc' \in [Writers -> {"idle", "select", "insert", "commit", "return", "gaveup"}]
        /\ UNCHANGED <<table, started, attempt, base, acked>>
    BY DEF AppendInv, TypeOK, SelectNext
  <2> QED BY <2>1, <2>2 DEF AppendInv, TypeOK
<1>3. Top' = Top
  BY DEF SelectNext, Top
<1>4. WriterInv(w)'
  <2>1. /\ pc'[w] = "insert" /\ next'[w] = Visible(w) + 1
        /\ view'[w] = (IF Snapshots THEN Visible(w) ELSE view[w])
        /\ UNCHANGED <<table, started, attempt, base>>
    BY DEF AppendInv, SelectNext, TypeOK
  <2>2. WriterInv(w) /\ pc[w] = "select" /\ Top \in Nat
        /\ attempt[w] \in Nat /\ base[w] \in Nat
    BY DEF AppendInv, SelectNext, TypeOK
  <2>3. ~Snapshots \/ attempt[w] > 1 => Visible(w) = Top
    BY <2>2 DEF WriterInv, Visible
  <2>4. ~Snapshots \/ attempt[w] > 1 => Top + 1 >= base[w] + attempt[w] - Stale
    BY <2>2 DEF WriterInv, Stale, AppendInv, TypeOK
  <2>5. ~Snapshots => view'[w] = NoView
    BY <2>1, <2>2 DEF WriterInv
  <2>6. view'[w] <= Top
    BY <1>1, <2>1, <2>2 DEF WriterInv
  <2>7. attempt[w] >= 1 /\ base[w] <= Top /\ started[w] >= 1
    BY <2>2 DEF WriterInv
  <2> QED BY <1>1, <1>3, <2>1, <2>2, <2>3, <2>4, <2>5, <2>6, <2>7 DEF WriterInv
<1>5. Past'
  BY DEF AppendInv, Past, SelectNext, TypeOK
<1>6. OneCommits' /\ AckedIsStored'
  BY DEF AppendInv, OneCommits, AckedIsStored, SelectNext, TypeOK
<1> QED BY <1>2, <1>4, <1>5, <1>6, TableUntouched DEF SelectNext, AppendInv, TypeOK

LEMMA InsertInv ==
  ASSUME AppendInv, NEW w \in Writers, Insert(w)
  PROVE  AppendInv'
<1> USE SeqAppendAssumption
<1>1. TypeOK' /\ started' \in [Writers -> 0..MaxAppends]
  BY DEF AppendInv, TypeOK, Insert
<1>2. Top' = Top
  BY DEF Insert, Top
<1>3. next[w] = Top + 1
  <2>1. pc[w] = "insert" /\ next[w] \notin 1..Top /\ Top \in Nat /\ next[w] \in Nat
    BY DEF AppendInv, TypeOK, Insert
  <2>2. 1 <= next[w] /\ next[w] <= Top + 1
    BY <2>1 DEF AppendInv, WriterInv
  <2> QED BY <2>1, <2>2
<1>4. WriterInv(w)'
  BY <1>1, <1>2, <1>3 DEF AppendInv, Insert, WriterInv, TypeOK
<1>5. Past' /\ AckedIsStored'
  BY DEF AppendInv, Past, AckedIsStored, Insert, TypeOK
<1>6. OneCommits'
  <2>1. \A v \in Writers : pc[v] # "commit"
    BY <1>3 DEF AppendInv, WriterInv, Insert, KeyFree
  <2> QED BY <2>1 DEF OneCommits, Insert, AppendInv, TypeOK
<1> QED BY <1>1, <1>4, <1>5, <1>6, TableUntouched DEF Insert, AppendInv, TypeOK

LEMMA CollideInv ==
  ASSUME AppendInv, NEW w \in Writers, Collide(w)
  PROVE  AppendInv'
<1> USE SeqAppendAssumption
<1> DEFINE Again == attempt[w] < MaxAttempts /\ attempt' = [attempt EXCEPT ![w] = @ + 1]
                    /\ pc' = [pc EXCEPT ![w] = "select"]
           Never == attempt[w] >= MaxAttempts /\ attempt' = attempt
                    /\ pc' = [pc EXCEPT ![w] = "gaveup"]
<1>1. Again \/ Never
  BY DEF Collide, CollideUpTo
<1>2. TypeOK' /\ started' \in [Writers -> 0..MaxAppends]
  <2>1. view' \in [Writers -> Nat \cup {NoView}]
    BY DEF AppendInv, TypeOK, Collide, CollideUpTo
  <2>2. attempt' \in [Writers -> 0..MaxAttempts]
        /\ pc' \in [Writers -> {"idle", "select", "insert", "commit", "return", "gaveup"}]
    <3>1. attempt \in [Writers -> 0..MaxAttempts] /\ attempt[w] \in 0..MaxAttempts
      BY DEF AppendInv, TypeOK
    <3>2. CASE Again
      BY <3>1, <3>2 DEF AppendInv, TypeOK
    <3>3. CASE Never
      BY <3>1, <3>3 DEF AppendInv, TypeOK
    <3> QED BY <1>1, <3>2, <3>3
  <2> QED BY <2>1, <2>2 DEF AppendInv, TypeOK, Collide, CollideUpTo
<1>3. Top' = Top
  BY DEF Collide, CollideUpTo, Top
\* The seq that collided is taken, so the table is as long as it says.
<1>4. Top >= base[w] + attempt[w] - Stale
  <2>1. next[w] <= Top
    BY DEF AppendInv, TypeOK, Collide, CollideUpTo
  <2>2. pc[w] = "insert" /\ WriterInv(w)
    BY DEF AppendInv, Collide, CollideUpTo
  <2>3. CASE ~Snapshots \/ attempt[w] > 1
    BY <2>1, <2>2, <2>3 DEF WriterInv, AppendInv, TypeOK, Stale
  <2>4. CASE Snapshots /\ attempt[w] = 1
    BY <2>2, <2>4 DEF WriterInv, AppendInv, TypeOK, Stale
  <2>5. attempt[w] \in Nat /\ attempt[w] >= 1
    BY <2>2 DEF WriterInv, AppendInv, TypeOK
  <2> QED BY <2>3, <2>4, <2>5
<1>5. WriterInv(w)'
  <2>1. /\ WriterInv(w) /\ pc[w] = "insert" /\ view'[w] = NoView
        /\ UNCHANGED <<table, started, next, base>>
        /\ Top \in Nat /\ base[w] \in Nat /\ attempt[w] \in 0..MaxAttempts
    BY DEF AppendInv, Collide, CollideUpTo, TypeOK
  <2>2. view'[w] <= Top /\ Stale \in {0, 1}
    BY <2>1 DEF NoView, Stale
  <2>3. CASE Again
    <3>1. pc'[w] = "select" /\ attempt'[w] = attempt[w] + 1
      BY <2>3 DEF AppendInv, TypeOK
    <3> QED BY <1>3, <1>4, <2>1, <2>2, <3>1 DEF WriterInv
  <2>4. CASE Never
    <3>1. pc'[w] = "gaveup" /\ attempt'[w] = MaxAttempts
      BY <2>1, <2>4 DEF AppendInv, TypeOK
    <3>2. attempt[w] = MaxAttempts
      BY <2>1, <2>4
    <3> QED BY <1>3, <1>4, <2>1, <2>2, <3>1, <3>2 DEF WriterInv
  <2> QED BY <1>1, <2>3, <2>4
<1>6. pc'[w] \in {"select", "gaveup"} /\ \A v \in Writers \ {w} : pc'[v] = pc[v]
  BY <1>1 DEF AppendInv, TypeOK
<1>7. Past'
  BY <1>6 DEF AppendInv, Past, Collide, CollideUpTo
<1>8. OneCommits'
  BY <1>2, <1>6, StillOneCommits
<1>9. AckedIsStored'
  BY DEF AppendInv, AckedIsStored, Collide, CollideUpTo
<1>10. \A v \in Writers \ {w} : attempt'[v] = attempt[v]
  BY <1>1 DEF AppendInv, TypeOK
<1> QED BY <1>2, <1>5, <1>6, <1>7, <1>8, <1>9, <1>10, TableUntouched
        DEF Collide, CollideUpTo, AppendInv, TypeOK

\* Returning, raising and aborting leave a writer with nothing.
LEMMA LeaveInv ==
  ASSUME AppendInv, NEW w \in Writers, Leave(w), UNCHANGED <<table, started>>,
         view' = view \/ view' = [view EXCEPT ![w] = NoView],
         acked' = acked \/ (pc[w] = "return" /\ acked' = acked \cup {Entry(w)})
  PROVE  AppendInv'
<1> USE SeqAppendAssumption
<1>1. Entry(w) \in Entries \/ pc[w] = "idle"
  BY DEF AppendInv, TypeOK, WriterInv, Entry, Entries
<1>2. TypeOK' /\ started' \in [Writers -> 0..MaxAppends]
  <2>1. view' \in [Writers -> Nat \cup {NoView}]
    BY DEF AppendInv, TypeOK
  <2>2. acked' \subseteq Entries
    BY <1>1 DEF AppendInv, TypeOK
  <2>3. attempt' \in [Writers -> 0..MaxAttempts]
    BY DEF AppendInv, TypeOK, Leave
  <2>4. pc' \in [Writers -> {"idle", "select", "insert", "commit", "return", "gaveup"}]
        /\ next' \in [Writers -> Nat] /\ base' \in [Writers -> Nat]
    BY DEF AppendInv, TypeOK, Leave
  <2>5. /\ DOMAIN table' \subseteq Nat \ {0}
        /\ \A k \in DOMAIN table' : table'[k] \in Entries
        /\ started' \in [Writers -> Nat] /\ started' \in [Writers -> 0..MaxAppends]
    BY DEF AppendInv, TypeOK
  <2> QED BY <2>1, <2>2, <2>3, <2>4, <2>5 DEF TypeOK
<1>3. Top' = Top
  BY DEF Top
<1>4. pc'[w] = "idle" /\ \A v \in Writers \ {w} : pc'[v] = pc[v]
  BY DEF AppendInv, TypeOK, Leave
<1>5. WriterInv(w)'
  <2>1. view'[w] = view[w] \/ view'[w] = NoView
    BY DEF AppendInv, TypeOK
  <2>2. view[w] <= Top /\ (~Snapshots => view[w] = NoView) /\ NoView <= Top
    BY DEF AppendInv, WriterInv, NoView
  <2> QED BY <1>3, <1>4, <2>1, <2>2 DEF WriterInv
<1>6. Past'
  <2>1. Entry(w)[1] = w /\ Entry(w)[2] = started[w] /\ started[w] \in Nat
    BY DEF Entry, AppendInv, TypeOK
  <2> QED BY <1>4, <2>1 DEF AppendInv, Past
<1>7. OneCommits'
  BY <1>2, <1>4, StillOneCommits
<1>8. AckedIsStored'
  BY DEF AppendInv, AckedIsStored, WriterInv
<1> QED BY <1>2, <1>4, <1>5, <1>6, <1>7, <1>8, TableUntouched
        DEF Leave, AppendInv, TypeOK

\* The one step that writes the table adds the row after the last.
LEMMA CommitInv ==
  ASSUME AppendInv, NEW w \in Writers, Commit(w)
  PROVE  AppendInv'
<1> USE SeqAppendAssumption
<1> DEFINE n == Top
<1>1. /\ n \in Nat /\ next[w] = n + 1 /\ DOMAIN table = 1..n
      /\ WriterInv(w) /\ pc[w] = "commit" /\ started[w] \in Nat /\ started[w] >= 1
      /\ started[w] <= MaxAppends
  BY DEF AppendInv, WriterInv, Commit, TypeOK
<1>2. /\ DOMAIN table' = 1..(n + 1)
      /\ table'[n + 1] = Entry(w)
      /\ \A k \in 1..n : table'[k] = table[k]
  BY <1>1 DEF Commit
<1>3. Top' = n + 1
  BY <1>1, <1>2, TopIsPrime
<1>4. Entry(w) \in Entries
  BY <1>1 DEF Entry, Entries
<1>5. TypeOK' /\ started' \in [Writers -> 0..MaxAppends]
  <2>1. /\ DOMAIN table' \subseteq Nat \ {0}
        /\ \A k \in DOMAIN table' : table'[k] \in Entries
    <3>1. \A k \in 1..n : table[k] \in Entries
      BY <1>1 DEF AppendInv, TypeOK
    <3>2. DOMAIN table' = 1..n \cup {n + 1}
      BY <1>1, <1>2
    <3> QED BY <1>1, <1>2, <1>4, <3>1, <3>2
  <2>2. view' \in [Writers -> Nat \cup {NoView}]
    BY DEF AppendInv, TypeOK, Commit
  <2>3. /\ UNCHANGED <<started, attempt, next, base, acked>>
        /\ pc' \in [Writers -> {"select", "insert", "commit", "return", "gaveup", "idle"}]
    BY DEF AppendInv, TypeOK, Commit
  <2> QED BY <2>1, <2>2, <2>3 DEF AppendInv, TypeOK
<1>6. /\ pc'[w] = "return" /\ \A v \in Writers \ {w} : pc'[v] = pc[v]
      /\ UNCHANGED <<started, attempt, next, base, acked>>
  BY DEF Commit, AppendInv, TypeOK
<1>7. ASSUME NEW v \in Writers PROVE WriterInv(v)'
  <2>1. Entry(v)' = Entry(v)
    BY <1>6 DEF Entry
  <2>2. CASE v = w
    <3>1. view'[w] = NoView /\ base[w] \in Nat /\ base[w] <= n /\ attempt[w] >= 1
      BY <1>1 DEF Commit, AppendInv, TypeOK, WriterInv
    <3>2. \E k \in DOMAIN table' : table'[k] = Entry(w)'
      BY <1>1, <1>2, <2>1, <2>2
    <3> QED BY <1>1, <1>3, <1>6, <2>2, <3>1, <3>2 DEF WriterInv, NoView
  <2>3. CASE v # w
    <3>1. pc[v] # "commit" /\ pc'[v] = pc[v] /\ view'[v] = view[v]
      BY <1>1, <1>6, <2>3 DEF AppendInv, OneCommits, Commit, TypeOK
    <3>2. WriterInv(v) /\ view[v] \in Int /\ next[v] \in Nat /\ base[v] \in Nat
          /\ attempt[v] \in Nat
      BY DEF AppendInv, TypeOK, NoView
    <3>3. Stale \in Nat /\ MaxAttempts \in Nat
      BY DEF Stale
    <3>4. pc[v] = "return" => \E k \in DOMAIN table' : table'[k] = Entry(v)'
      BY <1>1, <1>2, <2>1, <3>2 DEF WriterInv
    <3>5. /\ pc'[v] = pc[v] /\ view'[v] = view[v] /\ attempt'[v] = attempt[v]
          /\ next'[v] = next[v] /\ base'[v] = base[v] /\ started'[v] = started[v]
      BY <1>6, <3>1
    <3>6. Top \in Nat /\ Top' = Top + 1
      BY <1>1, <1>3
    <3> HIDE DEF n
    <3> QED BY <2>1, <3>1, <3>2, <3>3, <3>4, <3>5, <3>6 DEF WriterInv
  <2> QED BY <2>2, <2>3
<1>8. OneCommits'
  BY <1>5, <1>6, StillOneCommits
<1>9. Past'
  <2>1. Entry(w)[1] = w /\ Entry(w)[2] = started[w]
    BY DEF Entry
  <2>2. ASSUME NEW k \in DOMAIN table', NEW v \in Writers, table'[k][1] = v
        PROVE  /\ table'[k][2] <= started[v]
               /\ pc'[v] \in {"select", "insert", "commit", "gaveup"} =>
                    table'[k][2] < started[v]
    <3>1. CASE k = n + 1
      BY <1>1, <1>2, <1>6, <2>1, <2>2, <3>1
    <3>2. CASE k \in 1..n
      BY <1>1, <1>2, <1>6, <2>2, <3>2 DEF AppendInv, Past
    <3> QED BY <1>1, <1>2, <3>1, <3>2
  <2>3. \A e \in acked : \A v \in Writers : e[1] = v =>
          e[2] <= started[v] /\ (pc'[v] # "idle" => e[2] < started[v])
    BY <1>1, <1>6 DEF AppendInv, Past
  <2> QED BY <1>6, <2>2, <2>3 DEF Past
<1>10. OncePerAppendInOrder'
  <2> SUFFICES ASSUME NEW i \in DOMAIN table', NEW j \in DOMAIN table',
                      table'[i][1] = table'[j][1], table'[i][2] <= table'[j][2]
               PROVE  i <= j
    BY DEF OncePerAppendInOrder
  <2>1. CASE j = n + 1
    BY <1>1, <1>2, <2>1
  <2>2. CASE i = n + 1 /\ j \in 1..n
    <3>1. table[j][1] = w /\ started[w] <= table[j][2]
      BY <1>2, <2>2 DEF Entry
    <3>2. j \in DOMAIN table
      BY <1>1, <2>2
    <3>3. table[j][2] \in Nat
      BY <3>2 DEF AppendInv, TypeOK, Entries
    <3>4. table[j][2] < started[w]
      BY <1>1, <3>1, <3>2 DEF AppendInv, Past
    <3> QED BY <1>1, <3>1, <3>3, <3>4
  <2>3. CASE i \in 1..n /\ j \in 1..n
    BY <1>1, <1>2, <2>3 DEF AppendInv, OncePerAppendInOrder
  <2> QED BY <1>1, <1>2, <2>1, <2>2, <2>3
<1>11. AckedIsStored'
  BY <1>1, <1>2, <1>6 DEF AppendInv, AckedIsStored
<1> QED BY <1>1, <1>2, <1>3, <1>5, <1>7, <1>8, <1>9, <1>10, <1>11 DEF AppendInv

LEMMA StepInv == AppendInv /\ [Next]_vars => AppendInv'
<1> SUFFICES ASSUME AppendInv, [Next]_vars PROVE AppendInv'
  OBVIOUS
<1>1. CASE UNCHANGED vars
  <2>1. Top' = Top
    BY <1>1 DEF vars, Top
  <2>2. \A w \in Writers : WriterInv(w)'
    BY <1>1, <2>1 DEF vars, AppendInv, WriterInv, Entry
  <2>3. TypeOK' /\ OneCommits' /\ Past' /\ OncePerAppendInOrder' /\ AckedIsStored'
    BY <1>1 DEF vars, AppendInv, TypeOK, OneCommits, Past, OncePerAppendInOrder,
                AckedIsStored
  <2> QED BY <1>1, <2>1, <2>2, <2>3 DEF vars, AppendInv
<1>2. ASSUME NEW w \in Writers, Return(w) \/ Raise(w) \/ Abort(w) PROVE AppendInv'
  <2>1. Leave(w) /\ UNCHANGED <<table, started>>
    BY <1>2 DEF Return, Raise, Abort
  <2>2. view' = view \/ view' = [view EXCEPT ![w] = NoView]
    BY <1>2 DEF Return, Raise, Abort
  <2>3. acked' = acked \/ (pc[w] = "return" /\ acked' = acked \cup {Entry(w)})
    BY <1>2 DEF Return, Raise, Abort
  <2> QED BY <2>1, <2>2, <2>3, LeaveInv
<1> QED BY <1>1, <1>2, BeginInv, ReadAllInv, SelectNextInv, InsertInv, CollideInv,
           CommitInv DEF Next

THEOREM Invariant == Spec => []AppendInv
BY InitInv, StepInv, PTL DEF Spec

\* Every variable keeps its type.
THEOREM TypeCorrect == Spec => []TypeOK
<1>1. AppendInv => TypeOK
  BY DEF AppendInv
<1> QED BY <1>1, Invariant, PTL

\* The committed seqs have no gap, whatever the writers' interleaving, the
\* collisions, the errors and the lost replies.
THEOREM DenseHolds == Spec => []Dense
<1>1. AppendInv => Dense
  BY DEF AppendInv, Dense
<1> QED BY <1>1, Invariant, PTL

\* A retry stores its message once, after the writer's earlier messages.
THEOREM OncePerAppendInOrderHolds == Spec => []OncePerAppendInOrder
<1>1. AppendInv => OncePerAppendInOrder
  BY DEF AppendInv
<1> QED BY <1>1, Invariant, PTL

\* An append whose call returned is in the table from then on.
THEOREM AckedIsStoredHolds == Spec => []AckedIsStored
<1>1. AppendInv => AckedIsStored
  BY DEF AppendInv
<1> QED BY <1>1, Invariant, PTL

\* A writer loses an append only to one committed row per attempt, less one
\* attempt that a snapshot open before the call may waste.
THEOREM GivesUpOnlyUnderContentionHolds == Spec => []GivesUpOnlyUnderContention
<1>1. AppendInv => GivesUpOnlyUnderContention
  BY DEF AppendInv, WriterInv, GivesUpOnlyUnderContention, Stale
<1> QED BY <1>1, Invariant, PTL

\* Committed rows are never changed, moved or removed.
THEOREM AppendOnlyHolds == Spec => AppendOnly
<1>1. AppendInv /\ [Next]_vars =>
        [\A k \in DOMAIN table : k \in DOMAIN table' /\ table'[k] = table[k]]_vars
  <2> SUFFICES ASSUME AppendInv, Next
               PROVE  \A k \in DOMAIN table : k \in DOMAIN table' /\ table'[k] = table[k]
    OBVIOUS
  <2>1. PICK w \in Writers : table' = table \/ Commit(w)
    BY DEF Next, Begin, ReadAll, SelectNext, Insert, Collide, CollideUpTo, Return, Raise, Abort
  <2>2. CASE table' = table
    BY <2>2
  <2>3. CASE Commit(w)
    <3>1. next[w] \notin DOMAIN table
      BY <2>3 DEF AppendInv, WriterInv, Commit, TypeOK
    <3> QED BY <2>3, <3>1 DEF Commit
  <2> QED BY <2>1, <2>2, <2>3
<1> QED BY <1>1, Invariant, PTL DEF Spec, AppendOnly

\* The rows in the order of their seq are the log of AppendLog: a COMMIT adds
\* at its end an entry it does not hold, a return acknowledges one it holds.
Rows == [k \in 1..Top |-> table[k]]

THEOREM Implements == Spec => IsALog
<1>1. Init => Log!Init
  <2> SUFFICES ASSUME Init PROVE Rows = <<>> /\ acked = {}
    BY DEF Log!Init, Rows
  <2>1. Top = 0
    BY TopIs DEF Init
  <2> QED BY <2>1 DEF Init, Rows
<1>2. AppendInv /\ [Next]_vars => [Log!Next]_(Log!vars)
  <2> SUFFICES ASSUME AppendInv, Next
               PROVE  Log!Next \/ UNCHANGED <<Rows, acked>>
    BY DEF vars, Log!vars, Rows, Top
  <2>1. PICK w \in Writers :
          \/ UNCHANGED <<table, acked>>
          \/ Commit(w)
          \/ Return(w)
    BY DEF Next, Begin, ReadAll, SelectNext, Insert, Collide, CollideUpTo, Raise, Abort
  <2>2. CASE UNCHANGED <<table, acked>>
    BY <2>2 DEF Rows, Top
  <2>3. CASE Commit(w)
    <3>1. PICK n \in Nat : n = Top
      BY DEF AppendInv
    <3>2. /\ next[w] = n + 1 /\ DOMAIN table = 1..n
          /\ pc[w] = "commit" /\ Entry(w) \in Entries
      BY <2>3, <3>1, SeqAppendAssumption
         DEF AppendInv, WriterInv, Commit, TypeOK, Entry, Entries
    <3>3. PICK e \in Entries : e = Entry(w)
      BY <3>2
    <3>4. /\ DOMAIN table' = 1..(n + 1)
          /\ table'[n + 1] = e
          /\ \A k \in 1..n : table'[k] = table[k]
      BY <2>3, <3>2, <3>3 DEF Commit
    <3>5. Top' = n + 1
      BY <3>4, TopIsPrime
    <3>6. Rows = [k \in 1..n |-> table[k]] /\ Rows' = [k \in 1..(n + 1) |-> table'[k]]
      BY <3>1, <3>5 DEF Rows
    <3>7. \A k \in 1..n : table[k] \in Entries
      BY <3>2 DEF AppendInv, TypeOK
    <3>8. Rows \in Seq(Entries) /\ Len(Rows) = n
      <4>1. Rows \in [1..n -> Entries]
        BY <3>6, <3>7
      <4> QED BY <4>1
    <3>9. Rows' = Append(Rows, e)
      <4>1. \A k \in 1..n : Rows'[k] = Rows[k]
        BY <3>4, <3>6
      <4>2. Rows'[n + 1] = e /\ DOMAIN Rows' = 1..(n + 1)
        BY <3>4, <3>6
      <4>3. Rows' \in Seq(Entries) /\ Len(Rows') = n + 1
        <5>1. Rows' \in [1..(n + 1) -> Entries]
          BY <3>4, <3>6, <3>7
        <5> QED BY <5>1
      <4> QED BY <3>8, <4>1, <4>2, <4>3
    <3>10. \A k \in DOMAIN Rows : Rows[k] # e
      <4> SUFFICES ASSUME NEW k \in 1..n, table[k] = e PROVE FALSE
        BY <3>6
      <4>1. table[k][1] = w /\ table[k][2] = started[w]
        BY <3>3 DEF Entry
      <4>2. table[k][2] < started[w] /\ started[w] \in Nat
        BY <3>2, <4>1 DEF AppendInv, Past, TypeOK
      <4> QED BY <4>1, <4>2
    <3> QED BY <2>3, <3>9, <3>10 DEF Log!Next, Log!Add, Rows, Commit
  <2>4. CASE Return(w)
    <3>1. UNCHANGED table /\ acked' = acked \cup {Entry(w)} /\ pc[w] = "return"
      BY <2>4 DEF Return
    <3>2. PICK k \in DOMAIN table : table[k] = Entry(w)
      BY <3>1 DEF AppendInv, WriterInv
    <3>3. PICK e \in Entries : e = Entry(w)
      BY <3>2 DEF AppendInv, TypeOK
    <3>4. k \in DOMAIN Rows /\ Rows[k] = e
      BY <3>2, <3>3 DEF AppendInv, Rows
    <3>5. e \notin acked
      <4> SUFFICES ASSUME e \in acked PROVE FALSE
        OBVIOUS
      <4>1. e[1] = w /\ e[2] = started[w] /\ started[w] \in Nat
        BY <3>3 DEF Entry, AppendInv, TypeOK
      <4>2. e[2] < started[w]
        BY <3>1, <4>1 DEF AppendInv, Past
      <4> QED BY <4>1, <4>2
    <3>6. Rows' = Rows
      BY <3>1 DEF Rows, Top
    <3> QED BY <3>1, <3>3, <3>4, <3>5, <3>6 DEF Log!Next, Log!Acknowledge, Rows
  <2> QED BY <2>1, <2>2, <2>3, <2>4
<1> QED BY <1>1, <1>2, Invariant, PTL DEF Spec, IsALog, Log!Spec
=============================================================================
