-------------------------- MODULE FileMemoryProofs --------------------------
(***************************************************************************)
(* Proofs about FileMemory, for any number of calls of each kind.          *)
(***************************************************************************)
EXTENDS FileMemory, FiniteSetTheorems, WellFoundedInduction, TLAPS

Active(c) == pc[c] \notin {"new", "done"}
Writes(c) == pc[c] \in {"write", "end"}

\* A call stands where its method has a step, and is about what it names.
Placed ==
  /\ \A c \in Calls :
       /\ Kind[c] = "add" => target[c] = c
       /\ Appends(c) => target[c] \in Adds
       /\ Writes(c) => Appends(c)
       /\ pc[c] = "load" => Kind[c] # "add"
       /\ pc[c] = "unlink" => Kind[c] = "forget_all"
       /\ pc[c] = "replace" => Kind[c] = "compact"
  /\ \A c \in open : Appends(c)

\* A call holds the lock, or was cancelled: so it is alone, unless one was let
\* in beside a thread that runs on.
Locked ==
  /\ \A c \in Calls : Active(c) => lock = c \/ c \in cut
  /\ ~mixed => \A c, d \in Calls : Active(c) /\ Active(d) => c = d
  /\ ~mixed => stray = {}

\* Whatever is on disk was added before, and is not added again.
Known ==
  /\ \A m \in InFile \cup InTemps : pc[m] \notin {"new", "write"}
  /\ \A c \in Calls : Writes(c) /\ Kind[c] # "add" => pc[target[c]] \notin {"new", "write"}

\* Nobody is about to bring back what was erased.
Gone ==
  \A m \in erased :
    /\ pc[m] = "done" /\ m \notin InFile
    /\ \A c \in Calls : Writes(c) => target[c] # m
    /\ \A c \in Calls : pc[c] = "replace" => m \notin InLines(temp[c])

\* The memories for which the log is wrong, and the one that the text on its
\* last line is about to cost.
Wrong == {m \in Adds : Live[m] # due[m]}
Pending == IF open \cap torn = {} THEN 0 ELSE 1

Owed ==
  /\ IsFiniteSet(torn) /\ IsFiniteSet(Wrong)
  /\ Cardinality(Wrong) + Pending <= Cardinality(torn)
  /\ \A c \in open : pc[c] = "end" \/ c \in torn
  /\ \A c \in Calls : pc[c] = "end" => c \in open
  /\ \A c \in Calls : pc[c] = "replace" => load_records(temp[c]) = Live

FileInv ==
  /\ TypeOK
  /\ Placed /\ Locked /\ Known
  /\ \A c \in torn : pc[c] = "done"
  /\ ~mixed => Gone /\ Owed

-----------------------------------------------------------------------------
\* Replaying a log, and copying it.
Lives == [Adds -> Calls \cup {None}]

\* f holds what the first lines of a log amount to, for each number of them.
IsReplay(f, log, k) ==
  /\ f \in [0..k -> Lives]
  /\ f[0] = NoMemories
  /\ \A n \in 1..k : f[n] = Apply(f[n - 1], log[n])

\* Induction up to k, for a set.
LEMMA UpTo ==
  ASSUME NEW k \in Nat, NEW S, 0 \in S, \A n \in 0..k : n \in S /\ n < k => n + 1 \in S
  PROVE  0..k \subseteq S
<1> DEFINE Out == {n \in Nat : n \in 0..k /\ n \notin S}
           R == OpToRel(<, Nat)
<1> SUFFICES ASSUME Out # {} PROVE FALSE
  OBVIOUS
<1>1. IsWellFoundedOn(R, Nat)
  BY NatLessThanWellFounded, Zenon
<1>2. PICK least \in Out : \A n \in Out : ~ (<<n, least>> \in R)
  <2>1. Out \subseteq Nat
    OBVIOUS
  <2> QED BY <1>1, <2>1, WFMin
<1>3. \A n \in Out : ~ (n < least)
  BY <1>2 DEF OpToRel
<1>4. least # 0 /\ least - 1 \in 0..k /\ least - 1 < k /\ least - 1 < least
  OBVIOUS
<1>5. least - 1 \in S
  BY <1>3, <1>4
<1>6. (least - 1) + 1 \in S
  BY <1>4, <1>5
<1> QED BY <1>6

\* A line changes its own memory, and a memory that is not there it can add.
LEMMA ApplyValue ==
  ASSUME NEW live \in Lives, NEW r \in Records
  PROVE  /\ Apply(live, r) \in Lives
         /\ \A m \in Adds \ {r.id} : Apply(live, r)[m] = live[m]
         /\ \A m \in Adds : Apply(live, r)[m] # None => live[m] # None \/ (r.op = "add" /\ m = r.id)
         /\ \A other \in Lives : other[r.id] = live[r.id] => Apply(other, r)[r.id] = Apply(live, r)[r.id]
<1>1. r.op \in {"add", "update", "remove"} /\ r.id \in Adds /\ r.value \in Calls
  BY DEF Records
<1>2. CASE r.op = "add"
  BY <1>1, <1>2 DEF Apply, Lives
<1>3. CASE r.op = "update"
  <2>1. Apply(live, r) = IF live[r.id] # None THEN [live EXCEPT ![r.id] = r.value] ELSE live
    BY <1>3 DEF Apply
  <2>2. \A other \in Lives :
          Apply(other, r) = IF other[r.id] # None THEN [other EXCEPT ![r.id] = r.value] ELSE other
    BY <1>3 DEF Apply
  <2> QED BY <1>1, <1>3, <2>1, <2>2 DEF Lives
<1>4. CASE r.op = "remove"
  BY <1>1, <1>4 DEF Apply, Lives
<1> QED BY <1>1, <1>2, <1>3, <1>4

\* A replay of a log exists, and it is the one that load_records takes.
LEMMA ReplayExists ==
  ASSUME NEW log \in Seq(Records)
  PROVE  \E f : IsReplay(f, log, Len(log))
<1> DEFINE S == {n \in 0..Len(log) : \E f : IsReplay(f, log, n)}
<1>1. 0 \in S
  <2> DEFINE f == [n \in 0..0 |-> NoMemories]
  <2>1. IsReplay(f, log, 0)
    BY DEF IsReplay, NoMemories, Lives
  <2> QED BY <2>1
<1>2. ASSUME NEW n \in 0..Len(log), n \in S, n < Len(log) PROVE n + 1 \in S
  <2>1. PICK f : IsReplay(f, log, n)
    BY <1>2
  <2>2. log[n + 1] \in Records /\ n + 1 \in 0..Len(log)
    BY <1>2
  <2>3. Apply(f[n], log[n + 1]) \in Lives
    BY <2>1, <2>2, ApplyValue DEF IsReplay
  <2> DEFINE g == [i \in 0..(n + 1) |-> IF i = n + 1 THEN Apply(f[n], log[n + 1]) ELSE f[i]]
  <2>4. g \in [0..(n + 1) -> Lives] /\ g[0] = NoMemories
    BY <2>1, <2>3 DEF IsReplay
  <2>5. ASSUME NEW i \in 1..(n + 1) PROVE g[i] = Apply(g[i - 1], log[i])
    <3>1. g[i - 1] = f[i - 1]
      OBVIOUS
    <3> QED BY <2>1, <3>1 DEF IsReplay
  <2>6. IsReplay(g, log, n + 1)
    BY <2>4, <2>5 DEF IsReplay
  <2> QED BY <2>2, <2>6
<1>3. Len(log) \in Nat
  OBVIOUS
<1>4. 0..Len(log) \subseteq S
  <2> HIDE DEF S
  <2> QED BY <1>1, <1>2, <1>3, UpTo
<1> QED BY <1>3, <1>4

LEMMA ReplayIs ==
  ASSUME NEW log \in Seq(Records), NEW f, IsReplay(f, log, Len(log))
  PROVE  load_records(log) = f[Len(log)]
<1> DEFINE Step1(g) == [n \in 0..Len(log) |-> IF n = 0 THEN NoMemories ELSE Apply(g[n - 1], log[n])]
<1>0. Len(log) \in Nat
  OBVIOUS
<1>1. f = Step1(f)
  BY DEF IsReplay
<1>2. ASSUME NEW g, g = Step1(g) PROVE g = f
  <2> DEFINE S == {n \in 0..Len(log) : g[n] = f[n]}
  <2>1. 0 \in S
    BY <1>2, <1>0 DEF IsReplay
  <2>2. ASSUME NEW n \in 0..Len(log), n \in S, n < Len(log) PROVE n + 1 \in S
    <3>1. g[n + 1] = Apply(g[n], log[n + 1]) /\ n + 1 \in 1..Len(log)
      BY <1>2, <2>2
    <3> QED BY <2>2, <3>1 DEF IsReplay
  <2>3. 0..Len(log) \subseteq S
    <3> HIDE DEF S
    <3> QED BY <1>0, <2>1, <2>2, UpTo
  <2>4. DOMAIN g = 0..Len(log) /\ DOMAIN f = 0..Len(log)
    BY <1>2 DEF IsReplay
  <2>5. g = [n \in 0..Len(log) |-> g[n]] /\ f = [n \in 0..Len(log) |-> f[n]]
    BY <1>2 DEF IsReplay
  <2> QED BY <2>3, <2>5
<1>3. (CHOOSE g : g = Step1(g)) = f
  BY <1>1, <1>2
<1>4. load_records(log) = (CHOOSE g : g = Step1(g))[Len(log)]
  BY DEF load_records
<1> QED BY <1>3, <1>4

\* An empty log has no memories, and one line more is applied to what there was.
LEMMA LoadValue ==
  ASSUME NEW log \in Seq(Records)
  PROVE  /\ load_records(log) \in Lives
         /\ log = <<>> => load_records(log) = NoMemories
         /\ \A r \in Records : load_records(Append(log, r)) = Apply(load_records(log), r)
<1> DEFINE k == Len(log)
<1>0. k \in Nat /\ (log = <<>> => k = 0)
  OBVIOUS
<1>1. PICK f : IsReplay(f, log, k)
  BY ReplayExists
<1>2. load_records(log) = f[k]
  BY <1>1, ReplayIs
<1>3. f[k] \in Lives
  BY <1>0, <1>1 DEF IsReplay
<1>4. log = <<>> => f[k] = NoMemories
  BY <1>0, <1>1 DEF IsReplay
<1>5. ASSUME NEW r \in Records PROVE load_records(Append(log, r)) = Apply(f[k], r)
  <2> DEFINE more == Append(log, r)
             g == [i \in 0..(k + 1) |-> IF i = k + 1 THEN Apply(f[k], r) ELSE f[i]]
  <2>1. more \in Seq(Records) /\ Len(more) = k + 1 /\ more[k + 1] = r
        /\ \A i \in 1..k : more[i] = log[i]
    OBVIOUS
  <2>2. Apply(f[k], r) \in Lives
    BY <1>3, ApplyValue
  <2> HIDE DEF more, k
  <2>3. g \in [0..(k + 1) -> Lives] /\ g[0] = NoMemories
    BY <1>0, <1>1, <2>2 DEF IsReplay
  <2>4. ASSUME NEW i \in 1..(k + 1) PROVE g[i] = Apply(g[i - 1], more[i])
    <3>1. g[i - 1] = f[i - 1]
      BY <1>0
    <3> QED BY <1>0, <1>1, <2>1, <3>1 DEF IsReplay
  <2>5. IsReplay(g, more, Len(more))
    BY <2>1, <2>3, <2>4 DEF IsReplay
  <2>6. load_records(more) = g[k + 1]
    BY <2>1, <2>5, ReplayIs
  <2> QED BY <1>0, <2>6 DEF more
<1> QED BY <1>2, <1>3, <1>4, <1>5

\* A memory is there only if the log adds it.
LEMMA LoadedWasAdded ==
  ASSUME NEW log \in Seq(Records), NEW m \in Adds, load_records(log)[m] # None
  PROVE  \E i \in DOMAIN log : log[i].id = m /\ log[i].op = "add"
<1>0. Len(log) \in Nat /\ DOMAIN log = 1..Len(log)
  OBVIOUS
<1>1. PICK f : IsReplay(f, log, Len(log))
  BY ReplayExists
<1> DEFINE S == {n \in 0..Len(log) :
                   f[n][m] # None => \E i \in 1..n : log[i].id = m /\ log[i].op = "add"}
<1>2. 0 \in S
  BY <1>0, <1>1 DEF IsReplay, NoMemories
<1>3. ASSUME NEW n \in 0..Len(log), n \in S, n < Len(log) PROVE n + 1 \in S
  <2>1. n + 1 \in 1..Len(log) /\ f[n + 1] = Apply(f[n], log[n + 1]) /\ f[n] \in Lives
        /\ log[n + 1] \in Records
    BY <1>0, <1>1, <1>3 DEF IsReplay
  <2>2. f[n + 1][m] # None => f[n][m] # None \/ (log[n + 1].op = "add" /\ m = log[n + 1].id)
    BY <2>1, ApplyValue
  <2> QED BY <1>3, <2>1, <2>2
<1>4. 0..Len(log) \subseteq S
  <2> HIDE DEF S
  <2> QED BY <1>0, <1>2, <1>3, UpTo
<1>5. Len(log) \in S
  BY <1>0, <1>4
<1> QED BY <1>0, <1>1, <1>5, ReplayIs

\* The copy that a compaction makes says what the log says, of no other memory.
LEMMA CompactedValue ==
  ASSUME NEW log \in Seq(Records)
  PROVE  /\ Compacted(log) \in Seq(Records)
         /\ InLines(Compacted(log)) \subseteq InLines(log)
         /\ load_records(Compacted(log)) = load_records(log)
<1> DEFINE k == Len(log)
           live == load_records(log)
           IsKept(r) == r.op = "add" /\ live[r.id] # None
           Line(n) == [log[n] EXCEPT !.value = live[log[n].id]]
           Next1(g, n) == IF n = 0 THEN <<>>
                          ELSE IF IsKept(log[n]) THEN Append(g[n - 1], Line(n)) ELSE g[n - 1]
           Step1(g) == [n \in 0..k |-> Next1(g, n)]
           Says(copy, n) ==
             /\ copy \in Seq(Records)
             /\ InLines(copy) \subseteq InLines(log)
             /\ \A m \in Adds : load_records(copy)[m] =
                  IF \E i \in 1..n : log[i].id = m /\ IsKept(log[i]) THEN live[m] ELSE None
           IsCopy(g, n) ==
             /\ DOMAIN g = 0..n
             /\ \A i \in 0..n : g[i] = Next1(g, i) /\ Says(g[i], i)
           S == {n \in 0..k : \E g : g = [i \in 0..n |-> g[i]] /\ IsCopy(g, n)}
<1>0. k \in Nat /\ DOMAIN log = 1..k /\ live \in Lives /\ \A n \in 1..k : log[n] \in Records
  BY LoadValue
<1>1. 0 \in S
  <2> DEFINE g == [i \in 0..0 |-> <<>>]
  <2>2. <<>> \in Seq(Records) /\ InLines(<<>>) = {}
    BY DEF InLines
  <2>1. load_records(<<>>) = NoMemories
    BY <2>2, LoadValue
  <2>3. Says(<<>>, 0)
    BY <2>1, <2>2 DEF NoMemories
  <2>4. IsCopy(g, 0)
    BY <2>3
  <2> HIDE DEF IsCopy
  <2> QED BY <1>0, <2>4
<1>2. ASSUME NEW n \in 0..k, n \in S, n < k PROVE n + 1 \in S
  <2>1. PICK g : g = [i \in 0..n |-> g[i]] /\ IsCopy(g, n)
    BY <1>2
  <2>2. n + 1 \in 1..k /\ log[n + 1] \in Records /\ Says(g[n], n)
    <3>1. n \in 0..n /\ n + 1 \in 1..k
      BY <1>0, <1>2
    <3> HIDE DEF Says, Next1
    <3> QED BY <1>0, <2>1, <3>1
  <2> DEFINE r == log[n + 1]
             copy == IF IsKept(r) THEN Append(g[n], Line(n + 1)) ELSE g[n]
             h == [i \in 0..(n + 1) |-> IF i = n + 1 THEN copy ELSE g[i]]
  <2>3. Says(copy, n + 1)
    <3>1. CASE ~IsKept(r)
      <4>1. copy = g[n]
        BY <3>1
      <4>2. \A m \in Adds : (\E i \in 1..(n + 1) : log[i].id = m /\ IsKept(log[i]))
                            <=> (\E i \in 1..n : log[i].id = m /\ IsKept(log[i]))
        BY <1>0, <2>2, <3>1
      <4> HIDE DEF copy, IsKept
      <4> QED BY <2>2, <4>1, <4>2
    <3>2. CASE IsKept(r)
      <4> DEFINE line == Line(n + 1)
      <4>1. r.op = "add" /\ r.id \in Adds /\ live[r.id] \in Calls
        BY <1>0, <2>2, <3>2 DEF Records, Lives
      <4>2. line = [op |-> "add", id |-> r.id, value |-> live[r.id]] /\ line \in Records
        BY <2>2, <4>1 DEF Records
      <4>3. copy = Append(g[n], line)
        BY <3>2
      <4> HIDE DEF line, copy
      <4>4. copy \in Seq(Records) /\ Len(copy) = Len(g[n]) + 1 /\ copy[Len(g[n]) + 1] = line
            /\ \A i \in 1..Len(g[n]) : copy[i] = g[n][i]
        BY <2>2, <4>2, <4>3
      <4>5. InLines(copy) \subseteq InLines(log)
        <5>1. InLines(copy) \subseteq InLines(g[n]) \cup {r.id}
          <6>1. \A i \in DOMAIN copy : i \in 1..Len(g[n]) \/ i = Len(g[n]) + 1
            BY <2>2, <4>4
          <6>2. DOMAIN g[n] = 1..Len(g[n])
            BY <2>2
          <6>3. line.id = r.id
            BY <4>2
          <6> QED BY <4>4, <6>1, <6>2, <6>3 DEF InLines
        <5>2. r.id \in InLines(log)
          BY <1>0, <2>2 DEF InLines
        <5> QED BY <2>2, <5>1, <5>2
      <4>6. load_records(copy) = Apply(load_records(g[n]), line)
        BY <2>2, <4>2, <4>3, LoadValue
      <4>7. load_records(g[n]) \in Lives
        BY <2>2, LoadValue
      <4>8. load_records(copy) = [load_records(g[n]) EXCEPT ![r.id] = live[r.id]]
        BY <4>2, <4>6 DEF Apply
      <4>9. \A m \in Adds : load_records(copy)[m] =
              IF \E i \in 1..(n + 1) : log[i].id = m /\ IsKept(log[i]) THEN live[m] ELSE None
        BY <1>0, <2>2, <3>2, <4>1, <4>7, <4>8 DEF Lives
      <4> QED BY <4>4, <4>5, <4>9
    <3> QED BY <3>1, <3>2
  <2>4. IsCopy(h, n + 1)
    <3>1. DOMAIN h = 0..(n + 1)
      OBVIOUS
    <3>2. ASSUME NEW i \in 0..n PROVE h[i] = Next1(h, i) /\ Says(h[i], i)
      <4>1. h[i] = g[i] /\ (i # 0 => h[i - 1] = g[i - 1])
        OBVIOUS
      <4>2. g[i] = Next1(g, i) /\ Says(g[i], i)
        BY <2>1
      <4> HIDE DEF h, Says
      <4> QED BY <4>1, <4>2
    <3>3. h[n + 1] = Next1(h, n + 1) /\ Says(h[n + 1], n + 1)
      <4>1. h[n + 1] = copy /\ h[(n + 1) - 1] = g[n]
        OBVIOUS
      <4> HIDE DEF h, Says
      <4> QED BY <2>3, <4>1
    <3>4. \A i \in 0..(n + 1) : i \in 0..n \/ i = n + 1
      OBVIOUS
    <3> HIDE DEF h, Says, Next1
    <3> QED BY <3>1, <3>2, <3>3, <3>4
  <2>5. h = [i \in 0..(n + 1) |-> h[i]]
    OBVIOUS
  <2> HIDE DEF IsCopy, h
  <2> QED BY <2>2, <2>4, <2>5
<1>3. k \in S
  <2>1. 0..k \subseteq S
    <3> HIDE DEF S
    <3> QED BY <1>0, <1>1, <1>2, UpTo
  <2> HIDE DEF S
  <2> QED BY <1>0, <2>1
<1>4. PICK f : f = [i \in 0..k |-> f[i]] /\ IsCopy(f, k)
  BY <1>3
<1>5. f = Step1(f)
  <2>1. \A i \in 0..k : f[i] = Next1(f, i)
    BY <1>4
  <2> HIDE DEF Next1, IsCopy
  <2> QED BY <1>4, <2>1
<1>6. ASSUME NEW g, g = Step1(g) PROVE g = f
  <2> DEFINE T == {n \in 0..k : g[n] = f[n]}
  <2>1. \A n \in 0..k : g[n] = Next1(g, n)
    <3> HIDE DEF Next1
    <3> QED BY <1>6
  <2>2. \A n \in 0..k : f[n] = Next1(f, n)
    BY <1>4
  <2>3. 0 \in T
    <3>1. 0 \in 0..k
      BY <1>0
    <3> HIDE DEF k, live, IsKept, Line
    <3> QED BY <2>1, <2>2, <3>1
  <2>4. ASSUME NEW n \in 0..k, n \in T, n < k PROVE n + 1 \in T
    <3>1. n + 1 \in 0..k /\ (n + 1) - 1 = n /\ n + 1 # 0 /\ g[n] = f[n]
      BY <1>0, <2>4
    <3>2. g[n + 1] = Next1(g, n + 1) /\ f[n + 1] = Next1(f, n + 1)
      BY <2>1, <2>2, <3>1
    <3> HIDE DEF k, live, IsKept, Line
    <3> QED BY <3>1, <3>2
  <2>5. 0..k \subseteq T
    <3> HIDE DEF T, k
    <3> QED BY <1>0, <2>3, <2>4, UpTo
  <2>6. g = [n \in 0..k |-> g[n]]
    <3> HIDE DEF Next1
    <3> QED BY <1>6
  <2> HIDE DEF IsCopy
  <2> QED BY <1>4, <2>5, <2>6
<1>7. Compacted(log) = (CHOOSE g : g = Step1(g))[k]
  BY DEF Compacted
<1>8. Compacted(log) = f[k]
  <2>1. (CHOOSE g : g = Step1(g)) = f
    <3> HIDE DEF Step1
    <3> QED BY <1>5, <1>6
  <2> HIDE DEF Step1
  <2> QED BY <1>7, <2>1
<1>9. Says(f[k], k)
  <2>1. k \in 0..k
    BY <1>0
  <2> HIDE DEF k, Says, Next1
  <2> QED BY <1>4, <2>1
<1>10. \A m \in Adds : load_records(f[k])[m] = live[m]
  <2>1. \A m \in Adds : live[m] # None => \E i \in 1..k : log[i].id = m /\ IsKept(log[i])
    BY <1>0, LoadedWasAdded
  <2> QED BY <1>9, <2>1
<1>11. load_records(f[k]) \in Lives
  BY <1>9, LoadValue
<1>12. load_records(f[k]) = live
  <2> HIDE DEF live
  <2> QED BY <1>0, <1>10, <1>11 DEF Lives
<1> QED BY <1>8, <1>9, <1>12

-----------------------------------------------------------------------------
\* What the lines and the texts of a state are about.
LEMMA Abouts ==
  ASSUME FileInv
  PROVE  /\ \A c \in Calls : Appends(c) => Record(c) \in Records
         /\ InLines(lines) \subseteq Adds /\ InFile \subseteq Adds /\ InTemps \subseteq Adds
         /\ Live \in Lives /\ due \in Lives /\ Compacted(lines) \in Seq(Records)
         /\ \A m \in Adds : Live[m] # None => m \in InLines(lines)
<1> USE DEF FileInv
<1>1. \A c \in Calls : Appends(c) => Record(c) \in Records
  BY DEF Appends, Record, Records, Placed
<1>2. \A log \in Seq(Records) : InLines(log) \subseteq Adds
  <2>1. \A log \in Seq(Records) : \A i \in DOMAIN log : log[i] \in Records
    OBVIOUS
  <2>2. \A r \in Records : r.id \in Adds
    BY DEF Records
  <2> QED BY <2>1, <2>2 DEF InLines
<1>3. InFile \subseteq Adds
  BY <1>2 DEF InFile, TypeOK, Placed
<1>4. InTemps \subseteq Adds
  BY <1>2 DEF InTemps, TypeOK
<1>5. Live \in Lives /\ due \in Lives /\ Compacted(lines) \in Seq(Records)
  BY LoadValue, CompactedValue DEF Live, TypeOK, Lives
<1>6. ASSUME NEW m \in Adds, Live[m] # None PROVE m \in InLines(lines)
  BY <1>6, LoadedWasAdded DEF Live, TypeOK, InLines
<1> QED BY <1>1, <1>2, <1>3, <1>4, <1>5, <1>6 DEF TypeOK

\* Nothing is stored, and no call was made.
LEMMA InitInv == Init => FileInv
<1> SUFFICES ASSUME Init PROVE FileInv
  OBVIOUS
<1> USE DEF Init
<1>1. <<>> \in Seq(Records) /\ InLines(<<>>) = {}
  BY DEF InLines
<1>2. load_records(<<>>) = NoMemories
  BY <1>1, LoadValue
<1>3. TypeOK
  <2>1. NoMemories \in [Adds -> Calls \cup {None}]
    BY DEF NoMemories
  <2> QED BY <1>1, <2>1 DEF TypeOK
<1>4. Placed
  <2>1. \A c \in Calls : Appends(c) => target[c] \in Adds
    BY FileMemoryAssumption DEF Appends
  <2> QED BY <2>1 DEF Placed, Writes
<1>5. Locked
  BY DEF Locked, Active
<1>6. InFile = {} /\ InTemps = {}
  BY <1>1 DEF InFile, InTemps
<1>7. Known
  BY <1>6 DEF Known, Writes
<1>8. Wrong = {}
  BY <1>2 DEF Wrong, Live
<1>9. Gone /\ Owed
  BY <1>8, FS_EmptySet DEF Gone, Owed, Pending
<1> QED BY <1>3, <1>4, <1>5, <1>7, <1>9 DEF FileInv

-----------------------------------------------------------------------------
\* The lock.
LEMMA LockedOver ==
  ASSUME FileInv, NEW c \in Calls, Over(c), UNCHANGED mixed
  PROVE  Locked'
  BY DEF FileInv, TypeOK, Locked, Over, At, Active

LEMMA LockedStep ==
  ASSUME FileInv, NEW c \in Calls, Active(c), NEW x, pc' = [pc EXCEPT ![c] = x],
         cut' \in {cut, cut \ {c}}, cut' # cut => x = "done",
         ~mixed => stray' \subseteq stray, UNCHANGED <<lock, mixed>>
  PROVE  Locked'
  BY DEF FileInv, TypeOK, Locked, Active

LEMMA LockedThrough ==
  ASSUME FileInv, NEW c \in Calls, Active(c), Through(c), UNCHANGED mixed
  PROVE  Locked' /\ \E x \in {"return", "done"} : pc' = [pc EXCEPT ![c] = x]
<1>1. CASE c \in cut
  <2>1. Over(c)
    BY <1>1 DEF Through
  <2> QED BY <2>1, LockedOver DEF Over, At
<1>2. CASE c \notin cut
  <2>1. pc' = [pc EXCEPT ![c] = "return"] /\ stray' = stray \ {c} /\ UNCHANGED <<cut, lock>>
    BY <1>2 DEF Through, At
  <2> QED BY <2>1, LockedStep
<1> QED BY <1>1, <1>2

\* The rest of the invariant, when a call goes on and no file changes.
LEMMA Goes ==
  ASSUME FileInv, NEW c \in Calls,
         NEW x \in {"load", "write", "unlink", "return", "done"},
         pc' = [pc EXCEPT ![c] = x],
         pc[c] # "done", pc[c] = "end" => mixed',
         x = "load" => Kind[c] # "add",
         x = "unlink" => Kind[c] = "forget_all",
         x = "write" => Appends(c),
         x = "write" => IF Kind[c] = "add" THEN pc[c] = "new" ELSE target[c] \in InLines(lines),
         UNCHANGED <<file, temp, target, due, torn, erased>>, mixed => mixed'
  PROVE  /\ Placed' /\ Known'
         /\ \A d \in torn' : pc'[d] = "done"
         /\ ~mixed' => Gone' /\ Owed'
<1> USE DEF FileInv
<1>1. UNCHANGED <<lines, open, Live, InFile, InTemps, Wrong, Pending>>
  BY DEF file, Live, InFile, InTemps, Wrong, Pending
<1>2. pc \in [Calls -> {"new", "load", "write", "end", "unlink", "replace", "return", "done"}]
      /\ torn \subseteq Calls /\ erased \subseteq Adds /\ Adds \subseteq Calls
  BY DEF TypeOK, Adds
<1>3. Placed'
  BY <1>1, <1>2 DEF Placed, Writes, Appends, file
<1>4. Known'
  <2>1. \A m \in InFile \cup InTemps : m \in Adds /\ pc[m] \notin {"new", "write"}
    BY Abouts DEF Known
  <2>2. ASSUME NEW m \in InFile \cup InTemps PROVE pc'[m] \notin {"new", "write"}
    <3>1. CASE m # c
      BY <1>2, <2>1, <3>1
    <3>2. CASE m = c
      <4>1. Kind[c] = "add" /\ pc[c] \notin {"new", "write"}
        BY <2>1, <3>2 DEF Adds
      <4> QED BY <1>2, <3>2, <4>1
    <3> QED BY <3>1, <3>2
  <2>3. ASSUME NEW d \in Calls, Writes(d)', Kind[d] # "add"
        PROVE  pc'[target[d]] \notin {"new", "write"}
    <3>1. CASE d # c
      <4>1. Writes(d) /\ target[d] \in Adds
        BY <1>2, <2>3, <3>1 DEF Writes, Placed
      <4>2. pc[target[d]] \notin {"new", "write"}
        BY <2>3, <4>1 DEF Known
      <4>3. target[d] = c => Kind[c] = "add"
        BY <4>1 DEF Adds
      <4> QED BY <1>2, <4>1, <4>2, <4>3
    <3>2. CASE d = c
      <4>1. x = "write" /\ target[c] \in InLines(lines)
        BY <1>2, <2>3, <3>2 DEF Writes
      <4>2. target[c] \in InFile
        BY <4>1 DEF InFile
      <4> QED BY <2>2, <3>2, <4>2
    <3> QED BY <3>1, <3>2
  <2> QED BY <1>1, <2>2, <2>3 DEF Known
<1>5. \A d \in torn' : pc'[d] = "done"
  BY <1>2
<1>6. ASSUME ~mixed' PROVE Gone'
  <2>1. Gone /\ ~mixed
    BY <1>6
  <2>2. ASSUME NEW m \in erased, NEW d \in Calls, Writes(d)' PROVE target[d] # m
    <3>1. CASE d # c
      BY <1>2, <2>1, <2>2, <3>1 DEF Gone, Writes
    <3>2. CASE d = c /\ Kind[c] = "add"
      BY <1>2, <2>1, <2>2, <3>2 DEF Gone, Writes, Placed
    <3>3. CASE d = c /\ Kind[c] # "add"
      <4>1. target[c] \in InFile
        BY <1>2, <2>2, <3>3 DEF Writes, InFile
      <4> QED BY <2>1, <3>3, <4>1 DEF Gone
    <3> QED BY <3>1, <3>2, <3>3
  <2>3. \A m \in erased : pc'[m] = "done" /\ m \notin InFile
    BY <1>2, <2>1 DEF Gone
  <2>4. \A m \in erased, d \in Calls : pc'[d] = "replace" => m \notin InLines(temp[d])
    BY <1>2, <2>1 DEF Gone
  <2> QED BY <1>1, <2>2, <2>3, <2>4 DEF Gone
<1>7. ASSUME ~mixed' PROVE Owed'
  <2>1. Owed /\ pc[c] # "end" /\ \A d \in Calls : pc'[d] \in {"end", "replace"} => d # c /\ pc'[d] = pc[d]
    BY <1>2, <1>7
  <2>2. \A d \in open : pc'[d] = "end" \/ d \in torn
    BY <1>2, <2>1 DEF Owed, TypeOK
  <2> QED BY <1>1, <2>1, <2>2 DEF Owed
<1> QED BY <1>3, <1>4, <1>5, <1>6, <1>7

-----------------------------------------------------------------------------
\* Calls that begin, look, fail before they write, return or are cancelled.
LEMMA EnterKeeps ==
  ASSUME FileInv, NEW c \in Calls, Acquire(c)
  PROVE  FileInv'
<1> USE DEF FileInv
<1> DEFINE x == IF Kind[c] = "add" THEN "write" ELSE "load"
<1>1. /\ pc[c] = "new" /\ lock = None /\ lock' = c /\ pc' = [pc EXCEPT ![c] = x]
      /\ mixed' = (mixed \/ cut # {})
      /\ UNCHANGED <<file, temp, target, cut, stray, ghosts>>
  BY DEF Acquire, Enter, At
<1>2. TypeOK'
  BY <1>1 DEF TypeOK, file, ghosts
<1>3. Locked'
  <2>1. \A d \in Calls : Active(d) => d \in cut
    BY <1>1, FileMemoryAssumption DEF Locked, Active
  <2>2. \A d \in Calls : Active(d)' => d = c \/ Active(d)
    BY <1>1 DEF TypeOK, Active
  <2> QED BY <1>1, <2>1, <2>2 DEF Locked, TypeOK
<1>4. /\ Placed' /\ Known'
      /\ \A d \in torn' : pc'[d] = "done"
      /\ ~mixed' => Gone' /\ Owed'
  BY <1>1, Goes DEF Appends, ghosts, TypeOK
<1> QED BY <1>2, <1>3, <1>4

LEMMA LookKeeps ==
  ASSUME FileInv, NEW c \in Calls,
         Find(c) \/ NotFound(c) \/ Unreadable(c) \/ Count(c) \/ NothingToCompact(c)
  PROVE  FileInv'
<1> USE DEF FileInv
<1>1. /\ pc[c] = "load" /\ Active(c) /\ Kind[c] # "add"
      /\ UNCHANGED <<file, temp, target, due, torn, erased, mixed>>
  BY DEF Find, NotFound, Unreadable, Count, NothingToCompact, ghosts, Active, Placed
<1>2. PICK x \in {"write", "unlink", "return", "done"} :
        /\ pc' = [pc EXCEPT ![c] = x]
        /\ x = "unlink" => Kind[c] = "forget_all"
        /\ x = "write" => Appends(c) /\ target[c] \in InLines(lines)
  <2>1. CASE Find(c)
    <3>1. target[c] \in Adds /\ Live[target[c]] # None /\ Appends(c)
      BY <2>1 DEF Find, Placed
    <3> QED BY <2>1, <3>1, Abouts DEF Find, At
  <2>2. CASE NotFound(c) \/ Unreadable(c)
    BY <2>2 DEF NotFound, Unreadable, Over, At
  <2>3. CASE Count(c)
    BY <2>3 DEF Count, At
  <2>4. CASE NothingToCompact(c)
    BY <1>1, <2>4, LockedThrough DEF NothingToCompact
  <2> QED BY <2>1, <2>2, <2>3, <2>4
<1>3. Locked'
  <2>1. CASE Find(c) \/ Count(c)
    BY <1>1, <1>2, <2>1, LockedStep DEF Find, Count
  <2>2. CASE NotFound(c) \/ Unreadable(c)
    BY <1>1, <2>2, LockedOver DEF NotFound, Unreadable
  <2>3. CASE NothingToCompact(c)
    BY <1>1, <2>3, LockedThrough DEF NothingToCompact
  <2> QED BY <2>1, <2>2, <2>3
<1>4. TypeOK'
  <2>1. /\ cut' \subseteq Calls /\ stray' \subseteq Calls /\ lock' \in Calls \cup {None}
    BY DEF TypeOK, Find, NotFound, Unreadable, Count, NothingToCompact, Through, Over
  <2>2. refused' \subseteq Adds
    BY Abouts DEF TypeOK, Find, NotFound, Unreadable, Count, NothingToCompact, ghosts
  <2> QED BY <1>1, <1>2, <2>1, <2>2 DEF TypeOK, file
<1>5. /\ Placed' /\ Known'
      /\ \A d \in torn' : pc'[d] = "done"
      /\ ~mixed' => Gone' /\ Owed'
  BY <1>1, <1>2, Goes
<1> QED BY <1>3, <1>4, <1>5

\* The end of a call, and of one that fails or is cancelled before it writes.
LEMMA EndKeeps ==
  ASSUME FileInv, NEW c \in Calls,
         \/ Return(c) \/ UnlinkFails(c)
         \/ /\ pc[c] \in {"new", "load", "write", "unlink", "return"}
            /\ Over(c)
            /\ UNCHANGED <<file, temp, target, ghosts, mixed>>
  PROVE  FileInv'
<1> USE DEF FileInv
<1>1. /\ pc[c] \in {"new", "load", "write", "unlink", "return"} /\ Over(c)
      /\ UNCHANGED <<file, temp, target, ghosts, mixed>>
  BY DEF Return, UnlinkFails
<1>2. Locked'
  BY <1>1, LockedOver
<1>3. TypeOK'
  BY <1>1 DEF Over, At, TypeOK, file, ghosts
<1>4. /\ Placed' /\ Known'
      /\ \A d \in torn' : pc'[d] = "done"
      /\ ~mixed' => Gone' /\ Owed'
  BY <1>1, Goes DEF Over, At, ghosts
<1> QED BY <1>2, <1>3, <1>4

\* A thread that runs on without its call.
LEMMA CutKeeps ==
  ASSUME FileInv, NEW c \in Calls,
         c \notin cut,
         pc[c] \in {"load", "write", "end", "unlink", "replace"},
         cut' = cut \cup {c}, lock' = None,
         UNCHANGED <<pc, stray, file, temp, target, ghosts, mixed>>
  PROVE  FileInv'
<1> USE DEF FileInv
<1>1. UNCHANGED <<lines, open, Live, InFile, InTemps, Wrong, Pending>>
  BY DEF file, ghosts, Live, InFile, InTemps, Wrong, Pending
<1>2. UNCHANGED <<pc, temp, target, torn, erased, due, mixed, stray>>
  BY DEF ghosts
<1>3. TypeOK'
  BY DEF TypeOK, file, ghosts
<1>4. Placed' /\ Known'
  BY <1>1, <1>2 DEF Placed, Known, Writes
<1>5. Locked'
  <2>1. lock = c /\ Active(c)
    BY DEF Locked, Active
  <2> QED BY <1>2, <2>1 DEF Locked, Active
<1>6. ~mixed' => Gone' /\ Owed'
  BY <1>1, <1>2 DEF Gone, Owed, Writes
<1> QED BY <1>2, <1>3, <1>4, <1>5, <1>6

LEMMA CancelKeeps ==
  ASSUME FileInv, NEW c \in Calls, Cancel(c)
  PROVE  FileInv'
<1>1. CASE pc[c] \in {"new", "load", "write", "unlink", "return"} /\ Over(c)
  BY <1>1, EndKeeps DEF Cancel
<1>2. CASE ~ (pc[c] \in {"new", "load", "write", "unlink", "return"} /\ Over(c))
  BY <1>2, CutKeeps DEF Cancel
<1> QED BY <1>1, <1>2

-----------------------------------------------------------------------------
\* The write of a line.
LEMMA Alone ==
  ASSUME FileInv, ~mixed, NEW c \in Calls, Active(c)
  PROVE  \A d \in Calls \ {c} : pc[d] \in {"new", "done"}
  BY DEF FileInv, Locked, Active

LEMMA StartKeeps ==
  ASSUME FileInv, NEW c \in Calls, WriteStart(c)
  PROVE  FileInv'
<1> USE DEF FileInv
<1>1. /\ pc[c] = "write" /\ exists' = TRUE /\ open' = open \cup {c} /\ pc' = [pc EXCEPT ![c] = "end"]
      /\ UNCHANGED <<lines, garbled, temp, lock, target, cut, stray, ghosts, mixed>>
      /\ Active(c) /\ Writes(c) /\ Appends(c) /\ c \notin torn
  BY DEF WriteStart, At, Active, Writes, Placed
<1>2. UNCHANGED <<due, torn, erased, refused, Live, Wrong, Pending, InTemps>>
      /\ InFile' = InFile \cup {target[c]}
  <2>1. UNCHANGED <<due, torn, erased, refused>>
    BY <1>1 DEF ghosts
  <2>2. Pending' = Pending
    BY <1>1, <2>1 DEF Pending
  <2>3. InFile' = InFile \cup {target[c]}
    BY <1>1 DEF InFile
  <2> QED BY <1>1, <2>1, <2>2, <2>3 DEF Live, Wrong, InTemps
<1>3. TypeOK'
  BY <1>1, <1>2 DEF TypeOK
<1>4. Placed'
  BY <1>1 DEF Placed, Writes, TypeOK
<1>5. Locked'
  BY <1>1, LockedStep
<1>6. Known'
  <2>1. \A m \in InFile \cup InTemps : pc'[m] \notin {"new", "write"}
    BY <1>1, Abouts DEF Known, TypeOK
  <2>2. pc'[target[c]] \notin {"new", "write"}
    BY <1>1 DEF Known, TypeOK, Placed, Appends
  <2>3. \A d \in Calls : Writes(d)' /\ Kind[d] # "add" => pc'[target[d]] \notin {"new", "write"}
    BY <1>1, <2>2 DEF Known, TypeOK, Writes
  <2> QED BY <1>1, <1>2, <2>1, <2>2, <2>3 DEF Known
<1>7. ASSUME ~mixed' PROVE Gone'
  BY <1>1, <1>2, <1>7 DEF Gone, TypeOK, Writes
<1>8. ASSUME ~mixed' PROVE Owed'
  BY <1>1, <1>2, <1>8 DEF Owed, TypeOK
<1> QED BY <1>1, <1>2, <1>3, <1>4, <1>5, <1>6, <1>7, <1>8 DEF TypeOK

\* A line that lands alone makes no memory wrong; one that is glued to a text
\* without its end makes its own wrong, and takes the text with it.
LEMMA WrongAfter ==
  ASSUME FileInv, NEW c \in Calls, Appends(c), due' = Apply(due, Record(c)), UNCHANGED target,
         \/ lines' = Append(lines, Record(c))
         \/ lines' = lines
  PROVE  /\ Wrong' \subseteq Wrong \cup {target[c]}
         /\ lines' = Append(lines, Record(c)) => Wrong' \subseteq Wrong
         /\ due' \in Lives
<1> DEFINE r == Record(c)
<1>1. r \in Records /\ r.id = target[c] /\ Live \in Lives /\ due \in Lives
  BY Abouts DEF Record
<1> HIDE DEF r
<1>2. due' = Apply(due, r) /\ due' \in Lives /\ \A m \in Adds \ {r.id} : due'[m] = due[m]
  <2>1. due' = Apply(due, r)
    BY DEF r
  <2> QED BY <1>1, <2>1, ApplyValue
<1>3. CASE lines' = Append(lines, r)
  <2>1. Live' = Apply(Live, r)
    BY <1>1, <1>3, LoadValue DEF Live, FileInv, TypeOK
  <2>2. \A m \in Adds \ {r.id} : Live'[m] = Live[m]
    BY <1>1, <2>1, ApplyValue
  <2>3. Live[r.id] = due[r.id] => Live'[r.id] = due'[r.id]
    BY <1>1, <1>2, <2>1, ApplyValue
  <2> QED BY <1>1, <1>2, <2>2, <2>3 DEF Wrong
<1>4. CASE lines' = lines /\ lines' # Append(lines, r)
  <2>1. Live' = Live
    BY <1>4 DEF Live
  <2> QED BY <1>1, <1>2, <1>4, <2>1 DEF Wrong, r
<1> QED BY <1>3, <1>4 DEF r

LEMMA LandKeeps ==
  ASSUME FileInv, NEW c \in Calls, NEW alone \in BOOLEAN, Writes(c), Land(c, alone),
         ~mixed /\ ~alone => \E d \in open : d # c
  PROVE  FileInv'
<1> USE DEF FileInv
<1>1. /\ exists' = TRUE /\ open' = {} /\ due' = Apply(due, Record(c)) /\ Through(c)
      /\ lines' = IF alone THEN Append(lines, Record(c)) ELSE lines
      /\ UNCHANGED <<garbled, temp, target, torn, erased, refused, mixed>>
  BY DEF Land
<1>2. Active(c) /\ Appends(c) /\ target[c] \in Adds /\ Record(c) \in Records /\ Record(c).id = target[c]
  <2>1. Active(c) /\ Appends(c)
    BY DEF Writes, Active, Placed
  <2> QED BY <2>1, Abouts DEF Placed, Record
<1>3. Locked' /\ \E x \in {"return", "done"} : pc' = [pc EXCEPT ![c] = x]
  BY <1>1, <1>2, LockedThrough
<1>4. /\ Wrong' \subseteq Wrong \cup {target[c]}
      /\ alone => Wrong' \subseteq Wrong
      /\ due' \in Lives
  BY <1>1, <1>2, WrongAfter
<1>5. lines' \in Seq(Records) /\ InLines(lines') \subseteq InLines(lines) \cup {target[c]}
  <2>1. CASE alone
    <3>1. lines' = Append(lines, Record(c)) /\ lines \in Seq(Records)
      BY <1>1, <2>1 DEF TypeOK
    <3>2. lines' \in Seq(Records) /\ \A i \in DOMAIN lines' :
            (i \in DOMAIN lines /\ lines'[i] = lines[i]) \/ lines'[i] = Record(c)
      BY <1>2, <3>1
    <3> QED BY <1>2, <3>2 DEF InLines
  <2>2. CASE ~alone
    BY <1>1, <2>2 DEF TypeOK, InLines
  <2> QED BY <2>1, <2>2
<1>6. InFile' \subseteq InFile \cup {target[c]} /\ InTemps' = InTemps
  <2>1. InFile' = InLines(lines')
    BY <1>1 DEF InFile
  <2> QED BY <1>1, <1>5, <2>1 DEF InFile, InTemps
<1>7. TypeOK'
  <2>1. cut' \subseteq Calls /\ stray' \subseteq Calls /\ lock' \in Calls \cup {None}
    BY <1>1 DEF TypeOK, Through, Over
  <2>2. due' \in [Adds -> Calls \cup {None}]
    BY <1>4 DEF Lives
  <2> QED BY <1>1, <1>3, <1>5, <2>1, <2>2 DEF TypeOK
<1>8. Placed'
  BY <1>1, <1>3 DEF Placed, Writes, TypeOK
<1>9. \A d \in torn' : pc'[d] = "done"
  BY <1>1, <1>2, <1>3 DEF TypeOK, Active
<1>10. pc'[target[c]] \notin {"new", "write"}
  <2>1. CASE Kind[c] = "add"
    BY <1>3, <2>1 DEF Placed, TypeOK
  <2>2. CASE Kind[c] # "add"
    BY <1>2, <1>3, <2>2 DEF Known, TypeOK
  <2> QED BY <2>1, <2>2
<1>11. Known'
  <2>1. \A m \in InFile \cup InTemps : pc'[m] \notin {"new", "write"}
    BY <1>3, Abouts DEF Known, TypeOK
  <2>2. \A d \in Calls : Writes(d)' /\ Kind[d] # "add" => pc'[target[d]] \notin {"new", "write"}
    BY <1>3 DEF Known, TypeOK, Writes
  <2> QED BY <1>1, <1>6, <1>10, <2>1, <2>2 DEF Known
<1>12. ASSUME ~mixed' PROVE Gone'
  <2>1. Gone /\ target[c] \notin erased
    BY <1>1, <1>12 DEF Gone, Writes
  <2> QED BY <1>1, <1>3, <1>6, <2>1 DEF Gone, TypeOK, Writes
<1>13. ASSUME ~mixed' PROVE Owed'
  <2>1. Owed /\ \A d \in Calls \ {c} : pc[d] \in {"new", "done"}
    BY <1>1, <1>2, <1>13, Alone
  <2>2. \A d \in Calls : pc'[d] \notin {"end", "replace"}
    BY <1>3, <2>1 DEF TypeOK
  <2>3. Pending' = 0
    BY <1>1 DEF Pending
  <2>4. ~alone => Pending = 1
    <3>1. ~alone => \E d \in open : d # c
      BY <1>1, <1>13
    <3> QED BY <2>1, <3>1 DEF Pending, Owed, TypeOK
  <2>5. IsFiniteSet(Wrong \cup {target[c]})
        /\ Cardinality(Wrong \cup {target[c]}) <= Cardinality(Wrong) + 1
        /\ Cardinality(Wrong) \in Nat /\ Cardinality(torn) \in Nat
    <3>1. IsFiniteSet(Wrong) /\ IsFiniteSet(torn)
      BY <2>1 DEF Owed
    <3>2. Cardinality(Wrong) \in Nat /\ Cardinality(torn) \in Nat
      BY <3>1, FS_CardinalityType
    <3>3. IsFiniteSet(Wrong \cup {target[c]})
          /\ Cardinality(Wrong \cup {target[c]}) \in {Cardinality(Wrong), Cardinality(Wrong) + 1}
      BY <3>1, FS_AddElement
    <3> QED BY <3>2, <3>3
  <2>6. IsFiniteSet(Wrong') /\ Cardinality(Wrong') \in Nat
        /\ Cardinality(Wrong') <= Cardinality(Wrong \cup {target[c]})
    BY <1>4, <2>5, FS_Subset, FS_CardinalityType
  <2>7. alone => Cardinality(Wrong') <= Cardinality(Wrong)
    BY <1>4, <2>1, FS_Subset DEF Owed
  <2>8. Cardinality(Wrong') <= Cardinality(torn)
    <3>1. CASE alone
      BY <2>1, <2>5, <2>6, <2>7, <3>1 DEF Owed, Pending
    <3>2. CASE ~alone
      <4>1. Cardinality(Wrong \cup {target[c]}) \in Nat
        BY <2>5, FS_CardinalityType
      <4> QED BY <2>1, <2>4, <2>5, <2>6, <3>2, <4>1 DEF Owed
    <3> QED BY <3>1, <3>2
  <2> QED BY <1>1, <2>1, <2>2, <2>3, <2>6, <2>8 DEF Owed
<1> QED BY <1>3, <1>7, <1>8, <1>9, <1>11, <1>12, <1>13

LEMMA WriteKeeps ==
  ASSUME FileInv, NEW c \in Calls, WriteLine(c) \/ WriteEnd(c)
  PROVE  FileInv'
<1> USE DEF FileInv
<1>1. CASE WriteLine(c)
  <2>1. ~mixed /\ open # {} => \E d \in open : d # c
    BY <1>1 DEF WriteLine, Owed
  <2>2. Writes(c) /\ Land(c, open = {}) /\ (open = {}) \in BOOLEAN
    BY <1>1 DEF WriteLine, Writes
  <2> QED BY <2>1, <2>2, LandKeeps
<1>2. CASE WriteEnd(c) /\ Land(c, open = {c})
  <2>1. ~mixed /\ open # {c} => \E d \in open : d # c
    BY <1>2 DEF WriteEnd, Owed
  <2>2. Writes(c) /\ Land(c, open = {c}) /\ (open = {c}) \in BOOLEAN
    BY <1>2 DEF WriteEnd, Writes
  <2> QED BY <2>1, <2>2, LandKeeps
<1>3. CASE WriteEnd(c) /\ ~Land(c, open = {c})
  <2>1. /\ pc[c] = "end" /\ c \in stray /\ Through(c) /\ Active(c) /\ mixed
        /\ UNCHANGED <<file, temp, target, ghosts, mixed>>
    BY <1>3 DEF WriteEnd, Active, Locked
  <2>2. Locked' /\ \E x \in {"return", "done"} : pc' = [pc EXCEPT ![c] = x]
    BY <2>1, LockedThrough
  <2>3. TypeOK'
    <3>1. cut' \subseteq Calls /\ stray' \subseteq Calls /\ lock' \in Calls \cup {None}
      BY <2>1 DEF TypeOK, Through, Over
    <3> QED BY <2>1, <2>2, <3>1 DEF TypeOK, file, ghosts
  <2>4. /\ Placed' /\ Known'
        /\ \A d \in torn' : pc'[d] = "done"
        /\ ~mixed' => Gone' /\ Owed'
    BY <2>1, <2>2, Goes DEF ghosts
  <2> QED BY <2>2, <2>3, <2>4
<1> QED BY <1>1, <1>2, <1>3

\* A text that is cut off costs one memory, and only when a line is glued to it.
LEMMA FailKeeps ==
  ASSUME FileInv, NEW c \in Calls, WriteFails(c)
  PROVE  FileInv'
<1> USE DEF FileInv
<1>1. /\ Writes(c) /\ Active(c) /\ Appends(c) /\ target[c] \in Adds
      /\ pc' = [pc EXCEPT ![c] = "done"] /\ Over(c)
      /\ open' \in {open, open \cup {c}} /\ torn' = torn \cup (open' \cap {c})
      /\ exists' \in BOOLEAN /\ garbled' \in BOOLEAN
      /\ pc[c] = "end" => open' = open
      /\ UNCHANGED <<lines, temp, target, due, erased, refused, mixed>>
      /\ c \notin torn
  BY DEF WriteFails, Writes, Active, Placed, Over, At, Tear, TypeOK
<1>2. InFile' \subseteq InFile \cup {target[c]} /\ UNCHANGED <<Live, Wrong, InTemps>>
  BY <1>1 DEF InFile, Live, Wrong, InTemps
<1>3. TypeOK'
  BY <1>1 DEF TypeOK, Over
<1>4. Placed'
  BY <1>1 DEF Placed, Writes, TypeOK
<1>5. Locked'
  BY <1>1, LockedOver
<1>6. Known'
  <2>1. \A m \in InFile \cup InTemps : pc'[m] \notin {"new", "write"}
    BY <1>1, Abouts DEF Known, TypeOK
  <2>2. pc'[target[c]] \notin {"new", "write"}
    <3>1. CASE Kind[c] = "add"
      BY <1>1, <3>1 DEF Placed, TypeOK
    <3>2. CASE Kind[c] # "add"
      BY <1>1, <3>2 DEF Known, TypeOK
    <3> QED BY <3>1, <3>2
  <2>3. \A d \in Calls : Writes(d)' /\ Kind[d] # "add" => pc'[target[d]] \notin {"new", "write"}
    BY <1>1 DEF Known, TypeOK, Writes
  <2> QED BY <1>1, <1>2, <2>1, <2>2, <2>3 DEF Known
<1>7. \A d \in torn' : pc'[d] = "done"
  BY <1>1 DEF TypeOK
<1>8. ASSUME ~mixed' PROVE Gone'
  <2>1. Gone /\ target[c] \notin erased
    BY <1>1, <1>8 DEF Gone
  <2> QED BY <1>1, <1>2, <2>1 DEF Gone, TypeOK, Writes
<1>9. ASSUME ~mixed' PROVE Owed'
  <2>1. Owed /\ \A d \in Calls \ {c} : pc[d] \in {"new", "done"}
    BY <1>1, <1>9, Alone
  <2>2. \A d \in Calls : pc'[d] \notin {"end", "replace"}
    BY <1>1, <2>1 DEF TypeOK
  <2>3. \A d \in open' : d \in torn'
    BY <1>1, <2>1 DEF Owed, TypeOK
  <2>4. Cardinality(Wrong) \in Nat /\ Cardinality(torn) \in Nat
    BY <2>1, FS_CardinalityType DEF Owed
  <2>5. IsFiniteSet(torn') /\ Cardinality(Wrong) + Pending' <= Cardinality(torn')
    <3>1. CASE c \in open'
      <4>1. torn' = torn \cup {c}
        BY <1>1, <3>1
      <4>2. IsFiniteSet(torn) /\ c \notin torn
        BY <1>1, <2>1 DEF Owed
      <4>3. IsFiniteSet(torn \cup {c}) /\ Cardinality(torn \cup {c}) = Cardinality(torn) + 1
        BY <4>2, FS_AddElement
      <4> QED BY <2>1, <2>4, <4>1, <4>3 DEF Owed, Pending
    <3>2. CASE c \notin open'
      <4>1. torn' = torn /\ open' = open
        BY <1>1, <3>2
      <4> QED BY <2>1, <4>1 DEF Owed, Pending
    <3> QED BY <3>1, <3>2
  <2> QED BY <1>2, <2>1, <2>2, <2>3, <2>5 DEF Owed
<1> QED BY <1>3, <1>4, <1>5, <1>6, <1>7, <1>8, <1>9

-----------------------------------------------------------------------------
\* The copy that a compaction makes, and what becomes of it.
LEMMA TempLines ==
  ASSUME TypeOK, NEW c \in Calls, NEW log, temp' = [temp EXCEPT ![c] = log]
  PROVE  /\ InTemps' \subseteq InTemps \cup InLines(log)
         /\ InLines(temp[c]) \subseteq InTemps
         /\ temp'[c] = log
         /\ \A d \in Calls \ {c} : temp'[d] = temp[d]
<1>1. \A d \in Calls : temp'[d] = IF d = c THEN log ELSE temp[d]
  BY DEF TypeOK
<1>2. InTemps' = UNION {InLines(temp'[d]) : d \in Calls}
  BY DEF InTemps, InLines
<1>3. ASSUME NEW m \in InTemps' PROVE m \in InTemps \cup InLines(log)
  <2>1. PICK d \in Calls : m \in InLines(temp'[d])
    BY <1>2
  <2>2. m \in InLines(IF d = c THEN log ELSE temp[d])
    BY <1>1, <2>1
  <2> QED BY <2>2 DEF InTemps
<1> QED BY <1>1, <1>3 DEF InTemps

LEMMA CopyKeeps ==
  ASSUME FileInv, NEW c \in Calls, Copy(c)
  PROVE  FileInv'
<1> USE DEF FileInv
<1> DEFINE log == Compacted(lines)
<1>1. /\ pc[c] = "load" /\ Kind[c] = "compact" /\ Active(c) /\ c \notin torn /\ c \notin Adds
      /\ temp' = [temp EXCEPT ![c] = log] /\ pc' = [pc EXCEPT ![c] = "replace"]
      /\ UNCHANGED <<file, lock, target, cut, stray, ghosts, mixed>>
  BY DEF Copy, At, Active, Adds
<1>2. /\ log \in Seq(Records) /\ InLines(log) \subseteq InFile /\ load_records(log) = Live
  BY CompactedValue DEF InFile, Live, TypeOK
<1> HIDE DEF log
<1>3. /\ InTemps' \subseteq InTemps \cup InFile /\ temp'[c] = log
      /\ \A d \in Calls \ {c} : temp'[d] = temp[d]
  BY <1>1, <1>2, TempLines
<1>4. UNCHANGED <<lines, open, due, torn, erased, Live, InFile, Wrong, Pending>>
  BY <1>1 DEF file, ghosts, Live, InFile, Wrong, Pending
<1>5. TypeOK'
  BY <1>1, <1>2 DEF TypeOK, file, ghosts
<1>6. Placed'
  BY <1>1, <1>4 DEF Placed, Writes, TypeOK
<1>7. Locked'
  BY <1>1, LockedStep
<1>8. Known'
  <2>1. \A m \in InFile \cup InTemps : pc'[m] \notin {"new", "write"}
    BY <1>1, Abouts DEF Known, TypeOK
  <2>2. \A d \in Calls : Writes(d)' /\ Kind[d] # "add" => pc'[target[d]] \notin {"new", "write"}
    BY <1>1 DEF Known, TypeOK, Writes
  <2> QED BY <1>1, <1>3, <1>4, <2>1, <2>2 DEF Known
<1>9. \A d \in torn' : pc'[d] = "done"
  BY <1>1, <1>4 DEF TypeOK
<1>10. ASSUME ~mixed' PROVE Gone'
  <2>1. Gone
    BY <1>1, <1>10
  <2>2. \A m \in erased : pc'[m] = "done"
    BY <1>1, <2>1 DEF Gone, TypeOK
  <2>3. \A m \in erased, d \in Calls : pc'[d] = "replace" => m \notin InLines(temp'[d])
    <3>1. \A m \in erased, d \in Calls \ {c} : pc'[d] = "replace" => m \notin InLines(temp'[d])
      BY <1>1, <1>3, <2>1 DEF Gone, TypeOK
    <3>2. \A m \in erased : m \notin InLines(temp'[c])
      BY <1>2, <1>3, <2>1 DEF Gone
    <3> QED BY <3>1, <3>2
  <2>4. \A m \in erased, d \in Calls : Writes(d)' => target[d] # m
    BY <1>1, <2>1 DEF Gone, Writes, TypeOK
  <2> QED BY <1>1, <1>4, <2>1, <2>2, <2>3, <2>4 DEF Gone, InLines
<1>11. ASSUME ~mixed' PROVE Owed'
  <2>1. Owed
    BY <1>1, <1>11
  <2>2. \A d \in Calls : pc'[d] = "replace" => load_records(temp'[d]) = Live
    BY <1>1, <1>2, <1>3, <2>1 DEF Owed, TypeOK
  <2>3. \A d \in Calls : pc'[d] = "end" <=> pc[d] = "end"
    BY <1>1 DEF TypeOK
  <2> QED BY <1>4, <2>1, <2>2, <2>3 DEF Owed, TypeOK
<1> QED BY <1>5, <1>6, <1>7, <1>8, <1>9, <1>10, <1>11

LEMMA CompactFailsKeeps ==
  ASSUME FileInv, NEW c \in Calls, CompactFails(c)
  PROVE  FileInv'
<1> USE DEF FileInv
<1>1. /\ pc[c] = "replace" /\ Over(c) /\ c \notin Adds
      /\ temp' = [temp EXCEPT ![c] = <<>>] /\ pc' = [pc EXCEPT ![c] = "done"]
      /\ UNCHANGED <<file, target, ghosts, mixed>>
  BY DEF CompactFails, Over, At, Placed, Adds
<1>2. InLines(<<>>) = {} /\ <<>> \in Seq(Records)
  BY DEF InLines
<1>3. InTemps' \subseteq InTemps /\ \A d \in Calls \ {c} : temp'[d] = temp[d]
  BY <1>1, <1>2, TempLines
<1>4. UNCHANGED <<lines, open, due, torn, erased, Live, InFile, Wrong, Pending>>
  BY <1>1 DEF file, ghosts, Live, InFile, Wrong, Pending
<1>5. TypeOK'
  BY <1>1, <1>2 DEF TypeOK, file, ghosts, Over
<1>6. Placed'
  BY <1>1, <1>4 DEF Placed, Writes, TypeOK
<1>7. Locked'
  BY <1>1, LockedOver
<1>8. Known'
  <2>1. \A m \in InFile \cup InTemps : pc'[m] \notin {"new", "write"}
    BY <1>1, Abouts DEF Known, TypeOK
  <2>2. \A d \in Calls : Writes(d)' /\ Kind[d] # "add" => pc'[target[d]] \notin {"new", "write"}
    BY <1>1 DEF Known, TypeOK, Writes
  <2> QED BY <1>1, <1>3, <1>4, <2>1, <2>2 DEF Known
<1>9. \A d \in torn' : pc'[d] = "done"
  BY <1>1, <1>4 DEF TypeOK
<1>10. ASSUME ~mixed' PROVE Gone'
  <2>1. Gone
    BY <1>1, <1>10
  <2>2. \A m \in erased : pc'[m] = "done"
    BY <1>1, <2>1 DEF Gone, TypeOK
  <2>3. \A m \in erased, d \in Calls : pc'[d] = "replace" => m \notin InLines(temp'[d])
    BY <1>1, <1>3, <2>1 DEF Gone, TypeOK
  <2>4. \A m \in erased, d \in Calls : Writes(d)' => target[d] # m
    BY <1>1, <2>1 DEF Gone, Writes, TypeOK
  <2> QED BY <1>1, <1>4, <2>1, <2>2, <2>3, <2>4 DEF Gone, InLines
<1>11. ASSUME ~mixed' PROVE Owed'
  <2>1. Owed
    BY <1>1, <1>11
  <2>2. \A d \in Calls : pc'[d] = "replace" => load_records(temp'[d]) = Live
    BY <1>1, <1>3, <2>1 DEF Owed, TypeOK
  <2>3. \A d \in Calls : pc'[d] = "end" <=> pc[d] = "end"
    BY <1>1 DEF TypeOK
  <2> QED BY <1>4, <2>1, <2>2, <2>3 DEF Owed, TypeOK
<1> QED BY <1>5, <1>6, <1>7, <1>8, <1>9, <1>10, <1>11

-----------------------------------------------------------------------------
\* The steps that put another file in the place of the log.  Whoever is alone
\* leaves no thread behind that has the old one open.
LEMMA NoStrays ==
  ASSUME FileInv, NEW c \in Calls, pc[c] \in {"unlink", "replace"}, ~mixed
  PROVE  Strays = {}
<1>1. Active(c)
  BY DEF Active
<1> QED BY <1>1, Alone DEF Strays

LEMMA LockedSwap ==
  ASSUME FileInv, NEW c \in Calls, pc[c] \in {"unlink", "replace"},
         stray' = stray \cup Strays, cut' = cut \ {c},
         IF c \in cut THEN At(c, "done") ELSE At(c, "return"), UNCHANGED <<lock, mixed>>
  PROVE  Locked' /\ \E x \in {"return", "done"} : pc' = [pc EXCEPT ![c] = x]
<1>1. PICK x \in {"return", "done"} : pc' = [pc EXCEPT ![c] = x] /\ (c \in cut => x = "done")
  BY DEF At
<1>2. Active(c) /\ (~mixed => stray' \subseteq stray)
  BY NoStrays DEF Active
<1>3. cut' # cut => x = "done"
  BY <1>1
<1> QED BY <1>1, <1>2, <1>3, LockedStep

LEMMA ReplaceKeeps ==
  ASSUME FileInv, NEW c \in Calls, Replace(c)
  PROVE  FileInv'
<1> USE DEF FileInv
<1>1. /\ pc[c] = "replace" /\ Active(c) /\ c \notin torn /\ c \notin Adds
      /\ exists' = TRUE /\ garbled' = FALSE /\ lines' = temp[c] /\ open' = {}
      /\ temp' = [temp EXCEPT ![c] = <<>>] /\ stray' = stray \cup Strays /\ cut' = cut \ {c}
      /\ UNCHANGED <<lock, target, due, torn, erased, refused, mixed>>
  BY DEF Replace, Active, Placed, Adds, ghosts
<1>2. Locked' /\ \E x \in {"return", "done"} : pc' = [pc EXCEPT ![c] = x]
  BY <1>1, LockedSwap DEF Replace
<1>3. InLines(<<>>) = {} /\ <<>> \in Seq(Records)
  BY DEF InLines
<1>4. InTemps' \subseteq InTemps /\ InLines(temp[c]) \subseteq InTemps
  BY <1>1, <1>3, TempLines
<1>5. InFile' = InLines(temp[c]) /\ Pending' = 0
  BY <1>1 DEF InFile, Pending
<1>6. TypeOK'
  <2>1. stray' \subseteq Calls /\ temp[c] \in Seq(Records)
    BY <1>1 DEF TypeOK, Strays
  <2> QED BY <1>1, <1>2, <1>3, <2>1 DEF TypeOK
<1>7. Placed'
  BY <1>1, <1>2 DEF Placed, Writes, TypeOK
<1>8. Known'
  <2>1. \A m \in InFile \cup InTemps : pc'[m] \notin {"new", "write"}
    BY <1>2, Abouts DEF Known, TypeOK
  <2>2. \A d \in Calls : Writes(d)' /\ Kind[d] # "add" => pc'[target[d]] \notin {"new", "write"}
    BY <1>2 DEF Known, TypeOK, Writes
  <2> QED BY <1>1, <1>4, <1>5, <2>1, <2>2 DEF Known
<1>9. \A d \in torn' : pc'[d] = "done"
  BY <1>1, <1>2 DEF TypeOK
<1>10. ASSUME ~mixed' PROVE \A d \in Calls : pc'[d] \notin {"write", "end", "replace"}
  <2>1. \A d \in Calls \ {c} : pc[d] \in {"new", "done"}
    BY <1>1, <1>10, Alone
  <2> QED BY <1>2, <2>1 DEF TypeOK
<1>11. ASSUME ~mixed' PROVE Gone'
  <2>1. Gone
    BY <1>1, <1>11
  <2>2. \A m \in erased : pc'[m] = "done" /\ m \notin InFile'
    BY <1>1, <1>2, <1>5, <2>1 DEF Gone, TypeOK
  <2> QED BY <1>1, <1>10, <1>11, <2>2 DEF Gone, Writes
<1>12. ASSUME ~mixed' PROVE Owed'
  <2>1. Owed
    BY <1>1, <1>12
  <2>2. Live' = Live
    BY <1>1, <2>1 DEF Live, Owed
  <2>3. Wrong' = Wrong
    BY <1>1, <2>2 DEF Wrong
  <2>4. Cardinality(Wrong) \in Nat /\ Cardinality(torn) \in Nat
    BY <2>1, FS_CardinalityType DEF Owed
  <2>5. Cardinality(Wrong) + 0 <= Cardinality(torn)
    BY <2>1, <2>4 DEF Owed, Pending
  <2> QED BY <1>1, <1>5, <1>10, <1>12, <2>1, <2>3, <2>5 DEF Owed
<1> QED BY <1>2, <1>6, <1>7, <1>8, <1>9, <1>11, <1>12

LEMMA UnlinkKeeps ==
  ASSUME FileInv, NEW c \in Calls, Unlink(c)
  PROVE  FileInv'
<1> USE DEF FileInv
<1>1. /\ pc[c] = "unlink" /\ Active(c) /\ c \notin torn /\ c \notin Adds
      /\ exists' = FALSE /\ garbled' = FALSE /\ lines' = <<>> /\ open' = {}
      /\ due' = NoMemories /\ erased' = erased \cup InFile \cup InTemps
      /\ stray' = stray \cup Strays /\ cut' = cut \ {c}
      /\ UNCHANGED <<temp, lock, target, torn, refused, mixed>>
  BY DEF Unlink, Active, Placed, Adds
<1>2. Locked' /\ \E x \in {"return", "done"} : pc' = [pc EXCEPT ![c] = x]
  BY <1>1, LockedSwap DEF Unlink
<1>3. InLines(<<>>) = {} /\ <<>> \in Seq(Records)
  BY DEF InLines
<1>4. InTemps' = InTemps /\ InFile' = {} /\ Pending' = 0
  BY <1>1, <1>3 DEF InTemps, InFile, Pending
<1>5. Wrong' = {}
  <2>1. Live' = NoMemories
    BY <1>1, <1>3, LoadValue DEF Live
  <2> QED BY <1>1, <2>1 DEF Wrong
<1>6. TypeOK'
  <2>1. stray' \subseteq Calls /\ NoMemories \in [Adds -> Calls \cup {None}]
    BY <1>1 DEF TypeOK, Strays, NoMemories
  <2> QED BY <1>1, <1>2, <1>3, <2>1, Abouts DEF TypeOK
<1>7. Placed'
  BY <1>1, <1>2 DEF Placed, Writes, TypeOK
<1>8. Known'
  <2>1. \A m \in InFile \cup InTemps : pc'[m] \notin {"new", "write"}
    BY <1>2, Abouts DEF Known, TypeOK
  <2>2. \A d \in Calls : Writes(d)' /\ Kind[d] # "add" => pc'[target[d]] \notin {"new", "write"}
    BY <1>2 DEF Known, TypeOK, Writes
  <2> QED BY <1>1, <1>4, <2>1, <2>2 DEF Known
<1>9. \A d \in torn' : pc'[d] = "done"
  BY <1>1, <1>2 DEF TypeOK
<1>10. ASSUME ~mixed' PROVE \A d \in Calls \ {c} : pc[d] \in {"new", "done"}
  BY <1>1, <1>10, Alone
<1>11. ASSUME ~mixed' PROVE \A d \in Calls : pc'[d] \notin {"write", "end", "replace"}
  BY <1>2, <1>10, <1>11 DEF TypeOK
<1>12. ASSUME ~mixed' PROVE Gone'
  <2>1. Gone
    BY <1>1, <1>12
  <2>2. \A m \in erased : pc'[m] = "done"
    BY <1>1, <1>2, <2>1 DEF Gone, TypeOK
  <2>3. \A m \in InFile \cup InTemps : pc'[m] = "done"
    <3>1. \A m \in InFile \cup InTemps : m \in Calls \ {c} /\ pc[m] # "new"
      BY <1>1, Abouts DEF Known, Adds
    <3> QED BY <1>2, <1>10, <1>12, <3>1 DEF TypeOK
  <2>4. \A m \in erased' : pc'[m] = "done"
    BY <1>1, <2>2, <2>3
  <2> QED BY <1>4, <1>11, <1>12, <2>4 DEF Gone, Writes
<1>13. ASSUME ~mixed' PROVE Owed'
  <2>1. Owed
    BY <1>1, <1>13
  <2>2. Cardinality(torn) \in Nat /\ IsFiniteSet({}) /\ Cardinality({}) = 0
    BY <2>1, FS_CardinalityType, FS_EmptySet DEF Owed
  <2> QED BY <1>1, <1>4, <1>5, <1>11, <1>13, <2>1, <2>2 DEF Owed
<1> QED BY <1>2, <1>6, <1>7, <1>8, <1>9, <1>12, <1>13

\* A crash cuts off at most the one text that is being written.
LEMMA CrashKeeps ==
  ASSUME FileInv, Crash
  PROVE  FileInv'
<1> USE DEF FileInv
<1> DEFINE T == {c \in open : pc[c] = "end"}
<1>1. /\ pc' = [c \in Calls |-> IF pc[c] = "new" THEN "new" ELSE "done"]
      /\ torn' = torn \cup T /\ garbled' \in BOOLEAN
      /\ lock' = None /\ cut' = {} /\ stray' = {}
      /\ UNCHANGED <<exists, lines, open, temp, target, due, erased, refused, mixed>>
  BY DEF Crash, Tear, TypeOK
<1>2. UNCHANGED <<Live, Wrong, InFile, InTemps>>
  BY <1>1 DEF Live, Wrong, InFile, InTemps
<1>3. T \subseteq Calls /\ \A c \in T : pc[c] = "end"
  BY DEF TypeOK
<1>4. \A c \in open : pc[c] = "end" => c \in T
  OBVIOUS
<1> HIDE DEF T
<1>5. TypeOK'
  BY <1>1, <1>3 DEF TypeOK
<1>6. \A c \in Calls : pc'[c] \in {"new", "done"} /\ (pc'[c] = "new" <=> pc[c] = "new")
  BY <1>1
<1>7. Placed'
  BY <1>1, <1>6 DEF Placed, Writes
<1>8. Locked'
  BY <1>1, <1>6 DEF Locked, Active
<1>9. Known'
  <2>1. \A m \in InFile \cup InTemps : pc'[m] \notin {"new", "write"}
    BY <1>6, Abouts DEF Known, Adds
  <2> QED BY <1>1, <1>2, <1>6, <2>1 DEF Known, Writes
<1>10. \A d \in torn' : pc'[d] = "done"
  BY <1>1, <1>3, <1>6 DEF TypeOK
<1>11. ASSUME ~mixed' PROVE Gone'
  <2>1. Gone
    BY <1>1, <1>11
  <2>2. \A m \in erased : pc'[m] = "done"
    BY <1>6, <2>1 DEF Gone, TypeOK, Adds
  <2> QED BY <1>1, <1>2, <1>6, <2>1, <2>2 DEF Gone, Writes
<1>12. ASSUME ~mixed' PROVE Owed'
  <2>1. Owed
    BY <1>1, <1>12
  <2>2. Cardinality(Wrong) \in Nat /\ Cardinality(torn) \in Nat
    BY <2>1, FS_CardinalityType DEF Owed
  <2>3. IsFiniteSet(torn') /\ Cardinality(Wrong) + Pending' <= Cardinality(torn')
    <3>1. CASE T = {}
      <4>1. torn' = torn
        BY <1>1, <3>1
      <4> QED BY <1>1, <2>1, <4>1 DEF Owed, Pending
    <3>2. CASE T # {}
      <4>1. PICK c \in T : TRUE
        BY <3>2
      <4>2. c \in Calls /\ Active(c) /\ c \notin torn
        BY <1>3, <4>1 DEF Active
      <4>3. T = {c}
        BY <1>1, <1>3, <1>12, <4>1, <4>2, Alone
      <4>4. IsFiniteSet(torn') /\ Cardinality(torn') = Cardinality(torn) + 1
        BY <1>1, <2>1, <4>2, <4>3, FS_AddElement DEF Owed
      <4> QED BY <2>1, <2>2, <4>4 DEF Owed, Pending
    <3> QED BY <3>1, <3>2
  <2>4. \A d \in open : d \in torn'
    BY <1>1, <1>4, <2>1 DEF Owed
  <2> QED BY <1>1, <1>2, <1>6, <2>1, <2>3, <2>4 DEF Owed
<1> QED BY <1>5, <1>7, <1>8, <1>9, <1>10, <1>11, <1>12

-----------------------------------------------------------------------------
\* Every step keeps the invariant.
LEMMA NextInv ==
  ASSUME FileInv, [Next]_vars
  PROVE  FileInv'
<1>1. CASE Crash
  BY <1>1, CrashKeeps
<1>2. ASSUME NEW c \in Calls, Cancel(c) PROVE FileInv'
  BY <1>2, CancelKeeps
<1>3. ASSUME NEW c \in Calls, Step(c) PROVE FileInv'
  <2>1. CASE Acquire(c)
    BY <2>1, EnterKeeps
  <2>2. CASE Find(c) \/ NotFound(c) \/ Unreadable(c) \/ Count(c) \/ NothingToCompact(c)
    BY <2>2, LookKeeps
  <2>3. CASE WriteLine(c) \/ WriteEnd(c)
    BY <2>3, WriteKeeps
  <2>4. CASE WriteStart(c)
    BY <2>4, StartKeeps
  <2>5. CASE WriteFails(c)
    BY <2>5, FailKeeps
  <2>6. CASE Unlink(c)
    BY <2>6, UnlinkKeeps
  <2>7. CASE UnlinkFails(c) \/ Return(c)
    BY <2>7, EndKeeps
  <2>8. CASE Copy(c)
    BY <2>8, CopyKeeps
  <2>9. CASE Replace(c)
    BY <2>9, ReplaceKeeps
  <2>10. CASE CompactFails(c)
    BY <2>10, CompactFailsKeeps
  <2> QED BY <1>3, <2>1, <2>2, <2>3, <2>4, <2>5, <2>6, <2>7, <2>8, <2>9, <2>10 DEF Step
<1>4. CASE UNCHANGED vars
  <2>1. UNCHANGED <<exists, lines, open, garbled, temp, lock, pc, target, cut, stray,
                    due, torn, erased, refused, mixed>>
    BY <1>4 DEF vars, file, ghosts
  <2>2. UNCHANGED <<Live, InFile, InTemps, Wrong, Pending>>
    BY <2>1 DEF Live, InFile, InTemps, Wrong, Pending
  <2>3. TypeOK' /\ Placed' /\ Locked' /\ Known' /\ \A c \in torn' : pc'[c] = "done"
    BY <2>1, <2>2 DEF FileInv, TypeOK, Placed, Locked, Known, Writes, Active
  <2>4. ~mixed' => Gone' /\ Owed'
    BY <2>1, <2>2 DEF FileInv, Gone, Owed, Writes
  <2> QED BY <2>3, <2>4 DEF FileInv
<1> QED BY <1>1, <1>2, <1>3, <1>4 DEF Next

\* The invariant of the log: calls stand where their methods have a step, they
\* exclude each other unless one was let in beside a thread that runs on, and
\* what the file says differs from what the calls amount to by no more than the
\* lines that were left without their end.
THEOREM Invariance == Spec => []FileInv
<1>1. Init => FileInv
  BY InitInv
<1>2. FileInv /\ [Next]_vars => FileInv'
  BY NextInv
<1> QED BY <1>1, <1>2, PTL DEF Spec

\* Every variable keeps its type, whatever is interleaved, cancelled or cut off.
THEOREM TypeCorrect == Spec => []TypeOK
<1>1. FileInv => TypeOK
  BY DEF FileInv
<1> QED BY <1>1, Invariance, PTL

\* A line that a full disk or a crash leaves without its end costs at most one
\* memory, however the calls of add, update, remove, forget_all and compact of
\* FileMemoryStore are interleaved, and a compaction in between costs none.
THEOREM TornCostsOneHolds == Spec => []TornCostsOne
<1>1. FileInv => TornCostsOne
  <2> SUFFICES ASSUME FileInv, ~mixed PROVE Cardinality(Wrong) <= Cardinality(torn)
    BY DEF TornCostsOne, Wrong
  <2>1. Owed
    BY DEF FileInv
  <2>2. Cardinality(Wrong) \in Nat /\ Cardinality(torn) \in Nat
    BY <2>1, FS_CardinalityType DEF Owed
  <2> QED BY <2>1, <2>2 DEF Owed, Pending
<1> QED BY <1>1, Invariance, PTL

\* No compaction, update or thread of an earlier call brings a memory back to
\* the log after forget_all deleted it.
THEOREM StaysForgottenHolds == Spec => []StaysForgotten
<1>1. FileInv => StaysForgotten
  BY DEF FileInv, StaysForgotten, Gone
<1> QED BY <1>1, Invariance, PTL
=============================================================================
