-------------------------- MODULE AgentTurnProofs --------------------------
(***************************************************************************)
(* Proofs about run_agent's loop.  The first part is about AgentTurn: the  *)
(* store, the gate and the budgets, with messages of any size.  The second *)
(* is about GroundedTurn: what its messages carry, with any replies, tool  *)
(* results, paths and chunks.                                              *)
(***************************************************************************)
EXTENDS AgentTurn, GroundedTurn, FiniteSetTheorems, SequenceTheorems, WellFoundedInduction, TLAPS

Recording == {"record", "recorded"}

\* What the last message is, per place, and how far its calls are answered.
Placed ==
  /\ Len(said) >= 1
  /\ pc = "record" => persist
  /\ pc = "done" <=> ending # None
  /\ orphan => persist /\ pc = "done" /\ ending = "left"
  /\ pc \in {"ask", "exhausted"} => Last.kind # "assistant"
  /\ pc = "judge" =>
       Last.kind = "assistant" /\ (Last.stop # "tool_use" \/ Last.calls = <<>>)
  /\ pc \in {"call", "tool"} =>
       /\ Last.kind = "assistant" /\ Last.stop = "tool_use" /\ Last.calls # <<>>
       /\ at \in 1..(Len(Last.calls) + 1)
       /\ Len(answers) = at - 1
  /\ pc = "tool" => at <= Len(Last.calls)

\* The calls before the one being handled are answered in their order.
Answered ==
  pc \in {"call", "tool"} => \A i \in 1..Len(answers) : answers[i] = Last.calls[i]

\* The rounds that the retries already charged have paid for.
Spent == (MaxRetries - retries) * MaxIterations

Looping ==
  pc \in {"ask", "call", "tool", "judge"} \/ (pc \in Recording /\ Last.kind # "user")

Budgeted ==
  /\ Looping => iteration < MaxIterations /\ asked <= Spent + iteration + 1
  /\ pc \in Recording /\ Last.kind = "user" => asked = 0
  /\ pc \in Recording /\ Last.kind = "feedback" => retries > 0
  /\ pc = "exhausted" => asked <= Spent + iteration
  /\ CostIsBounded

\* The store lacks the last message at most, and only while it is written or
\* after its write was cut short.
Stored ==
  persist =>
    /\ Len(store) \in {Len(said) - 1, Len(said)}
    /\ pc = "record" \/ orphan => Len(store) = Len(said) - 1
    /\ pc \notin {"record", "done"} \/ ending = "complete" => Len(store) = Len(said)
    /\ \A i \in 1..Len(store) : store[i] = said[i]

\* Each message follows from the one before.
Follows ==
  /\ \A k \in 1..Len(said) : said[k].kind = "results" =>
       k > 1 /\ said[k-1].kind = "assistant" /\ said[k-1].calls = said[k].calls
  /\ \A k \in 1..Len(said) :
       /\ k < Len(said) /\ said[k].kind = "assistant"
       /\ said[k].stop = "tool_use" /\ said[k].calls # <<>>
       => said[k+1].kind = "results"
  /\ ending = "complete" /\ Last.kind = "assistant" =>
       Last.stop # "tool_use" \/ Last.calls = <<>>

\* A call acted at most once, as a call of a message that asked for it, and
\* of the last message only the calls handled so far.
Acts ==
  /\ \A j \in 1..Len(acted) :
       LET k == acted[j][1] IN
       /\ k \in 1..Len(said)
       /\ said[k].kind = "assistant" /\ said[k].stop = "tool_use"
       /\ acted[j][2] \in 1..Len(said[k].calls)
       /\ persist => k <= Len(store)
       /\ pc \in Recording => k < Len(said)
       /\ pc = "call" /\ k = Len(said) => acted[j][2] < at
       /\ pc = "tool" /\ k = Len(said) => acted[j][2] <= at
  /\ \A i, j \in 1..Len(acted) : acted[i] = acted[j] => i = j

TurnInv == TypeOK /\ Placed /\ Answered /\ Budgeted /\ Stored /\ Follows /\ Acts

-----------------------------------------------------------------------------
\* Messages are built from their three fields.
LEMMA MessageType ==
  ASSUME NEW kind \in Kinds, NEW c \in Seq(Nat), NEW stop \in StopReasons
  PROVE  /\ Message(kind, c, stop) \in Messages
         /\ Message(kind, c, stop).kind = kind
         /\ Message(kind, c, stop).calls = c
         /\ Message(kind, c, stop).stop = stop
BY DEF Message, Messages

LEMMA TextType ==
  ASSUME NEW kind \in Kinds
  PROVE  Text(kind) \in Messages /\ Text(kind).kind = kind
<1>1. <<>> \in Seq(Nat) /\ "other" \in StopReasons
  BY DEF StopReasons
<1> QED BY <1>1 DEF Text, Message, Messages

\* The charged rounds and one attempt more stay within the whole budget.
LEMMA Product ==
  ASSUME NEW m \in Nat, NEW n \in Nat, NEW r \in 0..m
  PROVE  /\ (m - r) * n \in Nat
         /\ (m - r) * n + n <= n * (m + 1)
         /\ (m - (r - 1)) * n = (m - r) * n + n
<1>1. m - r \in Nat /\ r \in Nat
  OBVIOUS
<1>2. (m - r) * n \in Nat
  BY <1>1
<1>3. r * n \in Nat /\ m * n \in Nat
  BY <1>1
<1>4. (m - r) * n = m * n - r * n
  BY <1>1
<1>5. n * (m + 1) = m * n + n
  OBVIOUS
<1>6. (m - (r - 1)) * n = m * n - r * n + n
  BY <1>1
<1> QED BY <1>2, <1>3, <1>4, <1>5, <1>6

\* What appending a message to history does.
LEMMA SayFacts ==
  ASSUME TypeOK, Len(said) >= 1, NEW m \in Messages, Say(m)
  PROVE  /\ said' \in Seq(Messages)
         /\ Len(said') = Len(said) + 1
         /\ \A i \in 1..Len(said) : said'[i] = said[i]
         /\ said'[Len(said) + 1] = m
         /\ Last' = m
         /\ pc' \in Recording
         /\ pc' = "record" <=> persist
BY DEF TypeOK, Say, Last, Recording

LEMMA LastType ==
  ASSUME TypeOK, Len(said) >= 1
  PROVE  /\ Last \in Messages /\ Last.kind \in Kinds
         /\ Last.calls \in Seq(Nat) /\ Last.stop \in StopReasons
         /\ Len(Last.calls) \in Nat
<1>1. said \in Seq(Messages) /\ Len(said) \in 1..Len(said)
  BY DEF TypeOK
<1>2. Last \in Messages
  BY <1>1, ElementOfSeq DEF Last
<1>3. Last.kind \in Kinds /\ Last.calls \in Seq(Nat) /\ Last.stop \in StopReasons
  BY <1>2 DEF Messages
<1> QED BY <1>2, <1>3, LenProperties

LEMMA InitInv == Init => TurnInv
<1> SUFFICES ASSUME Init PROVE TurnInv
  OBVIOUS
<1>1. Text("user") \in Messages /\ Text("user").kind = "user"
  BY TextType DEF Kinds
<1>2. /\ said \in Seq(Messages) /\ Len(said) = 1 /\ said[1].kind = "user"
      /\ Last.kind = "user"
  BY <1>1 DEF Init, Last
<1>3. <<>> \in Seq(Messages) /\ <<>> \in Seq(Nat) /\ <<>> \in Seq(Nat \X Nat) /\ Len(<<>>) = 0
  OBVIOUS
<1>4. TypeOK
  <2>1. iteration \in 0..MaxIterations /\ retries \in 0..MaxRetries /\ asked \in Nat /\ at \in Nat
    BY BoundsAssumption DEF Init
  <2>2. pc \in Places /\ persist \in BOOLEAN /\ validating \in BOOLEAN /\ orphan \in BOOLEAN
    BY DEF Init, Places
  <2> QED BY <1>2, <1>3, <2>1, <2>2 DEF Init, TypeOK
<1>5. Placed /\ Answered
  BY <1>2 DEF Init, Placed, Answered
<1>6. Budgeted
  <2>1. Spent \in Nat /\ Spent + MaxIterations <= MaxIterations * (MaxRetries + 1)
    BY BoundsAssumption, Product DEF Init, Spent
  <2> QED BY <1>2, <2>1, BoundsAssumption DEF Init, Budgeted, Looping, Recording, CostIsBounded
<1>7. Stored
  <2>1. Len(store) = 0 /\ pc \in Recording /\ ending = None /\ orphan = FALSE
    BY <1>3 DEF Init, Recording
  <2>2. persist => pc = "record"
    BY DEF Init
  <2> QED BY <1>2, <2>1, <2>2 DEF Stored, Recording, None
<1>8. Follows
  BY <1>2 DEF Init, Follows, None
<1>9. Acts
  BY <1>3 DEF Init, Acts
<1> QED BY <1>4, <1>5, <1>6, <1>7, <1>8, <1>9 DEF TurnInv

-----------------------------------------------------------------------------
(***************************************************************************)
(* The steps that append a message to history: the two places that speak   *)
(* after an attempt at an answer and the one that reports the calls.       *)
(***************************************************************************)
LEMMA SayInv ==
  ASSUME TurnInv, NEW m \in Messages, Say(m),
         UNCHANGED <<config, store, orphan, loop, calls, ending>>,
         pc \in {"ask", "call", "judge"}, m.kind # "user",
         m.kind = "feedback" => retries > 0,
         m.kind = "results" => Last.kind = "assistant" /\ Last.calls = m.calls,
         pc = "call" => m.kind = "results"
  PROVE  TurnInv'
<1>0. UNCHANGED <<persist, validating, store, orphan, iteration, retries, asked,
                  at, answers, acted, ending>>
  BY DEF config, loop, calls
<1>1. /\ said' \in Seq(Messages) /\ Len(said') = Len(said) + 1
      /\ \A i \in 1..Len(said) : said'[i] = said[i]
      /\ said'[Len(said) + 1] = m /\ Last' = m
      /\ pc' \in Recording
      /\ pc' = "record" <=> persist
  BY SayFacts DEF TurnInv, Placed
<1>2. Len(said) \in Nat /\ Len(said) >= 1 /\ Len(store) \in Nat /\ Len(acted) \in Nat
  BY DEF TurnInv, TypeOK, Placed
<1>n. /\ Len(said') = Len(said) + 1
      /\ \A i \in 1..Len(said) : said'[i] = said[i]
      /\ said'[Len(said) + 1] = m
  BY <1>1
<1>3. ending = None /\ orphan = FALSE /\ Looping
  BY DEF TurnInv, TypeOK, Placed, Looping
<1>4. TypeOK'
  BY <1>0, <1>1 DEF TurnInv, TypeOK, Recording, Places
<1>5. Placed'
  BY <1>0, <1>1, <1>2, <1>3 DEF TurnInv, Placed, Recording
<1>6. Answered'
  BY <1>0, <1>1 DEF Answered, Recording
<1>7. Budgeted'
  BY <1>0, <1>1, <1>3 DEF TurnInv, Budgeted, Looping, Recording, Spent, CostIsBounded
<1>8. Stored'
  <2>1. persist => Len(store) = Len(said) /\ \A i \in 1..Len(store) : store[i] = said[i]
    BY DEF TurnInv, Stored
  <2>2. pc' \in {"record", "recorded"} /\ (persist => pc' = "record")
       /\ ending' # "complete" /\ ~orphan'
    BY <1>0, <1>1, <1>3 DEF Recording, None
  <2>3. persist' => Len(store') = Len(said') - 1 /\ \A i \in 1..Len(store') : store'[i] = said'[i]
    <3> SUFFICES ASSUME persist
                 PROVE  Len(store) = Len(said') - 1 /\ \A i \in 1..Len(store) : store[i] = said'[i]
      BY <1>0
    <3>1. Len(store) = Len(said)
      BY <2>1
    <3>2. ASSUME NEW i \in 1..Len(store) PROVE store[i] = said'[i]
      BY <1>n, <2>1, <3>1
    <3> QED BY <1>n, <1>2, <3>1, <3>2
  <2> QED BY <1>2, <1>0, <1>n, <2>2, <2>3 DEF Stored
<1>9. Follows'
  <2>1. ASSUME NEW k \in 1..Len(said'), said'[k].kind = "results"
        PROVE  k > 1 /\ said'[k-1].kind = "assistant" /\ said'[k-1].calls = said'[k].calls
    <3>1. CASE k = Len(said) + 1
      BY <1>0, <1>n, <1>2, <2>1, <3>1 DEF Last
    <3>2. CASE k \in 1..Len(said)
      BY <1>0, <1>n, <1>2, <2>1, <3>2 DEF TurnInv, Follows
    <3> QED BY <1>n, <1>2, <3>1, <3>2
  <2>2. ASSUME NEW k \in 1..Len(said'), k < Len(said'), said'[k].kind = "assistant",
               said'[k].stop = "tool_use", said'[k].calls # <<>>
        PROVE  said'[k+1].kind = "results"
    <3>1. k \in 1..Len(said) /\ said'[k] = said[k]
      BY <1>0, <1>n, <1>2, <2>2
    <3>2. CASE k < Len(said)
      BY <1>0, <1>n, <1>2, <2>2, <3>1, <3>2 DEF TurnInv, Follows
    <3>3. CASE k = Len(said)
      <4>1. Last.kind = "assistant" /\ Last.stop = "tool_use" /\ Last.calls # <<>>
        BY <2>2, <3>1, <3>3 DEF Last
      <4>2. pc = "call"
        BY <4>1 DEF TurnInv, Placed
      <4> QED BY <1>0, <1>1, <3>3, <4>2
    <3> QED BY <1>2, <3>1, <3>2, <3>3
  <2> QED BY <1>0, <1>3, <2>1, <2>2 DEF Follows, None
<1>10. Acts'
  <2>1. ASSUME NEW j \in 1..Len(acted)
        PROVE  /\ acted[j][1] \in 1..Len(said) /\ said'[acted[j][1]] = said[acted[j][1]]
               /\ said[acted[j][1]].kind = "assistant"
               /\ said[acted[j][1]].stop = "tool_use"
               /\ acted[j][2] \in 1..Len(said[acted[j][1]].calls)
               /\ persist => acted[j][1] <= Len(store)
    BY <1>n DEF TurnInv, Acts
  <2>2. \A i, j \in 1..Len(acted) : acted[i] = acted[j] => i = j
    BY DEF TurnInv, Acts
  <2>3. pc' \in {"record", "recorded"}
    BY <1>1 DEF Recording
  <2>4. acted' = acted /\ Len(said) < Len(said')
    BY <1>0, <1>n, <1>2
  <2>5. ASSUME NEW j \in 1..Len(acted)
        PROVE  /\ acted[j][1] \in 1..Len(said') /\ acted[j][1] < Len(said')
               /\ persist' => acted[j][1] <= Len(store')
    BY <1>0, <1>n, <1>2, <2>1, <2>4
  <2> QED BY <2>1, <2>2, <2>3, <2>4, <2>5 DEF Acts, Recording
<1> QED BY <1>4, <1>5, <1>6, <1>7, <1>8, <1>9, <1>10 DEF TurnInv

-----------------------------------------------------------------------------
(***************************************************************************)
(* The steps that leave history and the store alone.  They differ in where *)
(* they go and in what they count.                                         *)
(***************************************************************************)
Still == UNCHANGED <<persist, validating, said, store>>

LEMMA StillFacts ==
  ASSUME TurnInv, Still
  PROVE  /\ Last' = Last /\ Last \in Messages /\ Len(Last.calls) \in Nat
         /\ Len(said) \in Nat /\ Len(said) >= 1 /\ Len(store) \in Nat
         /\ Len(acted) \in Nat /\ Len(answers) \in Nat
         /\ Last.kind \in Kinds
<1>1. TypeOK /\ Len(said) >= 1
  BY DEF TurnInv, Placed
<1> QED BY <1>1, LastType DEF Still, Last, TypeOK

LEMMA StillStored ==
  ASSUME TurnInv, Still,
         orphan' => orphan \/ pc = "record",
         pc' = "record" => pc = "record",
         pc = "done" => pc' = "done",
         (pc' \notin {"record", "done"} \/ ending' = "complete") =>
           (pc \notin {"record", "done"} \/ ending = "complete")
  PROVE  Stored'
BY DEF TurnInv, Stored, Still

LEMMA StillFollows ==
  ASSUME TurnInv, Still,
         ending' = "complete" =>
           (ending = "complete" \/ pc \in {"judge", "exhausted"})
  PROVE  Follows'
<1>1. Last' = Last
  BY DEF Still, Last
<1>2. said' = said
  BY DEF Still
<1>3. ending' = "complete" /\ Last.kind = "assistant" =>
        Last.stop # "tool_use" \/ Last.calls = <<>>
  BY DEF TurnInv, Follows, Placed
<1> QED BY <1>1, <1>2, <1>3 DEF TurnInv, Follows

\* The acts are those there were, and the last message's are still behind at.
LEMMA StillActs ==
  ASSUME TurnInv, Still, acted' = acted,
         pc' \in Recording => pc \in Recording,
         pc' \in {"call", "tool"} =>
           \/ pc \in Recording
           \/ pc = "tool" /\ pc' = "call" /\ at' = at + 1
           \/ pc = "call" /\ pc' = "call" /\ at' = at + 1
  PROVE  Acts'
<1>1. \A i, j \in 1..Len(acted) : acted[i] = acted[j] => i = j
  BY DEF TurnInv, Acts
<1>2. ASSUME NEW j \in 1..Len(acted)
      PROVE  LET k == acted[j][1] IN
             /\ k \in 1..Len(said)
             /\ said[k].kind = "assistant" /\ said[k].stop = "tool_use"
             /\ acted[j][2] \in 1..Len(said[k].calls)
             /\ persist => k <= Len(store)
             /\ pc' \in Recording => k < Len(said)
             /\ pc' = "call" /\ k = Len(said) => acted[j][2] < at'
             /\ pc' = "tool" /\ k = Len(said) => acted[j][2] <= at'
  <2>1. acted[j][1] \in Nat /\ acted[j][2] \in Nat /\ at \in Nat /\ Len(said) \in Nat
    <3>1. acted[j] \in Nat \X Nat
      BY ElementOfSeq DEF TurnInv, TypeOK
    <3> QED BY <3>1 DEF TurnInv, TypeOK
  <2>2. LET k == acted[j][1] IN
             /\ k \in 1..Len(said)
             /\ said[k].kind = "assistant" /\ said[k].stop = "tool_use"
             /\ acted[j][2] \in 1..Len(said[k].calls)
             /\ persist => k <= Len(store)
             /\ pc \in Recording => k < Len(said)
             /\ pc = "call" /\ k = Len(said) => acted[j][2] < at
             /\ pc = "tool" /\ k = Len(said) => acted[j][2] <= at
    BY DEF TurnInv, Acts
  <2>3. /\ pc' \in Recording => pc \in Recording
        /\ pc' = "call" =>
             pc \in Recording \/ (pc \in {"call", "tool"} /\ at' = at + 1)
        /\ pc' = "tool" => pc \in Recording
    OBVIOUS
  <2>4. /\ pc' = "call" /\ acted[j][1] = Len(said) => acted[j][2] < at'
        /\ pc' = "tool" /\ acted[j][1] = Len(said) => acted[j][2] <= at'
    BY <2>1, <2>2, <2>3 DEF Recording
  <2> QED BY <2>2, <2>3, <2>4
<1> QED BY <1>1, <1>2 DEF Acts, Still

-----------------------------------------------------------------------------
LEMMA SpentFacts ==
  ASSUME TurnInv
  PROVE  /\ Spent \in Nat /\ Spent + MaxIterations <= MaxIterations * (MaxRetries + 1)
         /\ (MaxRetries - (retries - 1)) * MaxIterations = Spent + MaxIterations
         /\ iteration \in 0..MaxIterations /\ asked \in Nat /\ MaxIterations \in Nat
         /\ retries \in 0..MaxRetries /\ MaxRetries \in Nat
<1>1. iteration \in 0..MaxIterations /\ asked \in Nat /\ retries \in 0..MaxRetries
  BY DEF TurnInv, TypeOK
<1> QED BY <1>1, BoundsAssumption, Product DEF Spent

\* The loop is entered again: the next round is charged or there is none.
LEMMA IterateInv ==
  ASSUME TurnInv, NEW n \in 0..MaxIterations, Iterate(n), pc = "recorded",
         UNCHANGED <<config, said, store, orphan, calls, ending>>,
         Last.kind # "assistant",
         retries' \in 0..MaxRetries,
         asked <= (MaxRetries - retries') * MaxIterations + n
  PROVE  TurnInv'
<1>0. /\ UNCHANGED <<persist, validating, said, store, orphan, at, answers, acted, ending>>
      /\ Still
  BY DEF config, calls, Still
<1>1. pc' \in {"ask", "exhausted"} /\ iteration' = n /\ asked' \in {asked, asked + 1}
  BY DEF Iterate
<1>2. Last' = Last /\ Len(said) >= 1
  BY <1>0, StillFacts
<1>3. TypeOK'
  BY <1>0, <1>1 DEF TurnInv, TypeOK, Places
<1>4. Placed' /\ Answered'
  BY <1>0, <1>1, <1>2 DEF TurnInv, Placed, Answered
<1>5. Budgeted'
  <2> DEFINE S == (MaxRetries - retries') * MaxIterations
  <2>1. S \in Nat /\ S + MaxIterations <= MaxIterations * (MaxRetries + 1)
    BY BoundsAssumption, Product
  <2>2. asked \in Nat /\ n \in Nat /\ n <= MaxIterations /\ MaxIterations \in Nat
    BY BoundsAssumption DEF TurnInv, TypeOK
  <2>3. IF n < MaxIterations THEN pc' = "ask" /\ asked' = asked + 1
                             ELSE pc' = "exhausted" /\ asked' = asked
    BY DEF Iterate
  <2>4. Spent' = S
    BY DEF Spent
  <2>5. asked <= S + n
    OBVIOUS
  <2>6. asked' <= S + MaxIterations
    BY <2>1, <2>2, <2>3, <2>5
  <2>7. asked' <= MaxIterations * (MaxRetries + 1)
    <3> HIDE DEF S
    <3>1. MaxIterations * (MaxRetries + 1) \in Nat
      BY BoundsAssumption
    <3>2. asked' \in Nat
      BY <1>1, <2>2
    <3> QED BY <2>1, <2>2, <2>6, <3>1, <3>2
  <2>8. pc' = "ask" => n < MaxIterations /\ asked' <= S + n + 1
    <3> HIDE DEF S
    <3> QED BY <2>1, <2>2, <2>3, <2>5
  <2>9. pc' = "exhausted" => asked' <= S + n
    BY <2>3, <2>5
  <2> HIDE DEF S
  <2> QED BY <1>1, <2>4, <2>7, <2>8, <2>9 DEF Budgeted, Looping, Recording, CostIsBounded
<1>6. Stored'
  BY <1>0, <1>1, StillStored DEF TurnInv, Placed
<1>7. Follows'
  BY <1>0, StillFollows
<1>8. Acts'
  BY <1>0, <1>1, StillActs DEF Recording
<1> QED BY <1>3, <1>4, <1>5, <1>6, <1>7, <1>8 DEF TurnInv

\* The turn is over, in one of three ways.
LEMMA EndInv ==
  ASSUME TurnInv, pc # "done", pc' = "done",
         UNCHANGED <<config, said, store, loop, calls>>,
         ending' \in {"complete", "raised", "left"},
         orphan' \in BOOLEAN,
         orphan' => ending' = "left" /\ pc = "record",
         ending' = "complete" => pc \in {"judge", "exhausted"}
  PROVE  TurnInv'
<1>0. /\ UNCHANGED <<persist, validating, said, store, iteration, retries, asked, at, answers, acted>>
      /\ Still
  BY DEF config, loop, calls, Still
<1>1. Last' = Last /\ Len(said) >= 1
  BY <1>0, StillFacts
<1>2. TypeOK'
  BY <1>0 DEF TurnInv, TypeOK, Places
<1>3. Placed' /\ Answered'
  BY <1>0, <1>1 DEF TurnInv, Placed, Answered, None
<1>4. Budgeted'
  BY <1>0, <1>1 DEF TurnInv, Budgeted, Looping, Recording, CostIsBounded
<1>5. Stored'
  BY <1>0, StillStored
<1>6. Follows'
  BY <1>0, StillFollows
<1>7. Acts'
  BY <1>0, StillActs DEF Recording
<1> QED BY <1>2, <1>3, <1>4, <1>5, <1>6, <1>7 DEF TurnInv

\* A call is answered.
LEMMA AnswerInv ==
  ASSUME TurnInv, pc \in {"call", "tool"}, pc' = "call", at <= Len(Last.calls),
         answers' = Append(answers, Last.calls[at]), at' = at + 1,
         UNCHANGED <<config, said, store, orphan, loop, acted, ending>>
  PROVE  TurnInv'
<1>0. /\ UNCHANGED <<persist, validating, said, store, orphan, iteration, retries, asked, acted, ending>>
      /\ Still
  BY DEF config, loop, Still
<1>1. /\ Last' = Last /\ Len(said) >= 1 /\ Len(Last.calls) \in Nat /\ Last.calls \in Seq(Nat)
      /\ at \in 1..Len(Last.calls) /\ Len(answers) = at - 1 /\ answers \in Seq(Nat)
  BY <1>0, StillFacts, LastType DEF TurnInv, Placed, TypeOK
<1>2. Last.calls[at] \in Nat
  BY <1>1, ElementOfSeq
<1>3. /\ answers' \in Seq(Nat) /\ Len(answers') = at
      /\ \A i \in 1..Len(answers) : answers'[i] = answers[i]
      /\ answers'[at] = Last.calls[at]
  BY <1>1, <1>2, AppendProperties
<1>4. TypeOK'
  BY <1>0, <1>1, <1>3 DEF TurnInv, TypeOK, Places
<1>5. Placed'
  BY <1>0, <1>1, <1>3 DEF TurnInv, Placed
<1>6. Answered'
  <2>1. \A i \in 1..Len(answers) : answers[i] = Last.calls[i]
    BY DEF TurnInv, Answered
  <2>2. ASSUME NEW i \in 1..at PROVE answers'[i] = Last.calls[i]
    <3>1. CASE i = at
      BY <1>3, <3>1
    <3>2. CASE i # at
      <4>1. i \in 1..Len(answers)
        BY <1>1, <3>2
      <4> QED BY <1>3, <2>1, <4>1
    <3> QED BY <3>1, <3>2
  <2> QED BY <1>1, <1>3, <2>2 DEF Answered
<1>7. Budgeted'
  BY <1>0, <1>1 DEF TurnInv, Budgeted, Looping, Recording, Spent, CostIsBounded
<1>8. Stored'
  BY <1>0, StillStored
<1>9. Follows'
  BY <1>0, StillFollows
<1>10. Acts'
  BY <1>0, StillActs DEF Recording
<1> QED BY <1>4, <1>5, <1>6, <1>7, <1>8, <1>9, <1>10 DEF TurnInv

-----------------------------------------------------------------------------
\* The last message gets into the store, in time or late.
LEMMA LandInv ==
  ASSUME TurnInv, pc = "record" \/ orphan,
         store' = Append(store, Last), orphan' = FALSE,
         pc' = IF pc = "record" THEN "recorded" ELSE pc,
         UNCHANGED <<config, said, loop, calls, ending>>
  PROVE  TurnInv'
<1>0. UNCHANGED <<persist, validating, said, iteration, retries, asked, at, answers, acted, ending>>
  BY DEF config, loop, calls
<1>1. /\ Last' = Last /\ Last \in Messages /\ Len(said) >= 1 /\ Len(said) \in Nat
      /\ store \in Seq(Messages) /\ Len(store) \in Nat
  BY <1>0, LastType DEF TurnInv, Placed, TypeOK, Last
<1>2. persist /\ Len(store) = Len(said) - 1 /\ \A i \in 1..Len(store) : store[i] = said[i]
  BY DEF TurnInv, Placed, Stored
<1>3. /\ store' \in Seq(Messages) /\ Len(store') = Len(said)
      /\ \A i \in 1..Len(store) : store'[i] = store[i]
      /\ store'[Len(said)] = Last
  BY <1>1, <1>2, AppendProperties
<1>4. TypeOK'
  BY <1>0, <1>3 DEF TurnInv, TypeOK, Places
<1>5. Placed' /\ Answered'
  BY <1>0, <1>1 DEF TurnInv, Placed, Answered
<1>6. Budgeted'
  BY <1>0, <1>1 DEF TurnInv, Budgeted, Looping, Recording, Spent, CostIsBounded
<1>7. Stored'
  <2>1. ASSUME NEW i \in 1..Len(said) PROVE store'[i] = said[i]
    BY <1>1, <1>2, <1>3 DEF Last
  <2>2. pc' # "record" /\ ~orphan'
    OBVIOUS
  <2> QED BY <1>0, <1>1, <1>3, <2>1, <2>2 DEF Stored
<1>8. Follows'
  BY <1>0, <1>1 DEF TurnInv, Follows
<1>9. Acts'
  <2>1. ASSUME NEW j \in 1..Len(acted) PROVE acted[j][1] <= Len(store')
    BY <1>1, <1>3 DEF TurnInv, Acts
  <2> QED BY <1>0, <2>1 DEF TurnInv, Acts, Recording
<1> QED BY <1>4, <1>5, <1>6, <1>7, <1>8, <1>9 DEF TurnInv

\* The message is stored, if there is a store: its calls come next.
LEMMA AssistantRecordedInv == TurnInv /\ AssistantRecorded => TurnInv'
<1> SUFFICES ASSUME TurnInv, AssistantRecorded PROVE TurnInv'
  OBVIOUS
<1>0. /\ UNCHANGED <<persist, validating, said, store, orphan, iteration, retries, asked, acted, ending>>
      /\ Still /\ pc = "recorded" /\ Last.kind = "assistant" /\ at' = 1 /\ answers' = <<>>
      /\ pc' = IF Last.stop = "tool_use" /\ Last.calls # <<>> THEN "call" ELSE "judge"
  BY DEF AssistantRecorded, config, loop, Still
<1>1. Last' = Last /\ Len(said) >= 1 /\ Len(Last.calls) \in Nat
  BY <1>0, StillFacts
<1>2. <<>> \in Seq(Nat) /\ Len(<<>>) = 0
  OBVIOUS
<1>3. TypeOK'
  BY <1>0, <1>2 DEF TurnInv, TypeOK, Places
<1>4. Placed'
  BY <1>0, <1>1, <1>2 DEF TurnInv, Placed
<1>5. Answered'
  BY <1>0, <1>2 DEF Answered
<1>6. Budgeted'
  BY <1>0, <1>1 DEF TurnInv, Budgeted, Looping, Recording, Spent, CostIsBounded
<1>7. Stored'
  BY <1>0, StillStored
<1>8. Follows'
  BY <1>0, StillFollows DEF TurnInv, Placed
<1>9. Acts'
  BY <1>0, StillActs DEF Recording
<1> QED BY <1>3, <1>4, <1>5, <1>6, <1>7, <1>8, <1>9 DEF TurnInv

LEMMA ActInv == TurnInv /\ Act => TurnInv'
<1> SUFFICES ASSUME TurnInv, Act PROVE TurnInv'
  OBVIOUS
<1> DEFINE a == <<Len(said), at>>
<1>0. /\ UNCHANGED <<persist, validating, said, store, orphan, iteration, retries, asked, at, answers, ending>>
      /\ Still /\ pc = "call" /\ pc' = "tool" /\ at <= Len(Last.calls)
      /\ acted' = Append(acted, a)
  BY DEF Act, config, loop, Still
<1>1. /\ Last' = Last /\ Len(said) >= 1 /\ Len(said) \in Nat /\ Len(acted) \in Nat
      /\ Len(Last.calls) \in Nat /\ at \in 1..Len(Last.calls)
      /\ Last.kind = "assistant" /\ Last.stop = "tool_use"
  BY <1>0, StillFacts DEF TurnInv, Placed
<1>2. a \in Nat \X Nat /\ a[1] = Len(said) /\ a[2] = at
  BY <1>1
<1>3. /\ acted' \in Seq(Nat \X Nat) /\ Len(acted') = Len(acted) + 1
      /\ \A i \in 1..Len(acted) : acted'[i] = acted[i]
      /\ acted'[Len(acted) + 1] = a
  <2>1. acted \in Seq(Nat \X Nat)
    BY DEF TurnInv, TypeOK
  <2> HIDE DEF a
  <2> QED BY <1>0, <1>2, <2>1, AppendProperties
<1>4. TypeOK'
  BY <1>0, <1>3 DEF TurnInv, TypeOK, Places
<1>5. Placed' /\ Answered'
  BY <1>0, <1>1 DEF TurnInv, Placed, Answered
<1>6. Budgeted'
  BY <1>0, <1>1 DEF TurnInv, Budgeted, Looping, Recording, Spent, CostIsBounded
<1>7. Stored'
  BY <1>0, StillStored
<1>8. Follows'
  BY <1>0, StillFollows DEF TurnInv, Placed
<1>9. Acts'
  <2> HIDE DEF a
  <2>1. persist => Len(store) = Len(said)
    BY <1>0 DEF TurnInv, Stored
  <2>2. ASSUME NEW j \in 1..Len(acted)
        PROVE  /\ acted[j][1] \in 1..Len(said)
               /\ said[acted[j][1]].kind = "assistant" /\ said[acted[j][1]].stop = "tool_use"
               /\ acted[j][2] \in 1..Len(said[acted[j][1]].calls)
               /\ persist => acted[j][1] <= Len(store)
               /\ acted[j][1] = Len(said) => acted[j][2] < at
    BY <1>0 DEF TurnInv, Acts
  <2>3. ASSUME NEW j \in 1..Len(acted) PROVE acted[j] # a /\ acted[j][2] \in Nat
    <3>1. acted[j][2] \in Nat
      BY <2>2
    <3> QED BY <1>1, <1>2, <2>2, <3>1
  <2>4. said[a[1]] = Last
    BY <1>2 DEF Last
  <2>5. ASSUME NEW j \in 1..Len(acted')
        PROVE  LET k == acted'[j][1] IN
               /\ k \in 1..Len(said)
               /\ said[k].kind = "assistant" /\ said[k].stop = "tool_use"
               /\ acted'[j][2] \in 1..Len(said[k].calls)
               /\ persist => k <= Len(store)
               /\ k = Len(said) => acted'[j][2] <= at
    <3>1. CASE j \in 1..Len(acted)
      <4>1. acted'[j] = acted[j]
        BY <1>3, <3>1
      <4>2. acted[j][1] = Len(said) => acted[j][2] <= at
        BY <1>1, <2>2, <2>3, <3>1
      <4> QED BY <2>2, <3>1, <4>1, <4>2
    <3>2. CASE j = Len(acted) + 1
      BY <1>1, <1>2, <1>3, <2>1, <2>4, <3>2
    <3> QED BY <1>1, <1>3, <3>1, <3>2
  <2>6. ASSUME NEW i \in 1..Len(acted'), NEW j \in 1..Len(acted'), acted'[i] = acted'[j]
        PROVE  i = j
    <3>1. CASE i \in 1..Len(acted) /\ j \in 1..Len(acted)
      BY <1>3, <2>6, <3>1 DEF TurnInv, Acts
    <3>2. CASE i \in 1..Len(acted) /\ j = Len(acted) + 1
      BY <1>3, <2>3, <2>6, <3>2
    <3>3. CASE j \in 1..Len(acted) /\ i = Len(acted) + 1
      BY <1>3, <2>3, <2>6, <3>3
    <3>4. 1..Len(acted') = 1..Len(acted) \cup {Len(acted) + 1}
      <4>1. Len(acted) \in Nat /\ Len(acted') = Len(acted) + 1
        BY <1>1, <1>3
      <4> QED BY <4>1
    <3>5. \/ i \in 1..Len(acted) /\ j \in 1..Len(acted)
          \/ i \in 1..Len(acted) /\ j = Len(acted) + 1
          \/ j \in 1..Len(acted) /\ i = Len(acted) + 1
          \/ i = j
      BY <2>6, <3>4
    <3> QED BY <3>1, <3>2, <3>3, <3>5
  <2>7. pc' \notin Recording /\ pc' # "call"
    BY <1>0 DEF Recording
  <2>8. said' = said /\ store' = store /\ persist' = persist /\ at' = at
    BY <1>0
  <2> QED BY <2>5, <2>6, <2>7, <2>8 DEF Acts
<1> QED BY <1>4, <1>5, <1>6, <1>7, <1>8, <1>9 DEF TurnInv

-----------------------------------------------------------------------------
LEMMA AssistantSpeaksInv == TurnInv /\ AssistantSpeaks => TurnInv'
<1> SUFFICES ASSUME TurnInv, AssistantSpeaks PROVE TurnInv'
  OBVIOUS
<1>1. PICK n \in 0..MaxCalls, stop \in StopReasons :
        Say(Message("assistant", [i \in 1..n |-> i], stop))
  BY DEF AssistantSpeaks
<1> DEFINE c == [i \in 1..n |-> i]
           m == Message("assistant", c, stop)
<1>2. c \in Seq(Nat)
  <2>1. n \in Nat /\ \A i \in 1..n : i \in Nat
    BY BoundsAssumption
  <2>2. c \in [1..n -> Nat]
    BY <2>1
  <2> QED BY <2>1, <2>2
<1>3. m \in Messages /\ m.kind = "assistant"
  <2>1. "assistant" \in Kinds
    BY DEF Kinds
  <2> HIDE DEF c
  <2> QED BY <1>2, <2>1, MessageType
<1>4. pc = "ask" /\ UNCHANGED <<config, store, orphan, loop, calls, ending>> /\ Say(m)
  BY <1>1 DEF AssistantSpeaks
<1> HIDE DEF m
<1> QED BY <1>3, <1>4, SayInv

LEMMA SayResultsInv == TurnInv /\ SayResults => TurnInv'
<1> SUFFICES ASSUME TurnInv, SayResults PROVE TurnInv'
  OBVIOUS
<1> DEFINE m == Message("results", answers, "other")
<1>1. /\ pc = "call" /\ UNCHANGED <<config, store, orphan, loop, calls, ending>>
      /\ Say(m) /\ at > Len(Last.calls)
  BY DEF SayResults
<1>2. answers \in Seq(Nat) /\ Last.calls \in Seq(Nat) /\ Len(Last.calls) \in Nat
  BY LastType DEF TurnInv, Placed, TypeOK
<1>3. m \in Messages /\ m.kind = "results" /\ m.calls = answers
  BY <1>2, MessageType DEF Kinds, StopReasons
<1>4. Last.kind = "assistant" /\ Len(answers) = Len(Last.calls)
  BY <1>1, <1>2 DEF TurnInv, Placed
<1>5. Last.calls = answers
  <2>1. \A i \in 1..Len(answers) : answers[i] = Last.calls[i]
    BY <1>1 DEF TurnInv, Answered
  <2> QED BY <1>2, <1>4, <2>1, SeqEqual
<1> HIDE DEF m
<1> QED BY <1>1, <1>3, <1>4, <1>5, SayInv

LEMMA SayFeedbackInv == TurnInv /\ SayFeedback => TurnInv'
<1> SUFFICES ASSUME TurnInv, SayFeedback PROVE TurnInv'
  OBVIOUS
<1>1. Text("feedback") \in Messages /\ Text("feedback").kind = "feedback"
  BY TextType DEF Kinds
<1> QED BY <1>1, SayInv DEF SayFeedback

LEMMA IterateStepsInv == TurnInv /\ (UserRecorded \/ FeedbackRecorded \/ ResultsRecorded) => TurnInv'
<1> SUFFICES ASSUME TurnInv, UserRecorded \/ FeedbackRecorded \/ ResultsRecorded PROVE TurnInv'
  OBVIOUS
<1>1. /\ Spent \in Nat /\ (MaxRetries - (retries - 1)) * MaxIterations = Spent + MaxIterations
      /\ iteration \in 0..MaxIterations /\ asked \in Nat /\ MaxIterations \in Nat
      /\ retries \in 0..MaxRetries /\ MaxRetries \in Nat
  BY SpentFacts
<1>2. Spent = (MaxRetries - retries) * MaxIterations
  BY DEF Spent
<1>3. CASE UserRecorded
  <2>1. asked = 0
    BY <1>3 DEF UserRecorded, TurnInv, Budgeted, Recording
  <2>2. retries' = retries
    BY <1>3 DEF UserRecorded
  <2>3. asked <= (MaxRetries - retries') * MaxIterations + 0
    BY <1>1, <1>2, <2>1, <2>2
  <2> QED BY <1>1, <1>3, <2>2, <2>3, IterateInv DEF UserRecorded
<1>4. CASE FeedbackRecorded
  <2>1. retries > 0 /\ iteration < MaxIterations /\ asked <= Spent + iteration + 1
    BY <1>4 DEF FeedbackRecorded, TurnInv, Budgeted, Looping, Recording
  <2>2. retries' = retries - 1
    BY <1>4 DEF FeedbackRecorded
  <2>3. asked <= (MaxRetries - retries') * MaxIterations + 0
    <3>1. (MaxRetries - retries') * MaxIterations = Spent + MaxIterations
      BY <1>1, <2>2
    <3> HIDE DEF Spent
    <3> QED BY <1>1, <2>1, <3>1
  <2>4. retries' \in 0..MaxRetries
    BY <1>1, <2>1, <2>2
  <2> QED BY <1>1, <1>4, <2>3, <2>4, IterateInv DEF FeedbackRecorded
<1>5. CASE ResultsRecorded
  <2>1. iteration < MaxIterations /\ asked <= Spent + iteration + 1
    BY <1>5 DEF ResultsRecorded, TurnInv, Budgeted, Looping, Recording
  <2>2. retries' = retries
    BY <1>5 DEF ResultsRecorded
  <2>3. asked <= (MaxRetries - retries') * MaxIterations + (iteration + 1)
    BY <1>1, <1>2, <2>1, <2>2
  <2>4. iteration + 1 \in 0..MaxIterations
    BY <1>1, <2>1
  <2> QED BY <1>1, <1>5, <2>2, <2>3, <2>4, IterateInv DEF ResultsRecorded
<1> QED BY <1>3, <1>4, <1>5

\* Every step of the turn keeps the invariant.
LEMMA StepInv == TurnInv /\ [Next]_vars => TurnInv'
<1> SUFFICES ASSUME TurnInv, [Next]_vars PROVE TurnInv'
  OBVIOUS
<1>1. CASE RecordLands
  <2>1. orphan = FALSE
    BY <1>1 DEF RecordLands, TurnInv, TypeOK, Placed
  <2> QED BY <1>1, <2>1, LandInv DEF RecordLands
<1>2. CASE OrphanEnds
  <2>1. pc = "done" /\ pc' = pc
    BY <1>2 DEF OrphanEnds, TurnInv, Placed
  <2>2. CASE store' = store
    <3>1. /\ UNCHANGED <<persist, validating, pc, said, store, iteration, retries, asked,
                         at, answers, acted, ending>>
          /\ orphan' = FALSE /\ Still
      BY <1>2, <2>2 DEF OrphanEnds, config, loop, calls, Still
    <3>2. Last' = Last
      BY <3>1 DEF Last
    <3>3. TypeOK' /\ Placed' /\ Answered'
      BY <3>1, <3>2 DEF TurnInv, TypeOK, Placed, Answered
    <3>4. Budgeted'
      BY <3>1, <3>2 DEF TurnInv, Budgeted, Looping, Recording, Spent, CostIsBounded
    <3>5. Stored'
      BY <3>1, StillStored
    <3>6. Follows' /\ Acts'
      BY <3>1, <3>2 DEF TurnInv, Follows, Acts
    <3> QED BY <3>3, <3>4, <3>5, <3>6 DEF TurnInv
  <2>3. CASE store' = Append(store, Last)
    <3>1. pc' = IF pc = "record" THEN "recorded" ELSE pc
      BY <2>1
    <3> QED BY <1>2, <2>3, <3>1, LandInv DEF OrphanEnds
  <2> QED BY <1>2, <2>2, <2>3 DEF OrphanEnds
<1>3. CASE RecordFails
  <2>1. orphan = FALSE
    BY <1>3 DEF RecordFails, TurnInv, TypeOK, Placed
  <2> QED BY <1>3, <2>1, EndInv DEF RecordFails
<1>4. CASE Raises
  <2>1. orphan = FALSE
    BY <1>4 DEF Raises, TurnInv, TypeOK, Placed
  <2> QED BY <1>4, <2>1, EndInv DEF Raises
<1>5. CASE Complete
  <2>1. orphan = FALSE
    BY <1>5 DEF Complete, TurnInv, TypeOK, Placed
  <2> QED BY <1>5, <2>1, EndInv DEF Complete
<1>6. CASE Leave
  BY <1>6, EndInv DEF Leave
<1>7. CASE UserRecorded \/ FeedbackRecorded \/ ResultsRecorded
  BY <1>7, IterateStepsInv
<1>8. CASE AssistantRecorded
  BY <1>8, AssistantRecordedInv
<1>9. CASE AssistantSpeaks
  BY <1>9, AssistantSpeaksInv
<1>10. CASE AnswerInPlace
  BY <1>10, AnswerInv DEF AnswerInPlace
<1>11. CASE Act
  BY <1>11, ActInv
<1>12. CASE ToolAnswers
  <2>1. at <= Len(Last.calls)
    BY <1>12 DEF ToolAnswers, TurnInv, Placed
  <2> QED BY <1>12, <2>1, AnswerInv DEF ToolAnswers
<1>13. CASE SayResults
  BY <1>13, SayResultsInv
<1>14. CASE SayFeedback
  BY <1>14, SayFeedbackInv
<1>15. CASE UNCHANGED vars
  BY <1>15 DEF vars, TurnInv, TypeOK, Placed, Answered, Budgeted, Looping, Spent,
       CostIsBounded, Stored, Follows, Acts, Last
<1> QED BY <1>1, <1>2, <1>3, <1>4, <1>5, <1>6, <1>7, <1>8, <1>9, <1>10, <1>11, <1>12,
           <1>13, <1>14, <1>15 DEF Next, Progress

\* The conjunction of the parts holds in every reachable state of a turn.
THEOREM Invariant == Spec => []TurnInv
<1>1. Init => TurnInv
  BY InitInv
<1>2. TurnInv /\ [Next]_vars => TurnInv'
  BY StepInv
<1> QED BY <1>1, <1>2, PTL DEF Spec

\* The turn's state keeps its type.
THEOREM TypeCorrect == Spec => []TypeOK
<1>1. TurnInv => TypeOK
  BY DEF TurnInv
<1> QED BY <1>1, Invariant, PTL

\* The store follows history message by message, at most one behind, and has
\* all of it when the turn completes.
THEOREM MirroredHolds == Spec => []Mirrored
<1>1. TurnInv => Mirrored
  <2> SUFFICES ASSUME TurnInv, persist
               PROVE  /\ IsPrefixOf(store, said) /\ Len(store) >= Len(said) - 1
                      /\ ending = "complete" => store = said
    BY DEF Mirrored
  <2>1. /\ said \in Seq(Messages) /\ store \in Seq(Messages)
        /\ Len(said) \in Nat /\ Len(store) \in Nat
    BY DEF TurnInv, TypeOK
  <2>2. /\ Len(store) \in {Len(said) - 1, Len(said)}
        /\ \A i \in 1..Len(store) : store[i] = said[i]
        /\ ending = "complete" => Len(store) = Len(said)
    BY DEF TurnInv, Stored
  <2>3. ending = "complete" => store = said
    BY <2>1, <2>2, SeqEqual
  <2> QED BY <2>1, <2>2, <2>3 DEF IsPrefixOf
<1> QED BY <1>1, Invariant, PTL

\* A tool that acted is on record before it does, and acts once per call.
THEOREM ActsAreOnRecordHolds == Spec => []ActsAreOnRecord
<1>1. TurnInv => ActsAreOnRecord
  BY DEF TurnInv, Acts, ActsAreOnRecord
<1> QED BY <1>1, Invariant, PTL

\* Calls and results pair, and no completed turn leaves calls without results.
THEOREM PairedHolds == Spec => []Paired
<1>1. TurnInv => Paired
  <2> SUFFICES ASSUME TurnInv PROVE Paired
    OBVIOUS
  <2>1. Len(said) \in Nat
    BY DEF TurnInv, TypeOK
  <2>2. ASSUME NEW k \in 1..Len(said), said[k].kind = "assistant",
               said[k].stop = "tool_use", said[k].calls # <<>>
        PROVE  IF k < Len(said) THEN said[k+1].kind = "results" ELSE ending # "complete"
    <3>1. CASE k < Len(said)
      BY <2>2, <3>1 DEF TurnInv, Follows
    <3>2. CASE k = Len(said)
      BY <2>2, <3>2 DEF TurnInv, Follows, Last
    <3> QED BY <2>1, <3>1, <3>2
  <2> QED BY <2>2 DEF TurnInv, Follows, Paired
<1> QED BY <1>1, Invariant, PTL

\* One turn costs at most max_tool_iterations calls of the model per attempt.
THEOREM CostIsBoundedHolds == Spec => []CostIsBounded
<1>1. TurnInv => CostIsBounded
  BY DEF TurnInv, Budgeted
<1> QED BY <1>1, Invariant, PTL

-----------------------------------------------------------------------------
(***************************************************************************)
(* GroundedTurn.  What Listing picks and joins is proved first, by the     *)
(* positions of the elements; then that the collector has heard the prefix *)
(* of the reply that the stream has come to, chunk by chunk, so that the   *)
(* message at its end is the reply (RepliesArriveWholeHolds); then what    *)
(* each kind of message becomes in a request, and that a history is        *)
(* questions, replies and answers to these (RequestsAreAcceptableHolds);   *)
(* and last that what a straight path resolves to is what it means         *)
(* (PassedIsTrueHolds).                                                    *)
(***************************************************************************)
\* Induction up to k, for a set.
LEMMA UpTo ==
  ASSUME NEW k \in Nat, NEW S, 0 \in S, \A n \in 0..k : n \in S /\ n < k => n + 1 \in S
  PROVE  0..k \subseteq S
<1> DEFINE Out == {n \in Nat : n \in 0..k /\ n \notin S}
           R == OpToRel(<, Nat)
<1> SUFFICES ASSUME Out # {} PROVE FALSE
  OBVIOUS
<1>1. IsWellFoundedOn(R, Nat)
  BY NatLessThanWellFounded, Zenon
<1>2. PICK least \in Out : \A n \in Out : ~ (<<n, least>> \in R)
  <2>1. Out \subseteq Nat
    OBVIOUS
  <2> QED BY <1>1, <2>1, WFMin
<1>3. \A n \in Out : ~ (n < least)
  BY <1>2 DEF OpToRel
<1>4. least # 0 /\ least - 1 \in 0..k /\ least - 1 < k /\ least - 1 < least
  OBVIOUS
<1>5. least - 1 \in S
  BY <1>3, <1>4
<1>6. (least - 1) + 1 \in S
  BY <1>4, <1>5
<1> QED BY <1>6

-----------------------------------------------------------------------------
\* How many members of S are i or less.
Rank(S, i) == Cardinality({j \in S : j <= i})

\* The ranks of the members of a set are 1 to its size,
LEMMA RankType ==
  ASSUME NEW S \in SUBSET Int, IsFiniteSet(S), NEW i \in S
  PROVE  Rank(S, i) \in 1..Cardinality(S)
<1> DEFINE T == {j \in S : j <= i}
<1>1. T \in SUBSET S /\ i \in T
  OBVIOUS
<1>2. IsFiniteSet(T) /\ Cardinality(T) <= Cardinality(S)
  BY <1>1, FS_Subset
<1>3. Cardinality(T) \in Nat /\ Cardinality(S) \in Nat
  BY <1>2, FS_CardinalityType
<1>4. Cardinality(T) # 0
  BY <1>1, <1>2, FS_EmptySet
<1> QED BY <1>2, <1>3, <1>4 DEF Rank

\* they rise with the members,
LEMMA RankRises ==
  ASSUME NEW S \in SUBSET Int, IsFiniteSet(S), NEW i \in S, NEW j \in S, i < j
  PROVE  Rank(S, i) < Rank(S, j)
<1> DEFINE T == {x \in S : x <= i}  U == {x \in S : x <= j}
<1>1. IsFiniteSet(T) /\ IsFiniteSet(U)
  BY FS_Subset
<1>2. T \in SUBSET (U \ {j}) /\ j \in U
  <2>1. \A x \in S : x \in Int
    OBVIOUS
  <2>2. \A x \in S : x <= i => x <= j /\ x # j
    BY <2>1
  <2>3. i \in Int /\ j \in Int /\ j <= j
    BY <2>1
  <2>4. \A x : x \in T => x \in U /\ x # j
    BY <2>2
  <2>5. j \in U
    BY <2>3
  <2> HIDE DEF T, U
  <2> QED BY <2>4, <2>5
<1>3. IsFiniteSet(U \ {j}) /\ Cardinality(U \ {j}) = Cardinality(U) - 1
  BY <1>1, <1>2, FS_RemoveElement
<1>4. Cardinality(T) <= Cardinality(U \ {j})
  BY <1>2, <1>3, FS_Subset
<1>5. Cardinality(T) \in Nat /\ Cardinality(U) \in Nat
  BY <1>1, FS_CardinalityType
<1> QED BY <1>3, <1>4, <1>5 DEF Rank

\* and no two members share one.
LEMMA RankInjective ==
  ASSUME NEW S \in SUBSET Int, IsFiniteSet(S), NEW i \in S, NEW j \in S, Rank(S, i) = Rank(S, j)
  PROVE  i = j
<1>1. Rank(S, i) \in Nat /\ Rank(S, j) \in Nat
  BY RankType, FS_CardinalityType
<1>2. ~(i < j)
  BY <1>1, RankRises
<1>3. ~(j < i)
  BY <1>1, RankRises
<1> QED BY <1>2, <1>3

\* There is one member of each rank, and Nth is it.
LEMMA NthOfRank ==
  ASSUME NEW S \in SUBSET Int, IsFiniteSet(S), NEW i \in S
  PROVE  Nth(S, Rank(S, i)) = i
<1> DEFINE P(x) == x \in S /\ Cardinality({j \in S : j <= x}) = Rank(S, i)
<1>1. Cardinality({j \in S : j <= i}) = Rank(S, i)
  BY DEF Rank
<1>2. ASSUME NEW x \in S, Cardinality({j \in S : j <= x}) = Rank(S, i) PROVE x = i
  BY <1>2, RankInjective DEF Rank
<1> QED BY <1>1, <1>2 DEF Nth

\* So each rank has one member, the one that Nth chooses.
LEMMA NthFacts ==
  ASSUME NEW S \in SUBSET Int, IsFiniteSet(S), NEW k \in 1..Cardinality(S)
  PROVE  Nth(S, k) \in S /\ Rank(S, Nth(S, k)) = k
<1> DEFINE f == [i \in S |-> Rank(S, i)]
           n == Cardinality(S)
<1>1. n \in Nat
  BY FS_CardinalityType
<1>2. f \in [S -> 1..n]
  BY RankType
<1>3. \A i, j \in S : f[i] = f[j] => i = j
  BY RankInjective
<1>4. f \in Injection(S, 1..n)
  BY <1>2, <1>3 DEF Injection, IsInjective
<1>5. IsFiniteSet(1..n) /\ Cardinality(1..n) = n
  BY <1>1, FS_Interval
<1>6. f \in Surjection(S, 1..n)
  BY <1>4, <1>5, FS_Injection
<1>7. PICK i \in S : f[i] = k
  BY <1>6 DEF Surjection
<1>8. Rank(S, i) = k
  BY <1>7
<1>9. Nth(S, k) = i
  BY <1>8, NthOfRank
<1> QED BY <1>8, <1>9

\* The members of an interval in their order,
LEMMA NthOfInterval ==
  ASSUME NEW a \in Int, NEW b \in Int, NEW k \in 1..(b - a + 1)
  PROVE  Nth(a..b, k) = a + k - 1
<1> DEFINE i == a + k - 1
<1>1. i \in a..b /\ a..b \in SUBSET Int
  OBVIOUS
<1>2. {j \in a..b : j <= i} = a..i
  BY <1>1
<1>3. Cardinality(a..i) = k
  BY FS_Interval
<1>4. Rank(a..b, i) = k
  BY <1>2, <1>3 DEF Rank
<1>5. IsFiniteSet(a..b)
  BY FS_Interval
<1> QED BY <1>1, <1>4, <1>5, NthOfRank

\* and what is picked at the positions of an interval: a subsequence.
LEMMA PickInterval ==
  ASSUME NEW s, NEW a \in Int, NEW b \in Int, a <= b + 1
  PROVE  Pick(s, a..b) = [k \in 1..(b - a + 1) |-> s[a + k - 1]]
<1>1. Cardinality(a..b) = b - a + 1
  BY FS_Interval
<1>2. \A k \in 1..(b - a + 1) : Nth(a..b, k) = a + k - 1
  BY NthOfInterval
<1> QED BY <1>1, <1>2 DEF Pick

\* Nothing is picked at no position.
LEMMA PickEmpty == ASSUME NEW s PROVE Pick(s, {}) = <<>>
  BY FS_EmptySet DEF Pick

\* What is picked is some of what there was.
LEMMA PickFacts ==
  ASSUME NEW s, NEW I \in SUBSET Int, IsFiniteSet(I), NEW D, \A i \in I : s[i] \in D
  PROVE  /\ Cardinality(I) \in Nat
         /\ Pick(s, I) \in Seq(D)
         /\ Len(Pick(s, I)) = Cardinality(I)
         /\ Pick(s, I) = <<>> <=> I = {}
         /\ \A k \in 1..Cardinality(I) : Nth(I, k) \in I /\ Pick(s, I)[k] = s[Nth(I, k)]
         /\ \A i \in I : \E k \in 1..Cardinality(I) : Nth(I, k) = i
<1>1. Cardinality(I) \in Nat
  BY FS_CardinalityType
<1>2. \A k \in 1..Cardinality(I) : Nth(I, k) \in I /\ Pick(s, I)[k] = s[Nth(I, k)]
  BY NthFacts DEF Pick
<1>3. Pick(s, I) \in [1..Cardinality(I) -> D]
  BY <1>2 DEF Pick
<1>4. Pick(s, I) \in Seq(D) /\ Len(Pick(s, I)) = Cardinality(I)
  BY <1>1, <1>3
<1>5. Pick(s, I) = <<>> <=> Cardinality(I) = 0
  BY <1>1, <1>4
<1>6. \A i \in I : \E k \in 1..Cardinality(I) : Nth(I, k) = i
  BY RankType, NthOfRank
<1> QED BY <1>1, <1>2, <1>4, <1>5, <1>6, FS_EmptySet

\* joined is how Concat joins the sequences of ss, one after the other.
IsJoining(joined, ss) ==
  joined = [n \in 0..Len(ss) |-> IF n = 0 THEN <<>> ELSE joined[n - 1] \o ss[n]]

\* What Concat chooses exists.
LEMMA JoiningExists ==
  ASSUME NEW ss, Len(ss) \in Nat
  PROVE  \E joined : IsJoining(joined, ss) /\ Concat(ss) = joined[Len(ss)]
<1> DEFINE Recurs(f, k) == f = [n \in 0..k |-> IF n = 0 THEN <<>> ELSE f[n - 1] \o ss[n]]
           S == {k \in 0..Len(ss) : \E f : Recurs(f, k)}
<1>1. 0 \in S
  <2> DEFINE f == [n \in 0..0 |-> <<>>]
  <2>1. Recurs(f, 0)
    OBVIOUS
  <2> HIDE DEF f, Recurs
  <2> QED BY <2>1
<1>2. ASSUME NEW k \in 0..Len(ss), k \in S, k < Len(ss) PROVE k + 1 \in S
  <2>1. PICK f : Recurs(f, k)
    BY <1>2
  <2> DEFINE new == f[k] \o ss[k + 1]
             g == [n \in 0..(k + 1) |-> IF n = k + 1 THEN new ELSE f[n]]
  <2>2. k \in Nat /\ k + 1 \in 0..Len(ss)
    BY <1>2
  <2> HIDE DEF new
  <2>3. g[k + 1] = new /\ \A n \in 0..k : g[n] = f[n]
    BY <2>2
  <2>4. f[0] = <<>> /\ \A n \in 1..k : f[n] = f[n - 1] \o ss[n]
    <3>1. \A n \in 0..k : f[n] = IF n = 0 THEN <<>> ELSE f[n - 1] \o ss[n]
      BY <2>1
    <3>2. 0 \in 0..k /\ \A n \in 1..k : n \in 0..k /\ n # 0
      BY <2>2
    <3> QED BY <3>1, <3>2
  <2> DEFINE h == [n \in 0..(k + 1) |-> IF n = 0 THEN <<>> ELSE g[n - 1] \o ss[n]]
  <2>5. ASSUME NEW n \in 0..(k + 1) PROVE g[n] = h[n]
    <3> HIDE DEF g
    <3>1. CASE n = 0
      BY <2>2, <2>3, <2>4, <3>1
    <3>2. CASE n \in 1..k
      <4>1. n - 1 \in 0..k /\ n \in 0..k /\ n # 0
        BY <2>2, <3>2
      <4> QED BY <2>3, <2>4, <3>2, <4>1
    <3>3. CASE n = k + 1
      <4>1. n - 1 \in 0..k /\ n # 0 /\ n - 1 = k
        BY <2>2, <3>3
      <4> QED BY <2>3, <3>3, <4>1 DEF new
    <3> QED BY <2>2, <3>1, <3>2, <3>3
  <2>6. g = h
    BY <2>5
  <2>7. Recurs(g, k + 1)
    <3> HIDE DEF g
    <3> QED BY <2>6
  <2> HIDE DEF Recurs, g
  <2> QED BY <2>2, <2>7
<1>3. Len(ss) \in S
  <2>1. 0..Len(ss) \subseteq S
    <3> HIDE DEF S
    <3> QED BY <1>1, <1>2, UpTo
  <2> HIDE DEF S
  <2> QED BY <2>1
<1>4. \E f : f = [n \in 0..Len(ss) |-> IF n = 0 THEN <<>> ELSE f[n - 1] \o ss[n]]
  BY <1>3
<1> QED BY <1>4 DEF Concat, IsJoining

\* Where the sequences of ss lie in what they are joined to: the n-th ends at
\* ends[n].
AreEnds(ends, ss) ==
  /\ ends \in [0..Len(ss) -> Nat]
  /\ ends[0] = 0
  /\ \A n \in 1..Len(ss) : ends[n] = ends[n - 1] + Len(ss[n])

\* They are joined to ms.
AreJoined(ms, ss, ends) ==
  /\ AreEnds(ends, ss)
  /\ Len(ms) = ends[Len(ss)]
  /\ \A n \in 1..Len(ss) : \A k \in 1..Len(ss[n]) :
       /\ ends[n - 1] + k \in 1..Len(ms)
       /\ ms[ends[n - 1] + k] = ss[n][k]
  /\ \A p \in 1..Len(ms) : \E n \in 1..Len(ss) : \E k \in 1..Len(ss[n]) :
       p = ends[n - 1] + k

\* Joined, the sequences lie one behind the other: Concat reorders nothing,
\* leaves nothing out and adds nothing.
LEMMA ConcatFacts ==
  ASSUME NEW D, NEW ss \in Seq(Seq(D))
  PROVE  Concat(ss) \in Seq(D) /\ \E ends : AreJoined(Concat(ss), ss, ends)
<1> DEFINE N == Len(ss)
<1>1. N \in Nat /\ \A n \in 1..N : ss[n] \in Seq(D) /\ Len(ss[n]) \in Nat
  OBVIOUS
<1>2. PICK joined : IsJoining(joined, ss) /\ Concat(ss) = joined[N]
  BY <1>1, JoiningExists
<1>3. joined[0] = <<>> /\ \A n \in 0..N : n < N => joined[n + 1] = joined[n] \o ss[n + 1]
  <2>1. \A n \in 0..N : joined[n] = IF n = 0 THEN <<>> ELSE joined[n - 1] \o ss[n]
    <3> HIDE DEF N
    <3>1. joined = [n \in 0..N |-> IF n = 0 THEN <<>> ELSE joined[n - 1] \o ss[n]]
      BY <1>2 DEF IsJoining, N
    <3> QED BY <3>1
  <2> HIDE DEF N
  <2>2. ASSUME NEW n \in 0..N, n < N PROVE joined[n + 1] = joined[n] \o ss[n + 1]
    <3>1. n + 1 \in 0..N /\ n + 1 # 0 /\ (n + 1) - 1 = n
      BY <1>1, <2>2
    <3> QED BY <2>1, <3>1
  <2>3. joined[0] = <<>>
    <3>1. 0 \in 0..N
      BY <1>1
    <3> QED BY <2>1, <3>1
  <2> QED BY <2>2, <2>3
<1> DEFINE ends == [n \in 0..N |-> Len(joined[n])]
           Within(n) == \A m \in 1..n : \A k \in 1..Len(ss[m]) :
             /\ ends[m - 1] + k \in 1..Len(joined[n])
             /\ joined[n][ends[m - 1] + k] = ss[m][k]
           Covers(n) == \A p \in 1..Len(joined[n]) : \E m \in 1..n : \E k \in 1..Len(ss[m]) :
             p = ends[m - 1] + k
           Good(n) == joined[n] \in Seq(D) /\ Within(n) /\ Covers(n)
           S == {n \in 0..N : Good(n)}
<1>4. 0 \in S
  <2>1. 0 \in 0..N /\ joined[0] = <<>>
    BY <1>1, <1>3
  <2>2. joined[0] \in Seq(D) /\ Len(joined[0]) = 0
    BY <2>1
  <2> HIDE DEF N, ends
  <2>3. Within(0)
    OBVIOUS
  <2>4. Covers(0)
    BY <2>2
  <2> HIDE DEF Within, Covers
  <2> QED BY <2>1, <2>2, <2>3, <2>4
<1>5. ASSUME NEW n \in 0..N, n \in S, n < N PROVE n + 1 \in S
  <2> DEFINE old == joined[n]  new == ss[n + 1]  both == joined[n + 1]
  <2> HIDE DEF N
  <2>1. n + 1 \in 0..N /\ n + 1 \in 1..N /\ n \in Nat
    BY <1>1, <1>5
  <2>2. old \in Seq(D) /\ new \in Seq(D) /\ both = old \o new
    BY <1>1, <1>3, <1>5, <2>1
  <2>3. ends[n] = Len(old)
    BY <1>5
  <2>4. /\ both \in Seq(D)
        /\ Len(both) = Len(old) + Len(new)
        /\ \A p \in 1..Len(old) : both[p] = old[p]
        /\ \A p \in 1..Len(new) : both[Len(old) + p] = new[p]
    <3> HIDE DEF old, new, both
    <3> QED BY <2>2
  <2>5. Within(n) /\ Covers(n)
    BY <1>5
  <2> HIDE DEF ends
  <2>6. Within(n + 1)
    <3> SUFFICES ASSUME NEW m \in 1..(n + 1), NEW k \in 1..Len(ss[m])
                 PROVE  /\ ends[m - 1] + k \in 1..Len(both)
                        /\ both[ends[m - 1] + k] = ss[m][k]
      OBVIOUS
    <3>1. CASE m \in 1..n
      <4>1. ends[m - 1] + k \in 1..Len(old) /\ old[ends[m - 1] + k] = ss[m][k]
        BY <2>5, <3>1
      <4>2. Len(old) \in Nat /\ Len(new) \in Nat
        <5> HIDE DEF old, new
        <5> QED BY <2>2
      <4> HIDE DEF old, new, both
      <4> QED BY <2>4, <4>1, <4>2
    <3>2. CASE m = n + 1
      <4>1. m - 1 = n
        BY <2>1, <3>2
      <4>2. ends[m - 1] = Len(old) /\ ss[m] = new
        BY <2>3, <3>2, <4>1
      <4>3. Len(old) \in Nat /\ Len(new) \in Nat
        <5> HIDE DEF old, new
        <5> QED BY <2>2
      <4> HIDE DEF old, new, both
      <4> QED BY <2>4, <4>2, <4>3
    <3> QED BY <2>1, <3>1, <3>2
  <2>7. Covers(n + 1)
    <3> SUFFICES ASSUME NEW p \in 1..Len(both)
                 PROVE  \E m \in 1..(n + 1) : \E k \in 1..Len(ss[m]) : p = ends[m - 1] + k
      OBVIOUS
    <3>0. Len(old) \in Nat /\ Len(new) \in Nat
      <4> HIDE DEF old, new
      <4> QED BY <2>2
    <3>1. CASE p <= Len(old)
      <4>1. p \in 1..Len(old)
        BY <3>0, <3>1
      <4>2. PICK m \in 1..n : \E k \in 1..Len(ss[m]) : p = ends[m - 1] + k
        BY <2>5, <4>1
      <4>3. m \in 1..(n + 1)
        BY <2>1
      <4> QED BY <4>2, <4>3
    <3>2. CASE ~(p <= Len(old))
      <4>1. p - Len(old) \in 1..Len(new) /\ p = Len(old) + (p - Len(old))
        <5> HIDE DEF old, new, both
        <5> QED BY <2>4, <3>0, <3>2
      <4>2. (n + 1) - 1 = n /\ n + 1 \in 1..(n + 1)
        BY <2>1
      <4> QED BY <2>3, <4>1, <4>2
    <3> QED BY <3>1, <3>2
  <2> HIDE DEF Within, Covers
  <2> QED BY <2>1, <2>4, <2>6, <2>7
<1>6. Good(N)
  <2>1. 0..N \subseteq S
    <3> HIDE DEF S, N
    <3> QED BY <1>1, <1>4, <1>5, UpTo
  <2> HIDE DEF Good
  <2> QED BY <1>1, <2>1
<1>7. AreEnds(ends, ss)
  <2>0. \A n \in 0..N : joined[n] \in Seq(D)
    <3>1. 0..N \subseteq S
      <4> HIDE DEF S, N
      <4> QED BY <1>1, <1>4, <1>5, UpTo
    <3> HIDE DEF Within, Covers
    <3> QED BY <3>1
  <2> HIDE DEF N
  <2>1. \A n \in 0..N : ends[n] = Len(joined[n]) /\ Len(joined[n]) \in Nat
    BY <2>0
  <2>2. ends \in [0..N -> Nat] /\ ends[0] = 0
    BY <1>1, <1>3, <2>1
  <2>3. ASSUME NEW n \in 1..N PROVE ends[n] = ends[n - 1] + Len(ss[n])
    <3>1. n - 1 \in 0..N /\ n \in 0..N /\ n - 1 < N /\ (n - 1) + 1 = n
      BY <1>1
    <3>2. joined[n] = joined[n - 1] \o ss[n]
      BY <1>3, <3>1
    <3>3. joined[n - 1] \in Seq(D) /\ ss[n] \in Seq(D)
      BY <1>1, <2>0, <3>1
    <3>4. Len(joined[n]) = Len(joined[n - 1]) + Len(ss[n])
      BY <3>2, <3>3
    <3> QED BY <2>1, <3>1, <3>4
  <2> HIDE DEF ends
  <2> QED BY <2>2, <2>3 DEF AreEnds, N
<1>8. Len(Concat(ss)) = ends[N]
  BY <1>1, <1>2
<1> DEFINE c == Concat(ss)
<1> HIDE DEF ends
<1>9. /\ c \in Seq(D)
      /\ \A n \in 1..Len(ss) : \A k \in 1..Len(ss[n]) :
           ends[n - 1] + k \in 1..Len(c) /\ c[ends[n - 1] + k] = ss[n][k]
      /\ \A p \in 1..Len(c) : \E n \in 1..Len(ss) : \E k \in 1..Len(ss[n]) : p = ends[n - 1] + k
  BY <1>2, <1>6
<1>10. Len(c) = ends[Len(ss)]
  BY <1>8
<1> HIDE DEF c
<1>11. AreJoined(c, ss, ends)
  BY <1>7, <1>9, <1>10 DEF AreJoined
<1> QED BY <1>9, <1>11 DEF c

\* Joining one sequence is no change.
LEMMA ConcatOne ==
  ASSUME NEW D, NEW s \in Seq(D)
  PROVE  Concat(<<s>>) = s
<1>0. Len(<<s>>) = 1
  OBVIOUS
<1>1. PICK joined : IsJoining(joined, <<s>>) /\ Concat(<<s>>) = joined[1]
  BY <1>0, JoiningExists
<1>2. joined = [n \in 0..1 |-> IF n = 0 THEN <<>> ELSE joined[n - 1] \o <<s>>[n]]
  BY <1>0, <1>1 DEF IsJoining
<1>3. joined[0] = <<>>
  BY <1>2
<1>4. joined[1] = joined[0] \o <<s>>[1]
  BY <1>2
<1> QED BY <1>1, <1>3, <1>4

\* Sequences of one element each are joined to the sequence of these.
LEMMA ConcatSingles ==
  ASSUME NEW D, NEW ss \in Seq(Seq(D)), \A n \in 1..Len(ss) : Len(ss[n]) = 1
  PROVE  Concat(ss) = [n \in 1..Len(ss) |-> ss[n][1]]
<1>0. Len(ss) \in Nat
  OBVIOUS
<1>0a. PICK ends : AreJoined(Concat(ss), ss, ends)
  BY ConcatFacts
<1>1. /\ AreEnds(ends, ss)
      /\ Len(Concat(ss)) = ends[Len(ss)]
      /\ \A n \in 1..Len(ss) : \A k \in 1..Len(ss[n]) :
           Concat(ss)[ends[n - 1] + k] = ss[n][k]
  BY <1>0a DEF AreJoined
<1> DEFINE S == {n \in 0..Len(ss) : ends[n] = n}
<1>2. 0 \in S
  BY <1>0, <1>1 DEF AreEnds
<1>3. ASSUME NEW n \in 0..Len(ss), n \in S, n < Len(ss) PROVE n + 1 \in S
  <2>1. n + 1 \in 1..Len(ss) /\ n + 1 \in 0..Len(ss) /\ (n + 1) - 1 = n /\ ends[n] = n
    BY <1>0, <1>3
  <2>2. ends[n + 1] = ends[(n + 1) - 1] + Len(ss[n + 1])
    BY <1>1, <2>1 DEF AreEnds
  <2> QED BY <2>1, <2>2
<1>4. 0..Len(ss) \subseteq S
  <2> HIDE DEF S
  <2> QED BY <1>0, <1>2, <1>3, UpTo
<1>5. Len(Concat(ss)) = Len(ss)
  BY <1>0, <1>1, <1>4
<1>6. ASSUME NEW n \in 1..Len(ss) PROVE Concat(ss)[n] = ss[n][1]
  <2>0. Len(ss[n]) = 1
    OBVIOUS
  <2>1. n - 1 \in 0..Len(ss) /\ 1 \in 1..Len(ss[n])
    BY <1>0, <2>0
  <2>2. ends[n - 1] = n - 1
    BY <1>4, <2>1
  <2>3. ends[n - 1] + 1 = n
    BY <1>0, <2>2
  <2> QED BY <1>1, <2>1, <2>3
<1>7. Concat(ss) \in Seq(D)
  BY ConcatFacts
<1>8. Concat(ss) = [n \in 1..Len(Concat(ss)) |-> Concat(ss)[n]]
  BY <1>7
<1> QED BY <1>5, <1>6, <1>8

\* What Append does to a list.
LEMMA ListAppend ==
  ASSUME NEW s, IsList(s), NEW x
  PROVE  /\ Len(s) \in Nat /\ DOMAIN s = 1..Len(s)
         /\ IsList(Append(s, x)) /\ Len(Append(s, x)) = Len(s) + 1
         /\ Append(s, x)[Len(s) + 1] = x
         /\ \A i \in 1..Len(s) : Append(s, x)[i] = s[i]
<1> DEFINE D == {s[i] : i \in DOMAIN s} \cup {x}
           t == Append(s, x)
<1>1. s \in Seq({s[i] : i \in DOMAIN s})
  BY DEF IsList
<1>2. s \in Seq(D) /\ x \in D
  BY <1>1
<1> HIDE DEF D
<1>3. t \in Seq(D) /\ Len(t) = Len(s) + 1 /\ t[Len(s) + 1] = x /\ \A i \in 1..Len(s) : t[i] = s[i]
  BY <1>2
<1>4. t \in Seq({t[i] : i \in DOMAIN t})
  <2> HIDE DEF t
  <2> QED BY <1>3
<1> QED BY <1>2, <1>3, <1>4 DEF IsList

\* A list, its prefixes, and how they grow.
LEMMA ListFacts ==
  ASSUME NEW s, IsList(s)
  PROVE  /\ Len(s) \in Nat /\ DOMAIN s = 1..Len(s)
         /\ SubSeq(s, 1, Len(s)) = s /\ SubSeq(s, 1, 0) = <<>>
         /\ \A n \in 0..(Len(s) - 1) : SubSeq(s, 1, n + 1) = Append(SubSeq(s, 1, n), s[n + 1])
         /\ \A n \in 0..Len(s) : SubSeq(s, 1, n) \o <<>> = SubSeq(s, 1, n)
         /\ \A n \in 0..(Len(s) - 1) : SubSeq(s, 1, n + 1) = SubSeq(s, 1, n) \o <<s[n + 1]>>
         /\ <<>> \o s = s
<1> DEFINE D == {s[i] : i \in DOMAIN s}
<1>1. s \in Seq(D)
  BY DEF IsList
<1> HIDE DEF D
<1>2. Len(s) \in Nat /\ DOMAIN s = 1..Len(s)
  BY <1>1
<1>3. SubSeq(s, 1, Len(s)) = s
  BY <1>1
<1>4. SubSeq(s, 1, 0) = <<>>
  BY <1>1
<1>5. ASSUME NEW n \in 0..(Len(s) - 1)
      PROVE  /\ SubSeq(s, 1, n + 1) = Append(SubSeq(s, 1, n), s[n + 1])
             /\ SubSeq(s, 1, n + 1) = SubSeq(s, 1, n) \o <<s[n + 1]>>
  <2>1. s[n + 1] \in D /\ n + 1 \in 1..Len(s)
    BY <1>1, <1>2
  <2> DEFINE a == SubSeq(s, 1, n)  b == SubSeq(s, 1, n + 1)
  <2>2. a \in Seq(D) /\ Len(a) = n /\ b \in Seq(D) /\ Len(b) = n + 1
    BY <1>1, <1>2, <2>1
  <2>3. \A i \in 1..n : a[i] = s[i]
    BY <1>1, <1>2
  <2>4. \A i \in 1..(n + 1) : b[i] = s[i]
    BY <1>1, <1>2
  <2>5. b = Append(a, s[n + 1])
    <3> HIDE DEF a, b
    <3> QED BY <2>1, <2>2, <2>3, <2>4
  <2>6. Append(a, s[n + 1]) = a \o <<s[n + 1]>>
    <3> HIDE DEF a
    <3> QED BY <2>1, <2>2, AppendIsConcat
  <2> QED BY <2>5, <2>6
<1>6. ASSUME NEW n \in 0..Len(s) PROVE SubSeq(s, 1, n) \o <<>> = SubSeq(s, 1, n)
  <2>1. SubSeq(s, 1, n) \in Seq(D)
    BY <1>1, <1>2
  <2> QED BY <2>1, ConcatEmptySeq
<1>7. <<>> \o s = s
  BY <1>1, ConcatEmptySeq
<1> QED BY <1>2, <1>3, <1>4, <1>5, <1>6, <1>7

-----------------------------------------------------------------------------
\* How events are collected: none, one, or the three of a Gemini part.
LEMMA CollectNone == ASSUME NEW s PROVE CollectAll(s, <<>>) = s
<1> DEFINE Recurs(h) == h = [n \in 0..0 |-> IF n = 0 THEN s ELSE Collect(h[n - 1], (<<>>)[n])]
           w == [n \in 0..0 |-> s]
<1>1. Recurs(w)
  OBVIOUS
<1>2. ASSUME NEW h, Recurs(h) PROVE h[0] = s
  BY <1>2
<1>3. Len(<<>>) = 0
  OBVIOUS
<1>4. CollectAll(s, <<>>) = (CHOOSE h : Recurs(h))[0]
  BY <1>3 DEF CollectAll
<1> HIDE DEF Recurs, w
<1> QED BY <1>1, <1>2, <1>4

\* One event,
LEMMA CollectOne == ASSUME NEW s, NEW e PROVE CollectAll(s, <<e>>) = Collect(s, e)
<1> DEFINE es == <<e>>
           Recurs(h) == h = [n \in 0..Len(es) |-> IF n = 0 THEN s ELSE Collect(h[n - 1], es[n])]
           c == Collect(s, e)
           w == [n \in 0..1 |-> IF n = 0 THEN s ELSE c]
<1>1. Len(es) = 1 /\ es[1] = e
  OBVIOUS
<1>2. CollectAll(s, es) = (CHOOSE h : Recurs(h))[1]
  BY <1>1 DEF CollectAll
<1> HIDE DEF es
<1>3. Recurs(w)
  <2>1. w[0] = s /\ w[1] = c
    OBVIOUS
  <2> HIDE DEF w
  <2>2. [n \in 0..1 |-> IF n = 0 THEN s ELSE Collect(w[n - 1], es[n])]
          = [n \in 0..1 |-> IF n = 0 THEN s ELSE c]
    <3>1. \A n \in 0..1 : n # 0 => n = 1 /\ n - 1 = 0
      OBVIOUS
    <3> QED BY <1>1, <2>1, <3>1
  <2> QED BY <1>1, <2>2 DEF w
<1>4. ASSUME NEW h, Recurs(h) PROVE h[1] = c
  <2>1. \A n \in 0..1 : h[n] = IF n = 0 THEN s ELSE Collect(h[n - 1], es[n])
    BY <1>1, <1>4
  <2>2. h[0] = s /\ h[1] = Collect(h[0], es[1])
    BY <2>1
  <2> QED BY <1>1, <2>2
<1> HIDE DEF Recurs, w, c
<1>5. CollectAll(s, es) = c
  BY <1>2, <1>3, <1>4
<1> QED BY <1>5 DEF es, c

\* and the three events of a part of Gemini.
LEMMA CollectThree ==
  ASSUME NEW s, NEW e, NEW f, NEW g
  PROVE  CollectAll(s, <<e, f, g>>) = Collect(Collect(Collect(s, e), f), g)
<1> DEFINE es == <<e, f, g>>
           Recurs(h) == h = [n \in 0..Len(es) |-> IF n = 0 THEN s ELSE Collect(h[n - 1], es[n])]
           c == Collect(s, e)
           d == Collect(c, f)
           k == Collect(d, g)
           w == [n \in 0..3 |-> IF n = 0 THEN s ELSE IF n = 1 THEN c ELSE IF n = 2 THEN d ELSE k]
<1>1. Len(es) = 3 /\ es[1] = e /\ es[2] = f /\ es[3] = g
  OBVIOUS
<1>2. CollectAll(s, es) = (CHOOSE h : Recurs(h))[3]
  BY <1>1 DEF CollectAll
<1> HIDE DEF es
<1>3. Recurs(w)
  <2>1. w[0] = s /\ w[1] = c /\ w[2] = d /\ w[3] = k
    OBVIOUS
  <2> HIDE DEF w
  <2>2. \A n \in 0..3 : w[n] = IF n = 0 THEN s ELSE Collect(w[n - 1], es[n])
    <3>1. \A n \in 0..3 : n = 0 \/ (n = 1 /\ n - 1 = 0) \/ (n = 2 /\ n - 1 = 1) \/ (n = 3 /\ n - 1 = 2)
      OBVIOUS
    <3> QED BY <1>1, <2>1, <3>1
  <2>3. w = [n \in 0..3 |-> IF n = 0 THEN s ELSE Collect(w[n - 1], es[n])]
    <3>1. w = [n \in 0..3 |-> w[n]]
      BY DEF w
    <3> QED BY <2>2, <3>1
  <2> QED BY <1>1, <2>3
<1>4. ASSUME NEW h, Recurs(h) PROVE h[3] = k
  <2>1. \A n \in 0..3 : h[n] = IF n = 0 THEN s ELSE Collect(h[n - 1], es[n])
    BY <1>1, <1>4
  <2>2. h[0] = s /\ h[1] = Collect(h[0], es[1]) /\ h[2] = Collect(h[1], es[2]) /\ h[3] = Collect(h[2], es[3])
    BY <2>1
  <2> QED BY <1>1, <2>2
<1> HIDE DEF Recurs, w, c, d, k
<1>5. CollectAll(s, es) = k
  BY <1>2, <1>3, <1>4
<1> QED BY <1>5 DEF es, c, d, k

\* The fields of a collector.
IsCollector(s) == s = [text |-> s.text, uses |-> s.uses, partial |-> s.partial, stop |-> s.stop]

\* What each event does to the collector.
LEMMA CollectFacts ==
  ASSUME NEW s, IsCollector(s)
  PROVE  /\ \A t : Collect(s, TextDelta(t)) =
              [text |-> Append(s.text, t), uses |-> s.uses, partial |-> s.partial, stop |-> s.stop]
         /\ \A i, id, n : Collect(s, ToolUseStart(i, id, n)) =
              [text |-> s.text, uses |-> With(s.uses, i, [id |-> id, name |-> n, input |-> <<>>]),
               partial |-> With(s.partial, i, Partial(s, i)), stop |-> s.stop]
         /\ \A i, j : Collect(s, ToolInputDelta(i, j)) =
              [text |-> s.text, uses |-> s.uses,
               partial |-> With(s.partial, i, Partial(s, i) \o j), stop |-> s.stop]
         /\ \A i : Collect(s, ToolUseStop(i)) =
              IF i \in DOMAIN s.uses
              THEN [text |-> s.text, uses |-> [s.uses EXCEPT ![i].input = Partial(s, i)],
                    partial |-> s.partial, stop |-> s.stop]
              ELSE s
         /\ \A r : Collect(s, MessageStop(r)) =
              [text |-> s.text, uses |-> s.uses, partial |-> s.partial, stop |-> r]
<1>1. ASSUME NEW t PROVE Collect(s, TextDelta(t)) =
        [text |-> Append(s.text, t), uses |-> s.uses, partial |-> s.partial, stop |-> s.stop]
  BY DEF Collect, TextDelta, IsCollector
<1>2. ASSUME NEW i, NEW id, NEW n PROVE Collect(s, ToolUseStart(i, id, n)) =
        [text |-> s.text, uses |-> With(s.uses, i, [id |-> id, name |-> n, input |-> <<>>]),
         partial |-> With(s.partial, i, Partial(s, i)), stop |-> s.stop]
  BY DEF Collect, ToolUseStart, IsCollector
<1>3. ASSUME NEW i, NEW j PROVE Collect(s, ToolInputDelta(i, j)) =
        [text |-> s.text, uses |-> s.uses,
         partial |-> With(s.partial, i, Partial(s, i) \o j), stop |-> s.stop]
  BY DEF Collect, ToolInputDelta, IsCollector
<1>4. ASSUME NEW i PROVE Collect(s, ToolUseStop(i)) =
        IF i \in DOMAIN s.uses
        THEN [text |-> s.text, uses |-> [s.uses EXCEPT ![i].input = Partial(s, i)],
              partial |-> s.partial, stop |-> s.stop]
        ELSE s
  BY DEF Collect, ToolUseStop, IsCollector
<1>5. ASSUME NEW r PROVE Collect(s, MessageStop(r)) =
        [text |-> s.text, uses |-> s.uses, partial |-> s.partial, stop |-> r]
  BY DEF Collect, MessageStop, IsCollector
<1> QED BY <1>1, <1>2, <1>3, <1>4, <1>5

\* What any reply is like.
ReplyInv ==
  /\ IsList(reply.text)
  /\ \A i \in DOMAIN reply.text : Is("cite", reply.text[i]) => reply.text[i].cite.path \in Paths
  /\ IsList(reply.calls)
  /\ \E r : \A i \in DOMAIN reply.calls : reply.calls[i].id = <<"tu", r, i>>
  /\ \A i \in DOMAIN reply.calls : IsList(reply.calls[i].input)
  /\ reply.stop \in {"tool_use", "end_turn", "max_tokens", "content_filter"}

\* The calls that the provider sends are calls of the reply.
LEMMA SentFacts ==
  ASSUME ReplyInv
  PROVE  /\ Len(Sent) \in Nat /\ DOMAIN Sent = 1..Len(Sent) /\ IsList(Sent)
         /\ 1..Len(Sent) \subseteq DOMAIN reply.calls
         /\ \A i \in 1..Len(Sent) :
              /\ IsList(Sent[i].input)
              /\ \A n : Sent[i].id # <<"gemini-call", n>>
              /\ \A k \in 1..Len(Sent) : Sent[k].id = Sent[i].id => k = i
<1> DEFINE I == {i \in DOMAIN reply.calls : reply.calls[i].whole \/ provider # "gemini"}
<1>1. Sent = Pick(reply.calls, I)
  BY DEF Sent, Only
<1>2. Len(reply.calls) \in Nat /\ DOMAIN reply.calls = 1..Len(reply.calls)
  BY ListFacts DEF ReplyInv
<1>3. I \in SUBSET Int /\ IsFiniteSet(I) /\ Cardinality(I) <= Len(reply.calls)
  <2>1. I \in SUBSET (1..Len(reply.calls))
    BY <1>2
  <2>2. IsFiniteSet(1..Len(reply.calls)) /\ Cardinality(1..Len(reply.calls)) = Len(reply.calls)
    <3> DEFINE n == Len(reply.calls)
    <3>1. n \in Nat
      BY <1>2
    <3> HIDE DEF n
    <3>2. IsFiniteSet(1..n) /\ Cardinality(1..n) = IF 1 > n THEN 0 ELSE n - 1 + 1
      BY <3>1, FS_Interval
    <3>3. IsFiniteSet(1..n) /\ Cardinality(1..n) = n
      BY <3>1, <3>2
    <3> QED BY <3>3 DEF n
  <2>3. IsFiniteSet(I) /\ Cardinality(I) <= Len(reply.calls)
    <3> HIDE DEF I
    <3> QED BY <2>1, <2>2, FS_Subset
  <2> QED BY <2>1, <2>3
<1> HIDE DEF I
<1>4. /\ Len(Sent) = Cardinality(I) /\ Cardinality(I) \in Nat
      /\ Sent \in Seq({reply.calls[i] : i \in I})
      /\ \A k \in 1..Len(Sent) : Nth(I, k) \in I /\ Sent[k] = reply.calls[Nth(I, k)]
  <2> DEFINE s == reply.calls  p == Pick(s, I)
  <2>1. /\ Cardinality(I) \in Nat
        /\ p \in Seq({s[i] : i \in I}) /\ Len(p) = Cardinality(I)
        /\ \A k \in 1..Cardinality(I) : Nth(I, k) \in I /\ p[k] = s[Nth(I, k)]
    <3> DEFINE D == {s[i] : i \in I}
    <3>1. \A i \in I : s[i] \in D
      OBVIOUS
    <3> HIDE DEF s, D
    <3>2. /\ Cardinality(I) \in Nat
          /\ p \in Seq(D) /\ Len(p) = Cardinality(I)
          /\ \A k \in 1..Cardinality(I) : Nth(I, k) \in I /\ p[k] = s[Nth(I, k)]
      BY <1>3, <3>1, PickFacts
    <3> QED BY <3>2 DEF D
  <2>2. p = Sent
    BY <1>1
  <2> HIDE DEF p
  <2> QED BY <2>1, <2>2
<1>5. DOMAIN Sent = 1..Len(Sent)
  BY <1>4
<1>6. IsList(Sent)
  <2>1. Sent \in Seq({Sent[i] : i \in DOMAIN Sent})
    BY <1>4, <1>5
  <2> QED BY <2>1 DEF IsList
<1>7. 1..Len(Sent) \subseteq DOMAIN reply.calls
  BY <1>2, <1>3, <1>4
<1>8. \A k \in 1..Len(Sent) : Nth(I, k) \in DOMAIN reply.calls /\ Rank(I, Nth(I, k)) = k
  BY <1>3, <1>4, NthFacts DEF I
<1>9. PICK r : \A i \in DOMAIN reply.calls : reply.calls[i].id = <<"tu", r, i>>
  BY DEF ReplyInv
<1>10. ASSUME NEW i \in 1..Len(Sent)
       PROVE  /\ IsList(Sent[i].input)
              /\ \A n : Sent[i].id # <<"gemini-call", n>>
              /\ \A k \in 1..Len(Sent) : Sent[k].id = Sent[i].id => k = i
  <2>1. IsList(Sent[i].input)
    BY <1>4, <1>8 DEF ReplyInv
  <2>2. \A k \in 1..Len(Sent) : Sent[k].id = <<"tu", r, Nth(I, k)>>
    BY <1>4, <1>8, <1>9
  <2>3. \A n : <<"tu", r, Nth(I, i)>> # <<"gemini-call", n>>
    OBVIOUS
  <2>4. ASSUME NEW k \in 1..Len(Sent), Sent[k].id = Sent[i].id PROVE k = i
    <3>1. Nth(I, k) = Nth(I, i)
      BY <2>2, <2>4
    <3> QED BY <1>8, <3>1
  <2> QED BY <2>1, <2>2, <2>3, <2>4
<1> QED BY <1>4, <1>5, <1>6, <1>7, <1>10
-----------------------------------------------------------------------------
\* How far the stream is.
Flowing ==
  /\ flow \in [text : 0..Len(reply.text), calls : 0..Len(Sent),
               inputs : [DOMAIN reply.calls -> Nat], open : BOOLEAN, over : BOOLEAN]
  /\ \A i \in 1..Len(Sent) :
       /\ flow.inputs[i] \in 0..Len(Sent[i].input)
       /\ i > flow.calls => flow.inputs[i] = 0
  /\ flow.calls > 0 => TextSent
  /\ flow.open => InBlocks
  /\ InBlocks => \A i \in 1..flow.calls : i < flow.calls \/ ~flow.open => InputSent(i)
  /\ flow.over =>
       /\ TextSent /\ flow.calls = Len(Sent) /\ ~flow.open
       /\ provider # "gemini" => \A i \in 1..Len(Sent) : InputSent(i)

\* The indices of the calls are consecutive.
LEMMA IndexFacts ==
  /\ BlockIndex(0) \in Int
  /\ \A i \in Int : BlockIndex(i) = BlockIndex(0) + i
  BY DEF BlockIndex

\* A chunk leaves the reply alone.
LEMMA SameReply ==
  ASSUME UNCHANGED <<provider, reply>>
  PROVE  /\ Sent' = Sent /\ Reason' = Reason /\ InBlocks' = InBlocks
         /\ \A i : BlockIndex(i)' = BlockIndex(i)
<1>1. Sent' = Sent
  BY DEF Sent, Only
<1>2. InBlocks' = InBlocks
  BY DEF InBlocks
<1>3. Reason' = Reason
  BY DEF Reason
<1>4. \A i : BlockIndex(i)' = BlockIndex(i)
  BY <1>2 DEF BlockIndex
<1> QED BY <1>1, <1>2, <1>3, <1>4

\* The fields of flow and their types.
LEMMA FlowFacts ==
  ASSUME Flowing
  PROVE  /\ flow = [text |-> flow.text, calls |-> flow.calls, inputs |-> flow.inputs,
                    open |-> flow.open, over |-> flow.over]
         /\ flow.text \in 0..Len(reply.text) /\ flow.calls \in 0..Len(Sent)
         /\ flow.inputs \in [DOMAIN reply.calls -> Nat]
         /\ flow.open \in BOOLEAN /\ flow.over \in BOOLEAN
  BY DEF Flowing

\* Each chunk that a provider sends keeps the order of its stream: the text
\* before the calls, a call's start before its input, and, where there are
\* blocks, one block's end before the next block.
LEMMA FlowTextBegins ==
  ASSUME ReplyInv, Flowing, TextBegins, UNCHANGED <<provider, reply>>
  PROVE  Flowing'
<1>1. flow' = [text |-> flow.text, calls |-> flow.calls, inputs |-> flow.inputs,
               open |-> TRUE, over |-> flow.over]
  BY FlowFacts DEF TextBegins
<1>2. Len(reply.text) \in Nat /\ Len(reply.text) # 0
  BY ListFacts, EmptySeq DEF ReplyInv, TextBegins, IsList
<1>3. ~TextSent /\ InBlocks
  BY <1>2 DEF TextSent, TextBegins, InBlocks
<1>4. flow.calls = 0 /\ ~flow.over
  BY <1>3, FlowFacts, SentFacts DEF Flowing
<1> QED BY <1>1, <1>3, <1>4, FlowFacts, SameReply DEF Flowing, TextSent, InputSent

\* A piece of the text.
LEMMA FlowTextArrives ==
  ASSUME ReplyInv, Flowing, TextArrives, UNCHANGED <<provider, reply>>
  PROVE  Flowing'
<1>1. flow' = [text |-> flow.text + 1, calls |-> flow.calls, inputs |-> flow.inputs,
               open |-> InBlocks, over |-> flow.over]
  BY FlowFacts DEF TextArrives
<1>2. Len(reply.text) \in Nat
  BY ListFacts DEF ReplyInv
<1>3. flow.text + 1 \in 0..Len(reply.text) /\ InBlocks \in BOOLEAN
  BY <1>2, FlowFacts DEF TextSent, TextArrives, InBlocks
<1>4. flow.calls = 0 /\ ~flow.over
  BY FlowFacts, SentFacts DEF Flowing, TextArrives
<1> QED BY <1>1, <1>3, <1>4, FlowFacts, SameReply DEF Flowing, TextSent, InputSent

\* The start of a call.
LEMMA FlowCallBegins ==
  ASSUME ReplyInv, Flowing, CallBegins, UNCHANGED <<provider, reply>>
  PROVE  Flowing'
<1>1. flow' = [text |-> flow.text, calls |-> flow.calls + 1, inputs |-> flow.inputs,
               open |-> InBlocks, over |-> flow.over]
  BY FlowFacts DEF CallBegins
<1>2. flow.calls + 1 \in 0..Len(Sent) /\ InBlocks \in BOOLEAN /\ flow.calls \in Nat
  BY FlowFacts, SentFacts DEF CallBegins, InBlocks
<1>3. ~flow.over /\ TextSent
  BY <1>2, FlowFacts, SentFacts DEF Flowing, CallBegins
<1>4. InBlocks => \A i \in 1..flow.calls : InputSent(i)
  BY DEF Flowing, CallBegins
<1>5. \A i \in 1..(flow.calls + 1) : i < flow.calls + 1 => i \in 1..flow.calls
  BY <1>2
<1>6. /\ Sent' = Sent /\ InBlocks' = InBlocks /\ reply' = reply
      /\ TextSent' = TextSent /\ \A i : InputSent(i)' = InputSent(i)
  BY <1>1, SameReply DEF TextSent, InputSent
<1>7. flow' \in [text : 0..Len(reply.text), calls : 0..Len(Sent),
                inputs : [DOMAIN reply.calls -> Nat], open : BOOLEAN, over : BOOLEAN]
  BY <1>1, <1>2, FlowFacts
<1>8. \A i \in 1..Len(Sent) :
        /\ flow'.inputs[i] \in 0..Len(Sent[i].input)
        /\ i > flow'.calls => flow'.inputs[i] = 0
  <2>1. flow'.inputs = flow.inputs /\ \A i \in 1..Len(Sent) : i > flow'.calls => i > flow.calls
    BY <1>1, <1>2, SentFacts
  <2> QED BY <2>1 DEF Flowing
<1>9. InBlocks => \A i \in 1..flow'.calls : i < flow'.calls \/ ~flow'.open => InputSent(i)
  BY <1>1, <1>4, <1>5
<1>10. /\ flow'.calls > 0 => TextSent
       /\ flow'.open => InBlocks
       /\ ~flow'.over
  BY <1>1, <1>3
<1> QED BY <1>6, <1>7, <1>8, <1>9, <1>10 DEF Flowing

\* A piece of a call's input.
LEMMA FlowInputArrives ==
  ASSUME ReplyInv, Flowing, NEW i \in 1..flow.calls, ~InputSent(i), InBlocks => i = flow.calls,
         provider # "gemini", flow' = [flow EXCEPT !.inputs[i] = @ + 1], UNCHANGED <<provider, reply>>
  PROVE  Flowing'
<1>1. flow' = [text |-> flow.text, calls |-> flow.calls, inputs |-> [flow.inputs EXCEPT ![i] = @ + 1],
               open |-> flow.open, over |-> flow.over]
  BY FlowFacts
<1>2. i \in 1..Len(Sent) /\ i \in DOMAIN reply.calls /\ flow.inputs[i] \in Nat
      /\ flow.calls \in Nat
  BY FlowFacts, SentFacts
<1>3. flow.inputs[i] + 1 \in 0..Len(Sent[i].input)
  <2>1. Len(Sent[i].input) \in Nat
    BY <1>2, SentFacts, ListFacts
  <2>2. flow.inputs[i] \in 0..Len(Sent[i].input)
    BY <1>2 DEF Flowing
  <2> QED BY <2>1, <2>2 DEF InputSent
<1>4. ~flow.over
  BY <1>2 DEF Flowing
<1>5. InBlocks => flow.open
  BY <1>2 DEF Flowing
<1>6. \A k \in 1..Len(Sent) : k # i => flow'.inputs[k] = flow.inputs[k]
  BY <1>1, <1>2, FlowFacts, SentFacts
<1>7. flow'.inputs \in [DOMAIN reply.calls -> Nat] /\ flow'.inputs[i] = flow.inputs[i] + 1
  BY <1>1, <1>2, FlowFacts
<1>8. \A k \in 1..Len(Sent) :
        flow'.inputs[k] \in 0..Len(Sent[k].input) /\ (k > flow.calls => flow'.inputs[k] = 0)
  <2> SUFFICES ASSUME NEW k \in 1..Len(Sent)
               PROVE  flow'.inputs[k] \in 0..Len(Sent[k].input) /\ (k > flow.calls => flow'.inputs[k] = 0)
    OBVIOUS
  <2>1. CASE k = i
    BY <1>2, <1>3, <1>7, <2>1
  <2>2. CASE k # i
    BY <1>6, <2>2 DEF Flowing
  <2> QED BY <2>1, <2>2
<1>9. InBlocks => \A k \in 1..flow.calls : k < flow.calls => flow'.inputs[k] = Len(Sent[k].input)
  <2> SUFFICES ASSUME InBlocks, NEW k \in 1..flow.calls, k < flow.calls
               PROVE  flow'.inputs[k] = Len(Sent[k].input)
    OBVIOUS
  <2>1. k # i /\ k \in 1..Len(Sent)
    BY <1>2, FlowFacts, SentFacts
  <2>2. InputSent(k)
    BY DEF Flowing
  <2> QED BY <1>6, <2>1, <2>2 DEF InputSent
<1>10. /\ flow'.text = flow.text /\ flow'.calls = flow.calls /\ flow'.open = flow.open /\ flow'.over = FALSE
       /\ flow' \in [text : 0..Len(reply.text), calls : 0..Len(Sent),
                     inputs : [DOMAIN reply.calls -> Nat], open : BOOLEAN, over : BOOLEAN]
  BY <1>1, <1>4, <1>7, FlowFacts
<1>11. (flow'.calls > 0 => TextSent') /\ (flow'.open => InBlocks')
  BY <1>10, SameReply DEF Flowing, TextSent
<1>12. InBlocks' => \A k \in 1..flow'.calls : k < flow'.calls \/ ~flow'.open => InputSent(k)'
  BY <1>5, <1>9, <1>10, SameReply DEF InputSent
<1> QED BY <1>8, <1>10, <1>11, <1>12, SameReply DEF Flowing

\* The end of a block.
LEMMA FlowBlockEnds ==
  ASSUME ReplyInv, Flowing, BlockEnds, UNCHANGED <<provider, reply>>
  PROVE  Flowing'
<1>1. flow' = [text |-> flow.text, calls |-> flow.calls, inputs |-> flow.inputs,
               open |-> FALSE, over |-> flow.over]
  BY FlowFacts DEF BlockEnds
<1>2. InBlocks => \A i \in 1..flow.calls : InputSent(i)
  <2> SUFFICES ASSUME InBlocks, NEW i \in 1..flow.calls PROVE InputSent(i)
    OBVIOUS
  <2>1. flow.calls \in Nat /\ flow.calls # 0
    BY FlowFacts, SentFacts
  <2>2. CASE i = flow.calls
    BY <2>1, <2>2 DEF BlockEnds
  <2>3. CASE i < flow.calls
    BY <2>3 DEF Flowing
  <2> QED BY <2>1, <2>2, <2>3
<1>3. ~flow.over
  BY DEF Flowing, BlockEnds
<1> QED BY <1>1, <1>2, <1>3, FlowFacts, SameReply DEF Flowing, TextSent, InputSent

\* A whole call, as Gemini sends it.
LEMMA FlowPartArrives ==
  ASSUME ReplyInv, Flowing, PartArrives, UNCHANGED <<provider, reply>>
  PROVE  Flowing'
<1>1. flow' = [text |-> flow.text, calls |-> flow.calls + 1, inputs |-> flow.inputs,
               open |-> flow.open, over |-> flow.over]
  BY FlowFacts DEF PartArrives
<1>2. flow.calls + 1 \in 0..Len(Sent) /\ ~InBlocks /\ flow.calls \in Nat
  BY FlowFacts, SentFacts DEF PartArrives, InBlocks
<1>3. ~flow.over /\ TextSent
  BY <1>2, FlowFacts, SentFacts DEF Flowing, PartArrives
<1> QED BY <1>1, <1>2, <1>3, FlowFacts, SameReply, SentFacts DEF Flowing, TextSent, InputSent

\* The stop reason, which comes last.
LEMMA FlowStopArrives ==
  ASSUME ReplyInv, provider \in Providers, Flowing, StopArrives, UNCHANGED <<provider, reply>>
  PROVE  Flowing'
<1>1. flow' = [text |-> flow.text, calls |-> flow.calls, inputs |-> flow.inputs,
               open |-> flow.open, over |-> TRUE]
  BY FlowFacts DEF StopArrives
<1>2. flow.calls = Len(Sent) /\ ~flow.open /\ TextSent
  BY DEF StopArrives
<1>3. provider # "gemini" => \A i \in 1..Len(Sent) : InputSent(i)
  BY <1>2 DEF StopArrives, Flowing, InBlocks, Providers
<1> QED BY <1>1, <1>2, <1>3, FlowFacts, SameReply DEF Flowing, TextSent, InputSent

\* The indices under which the first n calls are announced.
Announced(n) == BlockIndex(1)..BlockIndex(n)

\* u is the use of call i, under the provider's id or the adapter's number, with
\* an input that is there in full or not yet.
IsUse(u, i) ==
  /\ u = [id |-> u.id, name |-> Sent[i].name, input |-> u.input]
  /\ u.id = Sent[i].id \/ (provider = "gemini" /\ u.id = <<"gemini-call", i - 1>>)
  /\ u.input \in {<<>>, Sent[i].input}

\* s is what a collector has that heard the text, and the first n calls, with
\* what told says of their inputs.
Heard(s, text, n, told) ==
  /\ IsCollector(s)
  /\ s.text = text
  /\ DOMAIN s.uses = Announced(n) /\ DOMAIN s.partial = Announced(n)
  /\ \A i \in 1..n :
       /\ IsUse(s.uses[BlockIndex(i)], i)
       /\ s.partial[BlockIndex(i)] = told[i]

\* The index of each announced call is its own.
LEMMA AnnouncedFacts ==
  ASSUME NEW n \in Nat
  PROVE  /\ \A i \in 1..n : BlockIndex(i) \in Announced(n)
         /\ \A x \in Announced(n) : \E i \in 1..n : x = BlockIndex(i)
         /\ BlockIndex(n + 1) \notin Announced(n)
         /\ Announced(n + 1) = Announced(n) \cup {BlockIndex(n + 1)}
         /\ \A i, k \in Nat : BlockIndex(i) = BlockIndex(k) => i = k
<1> DEFINE b == BlockIndex(0)
<1>1. b \in Int /\ \A i \in Int : BlockIndex(i) = b + i
  BY IndexFacts
<1> HIDE DEF b
<1>2. Announced(n) = (b + 1)..(b + n) /\ Announced(n + 1) = (b + 1)..(b + n + 1)
  BY <1>1 DEF Announced
<1>3. \A x \in (b + 1)..(b + n) : x - b \in 1..n /\ x = b + (x - b)
  BY <1>1
<1>4. ASSUME NEW i \in 1..n PROVE BlockIndex(i) \in Announced(n)
  <2>1. i \in Int /\ b + i \in (b + 1)..(b + n)
    BY <1>1
  <2> QED BY <1>1, <1>2, <2>1
<1>5. ASSUME NEW x \in Announced(n) PROVE \E i \in 1..n : x = BlockIndex(i)
  <2>1. x - b \in 1..n /\ x = b + (x - b)
    BY <1>2, <1>3
  <2>2. x = BlockIndex(x - b)
    BY <1>1, <2>1
  <2> QED BY <2>1, <2>2
<1>6. BlockIndex(n + 1) \notin Announced(n)
  BY <1>1, <1>2
<1>7. Announced(n + 1) = Announced(n) \cup {BlockIndex(n + 1)}
  <2>1. BlockIndex(n + 1) = b + n + 1
    BY <1>1
  <2>2. (b + 1)..(b + n + 1) = ((b + 1)..(b + n)) \cup {b + n + 1}
    BY <1>1
  <2> QED BY <1>2, <2>1, <2>2
<1>8. \A i, k \in Nat : BlockIndex(i) = BlockIndex(k) => i = k
  BY <1>1
<1> QED BY <1>4, <1>5, <1>6, <1>7, <1>8

\* What the collector has heard after one more event. A call's start adds a
\* use under an index that none has yet.
LEMMA HeardStart ==
  ASSUME NEW s, NEW text, NEW n \in Nat, NEW told, NEW more, NEW id, Heard(s, text, n, told),
         id = Sent[n + 1].id \/ (provider = "gemini" /\ id = <<"gemini-call", n>>),
         more[n + 1] = <<>>, \A i \in 1..n : more[i] = told[i]
  PROVE  LET t == Collect(s, ToolUseStart(BlockIndex(n + 1), id, Sent[n + 1].name))
         IN Heard(t, text, n + 1, more) /\ t.stop = s.stop
<1> DEFINE x == BlockIndex(n + 1)
           u == [id |-> id, name |-> Sent[n + 1].name, input |-> <<>>]
           t == Collect(s, ToolUseStart(x, id, Sent[n + 1].name))
<1>1. t = [text |-> s.text, uses |-> With(s.uses, x, u),
           partial |-> With(s.partial, x, Partial(s, x)), stop |-> s.stop]
  BY CollectFacts DEF Heard
<1>2. Partial(s, x) = <<>>
  BY AnnouncedFacts DEF Partial, Heard
<1>3. x \notin Announced(n) /\ Announced(n + 1) = Announced(n) \cup {x}
  BY AnnouncedFacts
<1>4. IsUse(u, n + 1)
  <2>1. (n + 1) - 1 = n
    OBVIOUS
  <2> QED BY <2>1 DEF IsUse
<1> HIDE DEF u, t
<1>5. /\ DOMAIN t.uses = Announced(n + 1) /\ DOMAIN t.partial = Announced(n + 1)
      /\ t.uses[x] = u /\ t.partial[x] = <<>>
      /\ \A y \in Announced(n) : t.uses[y] = s.uses[y] /\ t.partial[y] = s.partial[y]
      /\ t.text = s.text /\ t.stop = s.stop /\ IsCollector(t)
  <2>1. DOMAIN s.uses = Announced(n) /\ DOMAIN s.partial = Announced(n)
    BY DEF Heard
  <2> QED BY <1>1, <1>2, <1>3, <2>1 DEF With, IsCollector
<1>6. ASSUME NEW i \in 1..(n + 1)
      PROVE  IsUse(t.uses[BlockIndex(i)], i) /\ t.partial[BlockIndex(i)] = more[i]
  <2>1. CASE i = n + 1
    BY <1>4, <1>5, <2>1
  <2>2. CASE i \in 1..n
    <3>1. BlockIndex(i) \in Announced(n)
      BY <2>2, AnnouncedFacts
    <3> QED BY <1>5, <2>2, <3>1 DEF Heard
  <2> QED BY <2>1, <2>2
<1> QED BY <1>5, <1>6 DEF Heard, t

\* more has what told has, and json behind the i-th input.
Extends(told, more, n, i, json) ==
  more[i] = told[i] \o json /\ \A k \in 1..n : k # i => more[k] = told[k]

\* A piece of an input is put behind the earlier ones of the same call.
LEMMA HeardInput ==
  ASSUME NEW s, NEW text, NEW n \in Nat, NEW told, NEW more, NEW json, Heard(s, text, n, told),
         NEW i \in 1..n, Extends(told, more, n, i, json)
  PROVE  LET t == Collect(s, ToolInputDelta(BlockIndex(i), json))
         IN Heard(t, text, n, more) /\ t.stop = s.stop
<1> DEFINE x == BlockIndex(i)
           t == Collect(s, ToolInputDelta(x, json))
<1>1. t = [text |-> s.text, uses |-> s.uses,
           partial |-> With(s.partial, x, Partial(s, x) \o json), stop |-> s.stop]
  BY CollectFacts DEF Heard
<1>2. x \in Announced(n)
  BY AnnouncedFacts
<1>3. Partial(s, x) \o json = more[i]
  BY <1>2 DEF Partial, Heard, Extends
<1> HIDE DEF x, t
<1>4. /\ t.uses = s.uses /\ DOMAIN t.partial = Announced(n) /\ t.partial[x] = more[i]
      /\ \A y \in Announced(n) : y # x => t.partial[y] = s.partial[y]
      /\ t.text = s.text /\ t.stop = s.stop /\ IsCollector(t)
  <2>1. DOMAIN s.partial = Announced(n)
    BY DEF Heard
  <2> QED BY <1>1, <1>2, <1>3, <2>1 DEF With, IsCollector
<1>5. ASSUME NEW k \in 1..n
      PROVE  IsUse(t.uses[BlockIndex(k)], k) /\ t.partial[BlockIndex(k)] = more[k]
  <2>1. CASE k = i
    BY <1>4, <2>1 DEF x, Heard
  <2>2. CASE k # i
    <3>1. BlockIndex(k) \in Announced(n) /\ BlockIndex(k) # x
      <4>1. k \in Nat /\ i \in Nat
        OBVIOUS
      <4> QED BY <2>2, <4>1, AnnouncedFacts DEF x
    <3> QED BY <1>4, <2>2, <3>1 DEF Heard, Extends
  <2> QED BY <2>1, <2>2
<1> QED BY <1>4, <1>5 DEF Heard, t, x

\* A call that ends is given its whole input.
LEMMA HeardStop ==
  ASSUME NEW s, NEW text, NEW n \in Nat, NEW told, NEW x, Heard(s, text, n, told),
         \A i \in 1..n : BlockIndex(i) = x => told[i] = Sent[i].input
  PROVE  LET t == Collect(s, ToolUseStop(x)) IN Heard(t, text, n, told) /\ t.stop = s.stop
<1> DEFINE t == Collect(s, ToolUseStop(x))
<1>1. t = IF x \in DOMAIN s.uses
          THEN [text |-> s.text, uses |-> [s.uses EXCEPT ![x].input = Partial(s, x)],
                partial |-> s.partial, stop |-> s.stop]
          ELSE s
  BY CollectFacts DEF Heard
<1> HIDE DEF t
<1>2. CASE x \notin DOMAIN s.uses
  BY <1>1, <1>2 DEF t
<1>3. CASE x \in DOMAIN s.uses
  <2>1. PICK i \in 1..n : x = BlockIndex(i)
    BY <1>3, AnnouncedFacts DEF Heard
  <2>2. Partial(s, x) = Sent[i].input
    BY <2>1, AnnouncedFacts DEF Partial, Heard
  <2> DEFINE u == s.uses[x]  v == [u EXCEPT !.input = Sent[i].input]
  <2>3. /\ t.uses = [s.uses EXCEPT ![x] = v] /\ t.partial = s.partial
        /\ t.text = s.text /\ t.stop = s.stop /\ IsCollector(t)
    BY <1>1, <1>3, <2>2 DEF IsCollector
  <2>4. IsUse(u, i)
    BY <2>1 DEF Heard
  <2>5. IsUse(v, i)
    <3> HIDE DEF u
    <3> QED BY <2>4 DEF IsUse
  <2> HIDE DEF v
  <2>6. /\ DOMAIN t.uses = Announced(n) /\ t.uses[x] = v
        /\ \A y \in Announced(n) : y # x => t.uses[y] = s.uses[y]
    BY <1>3, <2>3 DEF Heard
  <2>7. ASSUME NEW k \in 1..n
        PROVE  IsUse(t.uses[BlockIndex(k)], k) /\ t.partial[BlockIndex(k)] = told[k]
    <3>1. CASE k = i
      BY <2>1, <2>3, <2>5, <2>6, <3>1 DEF Heard
    <3>2. CASE k # i
      <4>1. BlockIndex(k) \in Announced(n) /\ BlockIndex(k) # x
        <5>1. k \in Nat /\ i \in Nat
          OBVIOUS
        <5> QED BY <2>1, <3>2, <5>1, AnnouncedFacts
      <4> QED BY <2>3, <2>6, <4>1 DEF Heard
    <3> QED BY <3>1, <3>2
  <2> QED BY <2>3, <2>6, <2>7 DEF Heard, t
<1> QED BY <1>2, <1>3 DEF t

\* The three events of one Gemini part.
LEMMA HeardPart ==
  ASSUME NEW s, NEW text, NEW n \in Nat, NEW told, NEW id, NEW input, Heard(s, text, n, told),
         id = Sent[n + 1].id \/ (provider = "gemini" /\ id = <<"gemini-call", n>>),
         input = Sent[n + 1].input, told[n + 1] = input, <<>> \o input = input
  PROVE  LET x == BlockIndex(n + 1)
             s1 == Collect(s, ToolUseStart(x, id, Sent[n + 1].name))
             s2 == Collect(s1, ToolInputDelta(x, input))
             s3 == Collect(s2, ToolUseStop(x))
         IN (\A i \in 1..n : told[i] = Sent[i].input) => Heard(s3, text, n + 1, told)
<1> DEFINE m == n + 1
           x == BlockIndex(m)
           s1 == Collect(s, ToolUseStart(x, id, Sent[m].name))
           s2 == Collect(s1, ToolInputDelta(x, input))
           s3 == Collect(s2, ToolUseStop(x))
           less == [i \in 1..m |-> IF i = m THEN <<>> ELSE told[i]]
<1>1. m \in Nat /\ m \in 1..m /\ 1..n \subseteq 1..m /\ \A k \in 1..m : k # m => k \in 1..n
  OBVIOUS
<1>2. less[m] = <<>> /\ \A i \in 1..n : i # m /\ less[i] = told[i]
  OBVIOUS
<1> HIDE DEF less
<1>3. Heard(s1, text, m, less)
  BY <1>2, HeardStart
<1>4. Heard(s2, text, m, told)
  <2>1. m \in 1..m /\ Extends(less, told, m, m, input)
    BY <1>1, <1>2 DEF Extends
  <2> HIDE DEF s1, m
  <2> QED BY <1>1, <1>3, <2>1, HeardInput
<1>5. ASSUME \A i \in 1..n : told[i] = Sent[i].input PROVE Heard(s3, text, m, told)
  <2>1. \A i \in 1..m : told[i] = Sent[i].input
    BY <1>1, <1>5
  <2> HIDE DEF s2, m, x
  <2> QED BY <1>1, <1>4, <2>1, HeardStop
<1> QED BY <1>5

\* A piece of the text is put behind the text.
LEMMA HeardText ==
  ASSUME NEW s, NEW text, NEW n \in Nat, NEW told, NEW piece, Heard(s, text, n, told)
  PROVE  LET t == Collect(s, TextDelta(piece)) IN Heard(t, Append(text, piece), n, told) /\ t.stop = s.stop
<1> DEFINE t == Collect(s, TextDelta(piece))
<1>1. t = [text |-> Append(s.text, piece), uses |-> s.uses, partial |-> s.partial, stop |-> s.stop]
  BY CollectFacts DEF Heard
<1> HIDE DEF t
<1> QED BY <1>1 DEF Heard, t, IsCollector

\* A stop reason changes neither text nor uses.
LEMMA HeardReason ==
  ASSUME NEW s, NEW text, NEW n \in Nat, NEW told, NEW reason, Heard(s, text, n, told)
  PROVE  LET t == Collect(s, MessageStop(reason)) IN Heard(t, text, n, told) /\ t.stop = reason
<1> DEFINE t == Collect(s, MessageStop(reason))
<1>1. t = [text |-> s.text, uses |-> s.uses, partial |-> s.partial, stop |-> reason]
  BY CollectFacts DEF Heard
<1> HIDE DEF t
<1> QED BY <1>1 DEF Heard, t, IsCollector

-----------------------------------------------------------------------------
\* What the adapters make of each kind of chunk.
LEMMA ChunkEvents ==
  ASSUME provider \in Providers
  PROVE  /\ provider = "anthropic" => Events([kind |-> "text block"]) = <<>>
         /\ \A p : Events([kind |-> "text", text |-> p]) = <<TextDelta(p)>>
         /\ \A x, c : provider # "gemini" /\ x \notin adapter.seen =>
              Events([kind |-> "call", index |-> x, call |-> c]) = <<ToolUseStart(x, c.id, c.name)>>
         /\ \A x, j : provider # "gemini" =>
              Events([kind |-> "input", index |-> x, json |-> j]) = <<ToolInputDelta(x, <<j>>)>>
         /\ \A x : InBlocks =>
              Events([kind |-> "stop", index |-> x]) \in {<<>>, <<ToolUseStop(x)>>}
         /\ \A id, n, j : provider = "gemini" =>
              Events([kind |-> "function_call", id |-> id, name |-> n, args |-> j]) =
                <<ToolUseStart(adapter.count, IF id = NoId THEN <<"gemini-call", adapter.count>> ELSE id, n),
                  ToolInputDelta(adapter.count, j), ToolUseStop(adapter.count)>>
         /\ \A r : r # "stop_sequence" =>
              Events([kind |-> "finish", reason |-> r]) = IF InBlocks THEN <<MessageStop(r)>> ELSE <<>>
<1> USE DEF Providers, Events, InBlocks
<1>1. provider = "anthropic" => Events([kind |-> "text block"]) = <<>>
  BY DEF AnthropicEvents
<1>2. ASSUME NEW p PROVE Events([kind |-> "text", text |-> p]) = <<TextDelta(p)>>
  BY DEF AnthropicEvents, BedrockEvents, OpenAIEvents, GeminiEvents
<1>3. ASSUME NEW x, NEW c, provider # "gemini", x \notin adapter.seen
      PROVE  Events([kind |-> "call", index |-> x, call |-> c]) = <<ToolUseStart(x, c.id, c.name)>>
  BY <1>3 DEF AnthropicEvents, BedrockEvents, OpenAIEvents
<1>4. ASSUME NEW x, NEW j, provider # "gemini"
      PROVE  Events([kind |-> "input", index |-> x, json |-> j]) = <<ToolInputDelta(x, <<j>>)>>
  BY <1>4 DEF AnthropicEvents, BedrockEvents, OpenAIEvents
<1>5. ASSUME NEW x, InBlocks PROVE Events([kind |-> "stop", index |-> x]) \in {<<>>, <<ToolUseStop(x)>>}
  BY <1>5 DEF AnthropicEvents, BedrockEvents
<1>6. ASSUME NEW id, NEW n, NEW j, provider = "gemini"
      PROVE  Events([kind |-> "function_call", id |-> id, name |-> n, args |-> j]) =
                <<ToolUseStart(adapter.count, IF id = NoId THEN <<"gemini-call", adapter.count>> ELSE id, n),
                  ToolInputDelta(adapter.count, j), ToolUseStop(adapter.count)>>
  BY <1>6 DEF GeminiEvents
<1>7. ASSUME NEW r, r # "stop_sequence"
      PROVE  Events([kind |-> "finish", reason |-> r]) = IF InBlocks THEN <<MessageStop(r)>> ELSE <<>>
  BY <1>7 DEF AnthropicEvents, BedrockEvents, OpenAIEvents, GeminiEvents
<1> HIDE DEF Events, InBlocks
<1> QED BY <1>1, <1>2, <1>3, <1>4, <1>5, <1>6, <1>7

\* What was said of the inputs of the calls.
Told == [i \in 1..Len(Sent) |->
          IF provider = "gemini" THEN Sent[i].input ELSE SubSeq(Sent[i].input, 1, flow.inputs[i])]

\* What the collector and the adapter have of the stream.
Hearing ==
  /\ Heard(collector, SubSeq(reply.text, 1, flow.text), flow.calls, Told)
  /\ adapter = [seen |-> adapter.seen, count |-> adapter.count, finish |-> adapter.finish]
  /\ adapter.seen \subseteq Announced(flow.calls)
  /\ provider = "gemini" => adapter.count = flow.calls
  /\ flow.over => adapter.finish = Reason
  /\ flow.over /\ InBlocks => collector.stop = reply.stop

\* Hearing after a step, from what its chunk did.
LEMMA HeardNext ==
  ASSUME UNCHANGED <<provider, reply>>,
         Heard(collector', SubSeq(reply.text, 1, flow'.text), flow'.calls, Told'),
         adapter' = [seen |-> adapter'.seen, count |-> adapter'.count, finish |-> adapter'.finish],
         adapter'.seen \subseteq Announced(flow'.calls),
         provider = "gemini" => adapter'.count = flow'.calls,
         flow'.over => adapter'.finish = Reason,
         flow'.over /\ InBlocks => collector'.stop = reply.stop
  PROVE  Hearing'
<1>1. Heard(collector, SubSeq(reply.text, 1, flow.text), flow.calls, Told)'
  BY SameReply DEF Heard, IsUse, Announced, IsCollector
<1>2. (adapter.seen \subseteq Announced(flow.calls))'
  BY SameReply DEF Announced
<1> QED BY <1>1, <1>2, SameReply DEF Hearing

\* What was said of each input so far: nothing of a call that has not begun,
\* all of it where it is complete or comes in one part.
LEMMA ToldFacts ==
  ASSUME ReplyInv, Flowing
  PROVE  /\ \A i \in 1..Len(Sent) :
              Told[i] = IF provider = "gemini" THEN Sent[i].input
                        ELSE SubSeq(Sent[i].input, 1, flow.inputs[i])
         /\ \A i \in 1..Len(Sent) : InputSent(i) \/ provider = "gemini" => Told[i] = Sent[i].input
         /\ \A i \in 1..Len(Sent) : i > flow.calls /\ provider # "gemini" => Told[i] = <<>>
<1>1. \A i \in 1..Len(Sent) : Told[i] = IF provider = "gemini" THEN Sent[i].input
                        ELSE SubSeq(Sent[i].input, 1, flow.inputs[i])
  BY DEF Told
<1>2. \A i \in 1..Len(Sent) : IsList(Sent[i].input)
  BY SentFacts
<1>3. \A i \in 1..Len(Sent) : InputSent(i) \/ provider = "gemini" => Told[i] = Sent[i].input
  BY <1>1, <1>2, ListFacts DEF InputSent
<1>4. ASSUME NEW i \in 1..Len(Sent), i > flow.calls, provider # "gemini" PROVE Told[i] = <<>>
  <2>1. flow.inputs[i] = 0
    BY <1>4 DEF Flowing
  <2> QED BY <1>1, <1>2, <1>4, <2>1, ListFacts
<1> QED BY <1>1, <1>3, <1>4

\* The same of the next state.
LEMMA ToldNext ==
  ASSUME UNCHANGED <<provider, reply>>
  PROVE  \A i \in 1..Len(Sent) :
           Told'[i] = IF provider = "gemini" THEN Sent[i].input
                      ELSE SubSeq(Sent[i].input, 1, flow'.inputs[i])
  BY SameReply DEF Told

\* Each chunk, adapted and collected, leaves the collector with the prefix of
\* the reply that the stream has reached.
LEMMA HearTextBegins ==
  ASSUME ReplyInv, provider \in Providers, Flowing, Hearing, TextBegins, UNCHANGED <<provider, reply>>
  PROVE  Hearing'
<1>1. collector' = collector
  BY ChunkEvents, CollectNone, CollectOne, CollectThree DEF TextBegins, Receive
<1>2. adapter' = [seen |-> adapter.seen, count |-> adapter.count, finish |-> adapter.finish]
  BY DEF TextBegins, Receive, Adapted
<1>3. /\ flow'.text = flow.text /\ flow'.calls = flow.calls /\ flow'.inputs = flow.inputs
      /\ flow'.over = flow.over
  BY FlowFacts DEF TextBegins
<1>4. Told' = Told
  BY <1>3, SameReply DEF Told
<1> QED BY <1>1, <1>2, <1>3, <1>4, HeardNext DEF Hearing

\* A piece of the text.
LEMMA HearTextArrives ==
  ASSUME ReplyInv, provider \in Providers, Flowing, Hearing, TextArrives, UNCHANGED <<provider, reply>>
  PROVE  Hearing'
<1> DEFINE p == reply.text[flow.text + 1]
<1>1. collector' = Collect(collector, TextDelta(p))
  <2> DEFINE chunk == [kind |-> "text", text |-> p]
  <2>1. collector' = CollectAll(collector, Events(chunk))
    BY DEF TextArrives, Receive
  <2>2. Events(chunk) = <<TextDelta(p)>>
    <3> HIDE DEF p
    <3> QED BY ChunkEvents
  <2> HIDE DEF chunk
  <2> QED BY <2>1, <2>2, CollectOne
<1>2. adapter' = [seen |-> adapter.seen, count |-> adapter.count, finish |-> adapter.finish]
  BY DEF TextArrives, Receive, Adapted
<1>3. /\ flow'.text = flow.text + 1 /\ flow'.calls = flow.calls /\ flow'.inputs = flow.inputs
      /\ flow'.over = flow.over
  BY FlowFacts DEF TextArrives
<1>4. Told' = Told
  BY <1>3, SameReply DEF Told
<1>5. SubSeq(reply.text, 1, flow.text + 1) = Append(SubSeq(reply.text, 1, flow.text), p)
  <2>1. Len(reply.text) \in Nat /\ flow.text \in 0..(Len(reply.text) - 1)
    BY FlowFacts, ListFacts DEF ReplyInv, TextArrives, TextSent
  <2> QED BY <2>1, ListFacts DEF ReplyInv
<1>6. ~flow.over
  BY DEF TextArrives, Flowing
<1>7. flow.calls \in Nat
  BY FlowFacts, SentFacts
<1>8. Heard(collector', SubSeq(reply.text, 1, flow'.text), flow'.calls, Told')
  <2> HIDE DEF p
  <2>1. Heard(collector, SubSeq(reply.text, 1, flow.text), flow.calls, Told)
    BY DEF Hearing
  <2>2. Heard(collector', Append(SubSeq(reply.text, 1, flow.text), p), flow.calls, Told)
    BY <1>1, <1>7, <2>1, HeardText
  <2> QED BY <1>3, <1>4, <1>5, <2>2
<1> QED BY <1>2, <1>3, <1>6, <1>8, HeardNext DEF Hearing

\* The start of a call.
LEMMA HearCallBegins ==
  ASSUME ReplyInv, provider \in Providers, Flowing, Hearing, CallBegins, UNCHANGED <<provider, reply>>
  PROVE  Hearing'
<1> DEFINE n == flow.calls  x == BlockIndex(n + 1)  c == Sent[n + 1]
<1>1. n \in Nat /\ n + 1 \in 1..Len(Sent)
  BY FlowFacts, SentFacts DEF CallBegins
<1>2. x \notin adapter.seen /\ Announced(n + 1) = Announced(n) \cup {x}
  BY <1>1, AnnouncedFacts DEF Hearing
<1>3. collector' = Collect(collector, ToolUseStart(x, c.id, c.name))
  <2> DEFINE chunk == [kind |-> "call", index |-> x, call |-> c]
  <2>1. collector' = CollectAll(collector, Events(chunk)) /\ provider # "gemini"
    BY DEF CallBegins, Receive
  <2>2. Events(chunk) = <<ToolUseStart(x, c.id, c.name)>>
    <3> HIDE DEF x, c
    <3> QED BY <1>2, <2>1, ChunkEvents
  <2> HIDE DEF chunk
  <2> QED BY <2>1, <2>2, CollectNone, CollectOne, CollectThree
<1>4. adapter' = [seen |-> adapter.seen \cup {x}, count |-> adapter.count, finish |-> adapter.finish]
  BY DEF CallBegins, Receive, Adapted
<1>5. /\ flow'.text = flow.text /\ flow'.calls = n + 1 /\ flow'.inputs = flow.inputs
      /\ flow'.over = flow.over /\ provider # "gemini"
  BY FlowFacts DEF CallBegins
<1>6. Told' = Told
  BY <1>5, SameReply DEF Told
<1>7. Told[n + 1] = <<>>
  <2>1. n + 1 > flow.calls
    BY <1>1
  <2> HIDE DEF n
  <2> QED BY <1>1, <1>5, <2>1, ToldFacts
<1>8. Heard(collector', SubSeq(reply.text, 1, flow'.text), flow'.calls, Told')
  <2> DEFINE text == SubSeq(reply.text, 1, flow.text)
  <2>1. Heard(collector, text, n, Told)
    BY DEF Hearing
  <2>2. Heard(collector', text, n + 1, Told)
    <3> HIDE DEF n, text
    <3> QED BY <1>1, <1>3, <1>7, <2>1, HeardStart
  <2> QED BY <1>5, <1>6, <2>2
<1>9. ~flow.over
  BY <1>1, SentFacts DEF Flowing, CallBegins
<1> QED
  <2>1. adapter'.seen \subseteq Announced(flow'.calls)
    BY <1>2, <1>4, <1>5 DEF Hearing
  <2> HIDE DEF n, x, c
  <2> QED BY <1>4, <1>5, <1>8, <1>9, <2>1, HeardNext

\* A piece of a call's input: found by its index, not by its place.
LEMMA HearInputArrives ==
  ASSUME ReplyInv, provider \in Providers, Flowing, Hearing, provider # "gemini",
         NEW i \in 1..flow.calls, ~InputSent(i),
         Receive([kind |-> "input", index |-> BlockIndex(i), json |-> Sent[i].input[flow.inputs[i] + 1]]),
         flow' = [flow EXCEPT !.inputs[i] = @ + 1], UNCHANGED <<provider, reply>>
  PROVE  Hearing'
<1> DEFINE x == BlockIndex(i)  j == Sent[i].input[flow.inputs[i] + 1]
<1>1. flow.calls \in Nat /\ i \in 1..Len(Sent) /\ i \in DOMAIN reply.calls
  BY FlowFacts, SentFacts
<1>2. collector' = Collect(collector, ToolInputDelta(x, <<j>>))
  <2> DEFINE chunk == [kind |-> "input", index |-> x, json |-> j]
  <2>1. collector' = CollectAll(collector, Events(chunk))
    BY DEF Receive
  <2>2. Events(chunk) = <<ToolInputDelta(x, <<j>>)>>
    <3> HIDE DEF x, j
    <3> QED BY ChunkEvents
  <2> HIDE DEF chunk
  <2> QED BY <2>1, <2>2, CollectNone, CollectOne, CollectThree
<1>3. adapter' = [seen |-> adapter.seen, count |-> adapter.count, finish |-> adapter.finish]
  BY DEF Receive, Adapted
<1>4. /\ flow'.text = flow.text /\ flow'.calls = flow.calls /\ flow'.over = flow.over
      /\ flow'.inputs = [flow.inputs EXCEPT ![i] = @ + 1]
  BY FlowFacts
<1>5. Told'[i] = Told[i] \o <<j>>
  <2>1. flow.inputs[i] \in 0..(Len(Sent[i].input) - 1)
    <3>1. Len(Sent[i].input) \in Nat
      BY <1>1, SentFacts, ListFacts
    <3>2. flow.inputs[i] \in 0..Len(Sent[i].input)
      BY <1>1 DEF Flowing
    <3> QED BY <3>1, <3>2 DEF InputSent
  <2>2. flow'.inputs[i] = flow.inputs[i] + 1
    BY <1>1, <1>4, FlowFacts
  <2>3. SubSeq(Sent[i].input, 1, flow.inputs[i] + 1) = SubSeq(Sent[i].input, 1, flow.inputs[i]) \o <<j>>
    BY <1>1, <2>1, SentFacts, ListFacts
  <2>4. Told[i] = SubSeq(Sent[i].input, 1, flow.inputs[i])
    BY <1>1, ToldFacts
  <2>5. Told'[i] = SubSeq(Sent[i].input, 1, flow'.inputs[i])
    BY <1>1, ToldNext
  <2> QED BY <2>2, <2>3, <2>4, <2>5
<1>6. ASSUME NEW k \in 1..flow.calls, k # i PROVE Told'[k] = Told[k]
  <2>1. k \in 1..Len(Sent) /\ k \in DOMAIN reply.calls
    BY FlowFacts, SentFacts
  <2>2. flow'.inputs[k] = flow.inputs[k]
    BY <1>4, <1>6, <2>1, FlowFacts
  <2> QED BY <2>1, <2>2, ToldFacts, ToldNext
<1>7. Heard(collector', SubSeq(reply.text, 1, flow'.text), flow'.calls, Told')
  <2> DEFINE text == SubSeq(reply.text, 1, flow.text)  more == Told'
  <2>1. Heard(collector, text, flow.calls, Told)
    BY DEF Hearing
  <2>2. Heard(collector', text, flow.calls, more)
    <3>1. Extends(Told, more, flow.calls, i, <<j>>)
      BY <1>5, <1>6 DEF Extends
    <3> HIDE DEF text, more, j
    <3> QED BY <1>1, <1>2, <2>1, <3>1, HeardInput
  <2> QED BY <1>4, <2>2
<1>8. ~flow.over
  BY <1>1 DEF Flowing
<1> QED
  <2>1. adapter'.seen \subseteq Announced(flow'.calls)
    BY <1>3, <1>4 DEF Hearing
  <2> HIDE DEF x, j
  <2> QED BY <1>3, <1>4, <1>7, <1>8, <2>1, HeardNext

\* The end of a block, which is the end of a call only if it is a call's.
LEMMA HearBlockEnds ==
  ASSUME ReplyInv, provider \in Providers, Flowing, Hearing, BlockEnds, UNCHANGED <<provider, reply>>
  PROVE  Hearing'
<1> DEFINE x == BlockIndex(flow.calls)  text == SubSeq(reply.text, 1, flow.text)
<1>1. flow.calls \in Nat /\ InBlocks /\ ~flow.over
  BY FlowFacts, SentFacts DEF BlockEnds, Flowing
<1>2. collector' = collector \/ collector' = Collect(collector, ToolUseStop(x))
  <2> DEFINE chunk == [kind |-> "stop", index |-> x]
  <2>1. collector' = CollectAll(collector, Events(chunk))
    BY DEF Receive, BlockEnds
  <2>2. Events(chunk) \in {<<>>, <<ToolUseStop(x)>>}
    <3> HIDE DEF x
    <3> QED BY <1>1, ChunkEvents
  <2> HIDE DEF chunk
  <2> QED BY <2>1, <2>2, CollectNone, CollectOne, CollectThree
<1>3. adapter' = [seen |-> adapter.seen, count |-> adapter.count, finish |-> adapter.finish]
  BY DEF Receive, Adapted, BlockEnds
<1>4. /\ flow'.text = flow.text /\ flow'.calls = flow.calls /\ flow'.over = flow.over
      /\ flow'.inputs = flow.inputs
  BY FlowFacts DEF BlockEnds
<1>5. Told' = Told
  BY <1>4, SameReply DEF Told
<1>6. ASSUME NEW i \in 1..flow.calls, BlockIndex(i) = x PROVE Told[i] = Sent[i].input
  <2>1. i = flow.calls
    <3>1. i \in Nat
      OBVIOUS
    <3> QED BY <1>1, <1>6, <3>1, AnnouncedFacts
  <2>2. InputSent(i) /\ i \in 1..Len(Sent)
    BY <1>1, <2>1, FlowFacts, SentFacts DEF BlockEnds
  <2> QED BY <2>2, ToldFacts
<1>7. Heard(collector, text, flow.calls, Told)
  BY DEF Hearing
<1> HIDE DEF x, text
<1>8. Heard(collector', text, flow.calls, Told)
  BY <1>1, <1>2, <1>6, <1>7, HeardStop
<1>9. adapter'.seen \subseteq Announced(flow'.calls)
  BY <1>3, <1>4 DEF Hearing
<1>10. Heard(collector', SubSeq(reply.text, 1, flow'.text), flow'.calls, Told')
  BY <1>4, <1>5, <1>8 DEF text
<1>11. provider # "gemini"
  BY <1>1 DEF InBlocks
<1> QED BY <1>1, <1>3, <1>4, <1>9, <1>10, <1>11, HeardNext

\* A whole call of Gemini, which may lack an id.
LEMMA HearPartArrives ==
  ASSUME ReplyInv, provider \in Providers, Flowing, Hearing, provider = "gemini",
         flow.calls < Len(Sent), NEW id \in {Sent[flow.calls + 1].id, NoId},
         Receive([kind |-> "function_call", id |-> id, name |-> Sent[flow.calls + 1].name,
                  args |-> Sent[flow.calls + 1].input]),
         flow' = [flow EXCEPT !.calls = @ + 1], UNCHANGED <<provider, reply>>
  PROVE  Hearing'
<1> DEFINE n == flow.calls  x == BlockIndex(n + 1)  c == Sent[n + 1]
           text == SubSeq(reply.text, 1, flow.text)
           key == IF id = NoId THEN <<"gemini-call", n>> ELSE id
           s1 == Collect(collector, ToolUseStart(x, key, c.name))
           s2 == Collect(s1, ToolInputDelta(x, c.input))
           s3 == Collect(s2, ToolUseStop(x))
<1>1. /\ n \in Nat /\ n + 1 \in 1..Len(Sent) /\ n + 1 \in 1..(n + 1)
      /\ 1..n \subseteq 1..(n + 1) /\ n + 1 \notin 1..n
  BY FlowFacts, SentFacts
<1>2. adapter.count = x
  <2>1. adapter.count = n
    BY DEF Hearing
  <2>2. x = n
    BY <1>1 DEF BlockIndex, InBlocks
  <2> QED BY <2>1, <2>2
<1>3. collector' = s3
  <2> DEFINE chunk == [kind |-> "function_call", id |-> id, name |-> c.name, args |-> c.input]
  <2>1. collector' = CollectAll(collector, Events(chunk))
    BY DEF Receive
  <2>2. Events(chunk) = <<ToolUseStart(x, key, c.name), ToolInputDelta(x, c.input), ToolUseStop(x)>>
    <3>1. adapter.count = n
      BY DEF Hearing
    <3> HIDE DEF c, n, x
    <3> QED BY <1>2, <3>1, ChunkEvents
  <2> HIDE DEF chunk, x, key, c
  <2> QED BY <2>1, <2>2, CollectNone, CollectOne, CollectThree
<1>4. adapter' = [seen |-> adapter.seen, count |-> adapter.count + 1, finish |-> adapter.finish]
  BY DEF Receive, Adapted
<1>5. /\ flow'.text = flow.text /\ flow'.calls = n + 1 /\ flow'.inputs = flow.inputs
      /\ flow'.over = flow.over
  BY FlowFacts
<1>6. Told' = Told
  BY <1>5, SameReply DEF Told
<1>7. ~flow.over
  BY <1>1, SentFacts DEF Flowing
<1>8. Heard(collector, text, n, Told)
  BY DEF Hearing
<1>9. key = c.id \/ (provider = "gemini" /\ key = <<"gemini-call", n>>)
  OBVIOUS
<1>10. Told[n + 1] = c.input /\ IsList(c.input)
  BY <1>1, ToldFacts, SentFacts
<1>12. <<>> \o c.input = c.input
  BY <1>10, ListFacts
<1>11. \A i \in 1..n : Told[i] = Sent[i].input
  BY <1>1, ToldFacts
<1> HIDE DEF text, key
<1>15. Heard(s3, text, n + 1, Told)
  <2> HIDE DEF n
  <2> QED BY <1>1, <1>8, <1>9, <1>10, <1>11, <1>12, HeardPart
<1>16. adapter'.seen \subseteq Announced(flow'.calls)
  <2>1. Announced(n) \subseteq Announced(n + 1)
    BY <1>1, AnnouncedFacts
  <2> QED BY <1>4, <1>5, <2>1 DEF Hearing
<1>17. Heard(collector', SubSeq(reply.text, 1, flow'.text), flow'.calls, Told')
  <2> HIDE DEF s3
  <2> QED BY <1>3, <1>5, <1>6, <1>15 DEF text
<1>18. adapter'.count = flow'.calls
  BY <1>4, <1>5 DEF Hearing
<1> HIDE DEF n, x, c, s1, s2, s3
<1> QED BY <1>4, <1>5, <1>7, <1>16, <1>17, <1>18, HeardNext

\* The stop reason.
LEMMA HearStopArrives ==
  ASSUME ReplyInv, provider \in Providers, Flowing, Hearing, StopArrives, UNCHANGED <<provider, reply>>
  PROVE  Hearing'
<1> DEFINE text == SubSeq(reply.text, 1, flow.text)
<1>1. flow.calls \in Nat /\ ~flow.over
  BY FlowFacts, SentFacts DEF StopArrives
<1>2. Reason # "stop_sequence" /\ (InBlocks => Reason = reply.stop)
  BY DEF Reason, ReplyInv, InBlocks
<1>3. collector' = IF InBlocks THEN Collect(collector, MessageStop(Reason)) ELSE collector
  <2> DEFINE chunk == [kind |-> "finish", reason |-> Reason]
  <2>1. collector' = CollectAll(collector, Events(chunk))
    BY DEF Receive, StopArrives
  <2>2. Events(chunk) = IF InBlocks THEN <<MessageStop(Reason)>> ELSE <<>>
    BY <1>2, ChunkEvents
  <2> HIDE DEF chunk
  <2> QED BY <2>1, <2>2, CollectNone, CollectOne, CollectThree
<1>4. adapter' = [seen |-> adapter.seen, count |-> adapter.count, finish |-> Reason]
  BY DEF Receive, Adapted, StopArrives
<1>5. /\ flow'.text = flow.text /\ flow'.calls = flow.calls /\ flow'.inputs = flow.inputs
      /\ flow'.over = TRUE
  BY FlowFacts DEF StopArrives
<1>6. Told' = Told
  BY <1>5, SameReply DEF Told
<1>7. Heard(collector, text, flow.calls, Told)
  BY DEF Hearing
<1> HIDE DEF text
<1>8. Heard(collector', text, flow.calls, Told) /\ (InBlocks => collector'.stop = reply.stop)
  BY <1>1, <1>2, <1>3, <1>7, HeardReason
<1>9. Heard(collector', SubSeq(reply.text, 1, flow'.text), flow'.calls, Told')
  BY <1>5, <1>6, <1>8 DEF text
<1>10. adapter'.seen \subseteq Announced(flow'.calls) /\ (provider = "gemini" => adapter'.count = flow'.calls)
  BY <1>4, <1>5 DEF Hearing
<1> QED BY <1>4, <1>8, <1>9, <1>10, HeardNext

\* The end of a call that the adapter supplies, as OpenAI does not.
LEMMA HearAdapterEnds ==
  ASSUME ReplyInv, provider \in Providers, Flowing, Hearing, AdapterEnds, UNCHANGED <<provider, reply>>
  PROVE  Hearing'
<1> DEFINE x == Nth(adapter.seen, 1)  text == SubSeq(reply.text, 1, flow.text)
<1>1. flow.calls \in Nat /\ flow.over /\ provider = "openai" /\ flow' = flow
  BY FlowFacts, SentFacts DEF AdapterEnds
<1>2. collector' = Collect(collector, ToolUseStop(x))
  BY DEF AdapterEnds
<1>3. adapter' = [seen |-> adapter.seen \ {x}, count |-> adapter.count, finish |-> adapter.finish]
  BY DEF AdapterEnds, Hearing
<1>4. Told' = Told
  BY <1>1, SameReply DEF Told
<1>5. ASSUME NEW i \in 1..flow.calls PROVE Told[i] = Sent[i].input
  <2>1. InputSent(i) /\ i \in 1..Len(Sent)
    BY <1>1 DEF Flowing
  <2> QED BY <2>1, ToldFacts
<1>6. Heard(collector, text, flow.calls, Told)
  BY DEF Hearing
<1> HIDE DEF text, x
<1>7. Heard(collector', text, flow.calls, Told)
  BY <1>1, <1>2, <1>5, <1>6, HeardStop
<1>8. Heard(collector', SubSeq(reply.text, 1, flow'.text), flow'.calls, Told')
  BY <1>1, <1>4, <1>7 DEF text
<1>9. adapter'.seen \subseteq Announced(flow'.calls) /\ adapter'.finish = Reason /\ ~InBlocks
  BY <1>1, <1>3 DEF Hearing, InBlocks
<1>10. provider # "gemini"
  BY <1>1
<1> QED BY <1>3, <1>8, <1>9, <1>10, HeardNext

\* Of a message that is one text or none, and tool_uses, each type is a part.
LEMMA ReplyTypes ==
  ASSUME NEW m, IsList(m.blocks), NEW t \in {0, 1}, t <= Len(m.blocks),
         t = 1 => m.blocks[1].type = "text",
         \A k \in (t + 1)..Len(m.blocks) : m.blocks[k].type = "tool_use"
  PROVE  /\ OfType(m, "tool_use") = [k \in 1..(Len(m.blocks) - t) |-> m.blocks[t + k]]
         /\ OfType(m, "text") = [k \in 1..t |-> m.blocks[k]]
         /\ OfType(m, "tool_result") = <<>>
<1> DEFINE s == m.blocks  N == Len(s)
           I(type) == {i \in DOMAIN s : s[i].type = type}
<1>1. N \in Nat /\ DOMAIN s = 1..N
  BY ListFacts
<1>2. \A type : OfType(m, type) = Pick(s, I(type))
  BY DEF OfType, Only
<1>3. I("tool_use") = (t + 1)..N /\ I("text") = 1..t /\ I("tool_result") = {}
  <2>1. \A k \in 1..N : \/ t = 1 /\ k = 1 /\ s[k].type = "text"
                        \/ k \in (t + 1)..N /\ s[k].type = "tool_use"
    BY <1>1
  <2> HIDE DEF s, N
  <2> QED BY <1>1, <2>1 DEF s, N
<1> HIDE DEF s, N, I
<1>4. Pick(s, (t + 1)..N) = [k \in 1..(N - t) |-> s[t + k]]
  <2> DEFINE a == t + 1
  <2>1. a \in Int /\ N \in Int /\ a <= N + 1
    BY <1>1 DEF N, s
  <2>2. Pick(s, a..N) = [k \in 1..(N - a + 1) |-> s[a + k - 1]]
    <3> HIDE DEF a
    <3> QED BY <2>1, PickInterval, SMTT(60)
  <2>3. N - a + 1 = N - t /\ \A k \in 1..(N - t) : a + k - 1 = t + k
    BY <1>1
  <2> QED BY <2>2, <2>3
<1>5. Pick(s, 1..t) = [k \in 1..t |-> s[k]]
  <2> DEFINE a == 1
  <2>0. a \in Int /\ t \in Int /\ a <= t + 1
    OBVIOUS
  <2>1. Pick(s, 1..t) = [k \in 1..(t - 1 + 1) |-> s[1 + k - 1]]
    <3> HIDE DEF a
    <3>1. Pick(s, a..t) = [k \in 1..(t - a + 1) |-> s[a + k - 1]]
      BY <2>0, PickInterval
    <3> QED BY <3>1 DEF a
  <2>2. t - 1 + 1 = t /\ \A k \in 1..t : 1 + k - 1 = k
    OBVIOUS
  <2> QED BY <2>1, <2>2
<1>6. OfType(m, "tool_use") = [k \in 1..(N - t) |-> s[t + k]]
  BY <1>2, <1>3, <1>4
<1>7. OfType(m, "text") = [k \in 1..t |-> s[k]]
  BY <1>2, <1>3, <1>5
<1>8. OfType(m, "tool_result") = <<>>
  BY <1>2, <1>3, PickEmpty
<1> QED BY <1>6, <1>7, <1>8 DEF s, N

-----------------------------------------------------------------------------
\* The message of what was heard.
LEMMA OrderedFacts ==
  ASSUME ReplyInv, NEW s, NEW text, NEW told, Heard(s, text, Len(Sent), told),
         \A i \in 1..Len(Sent) : told[i] = Sent[i].input
  PROVE  OrderedToolUses(s) =
           [k \in 1..Len(Sent) |->
             [id |-> s.uses[BlockIndex(k)].id, name |-> Sent[k].name, input |-> Sent[k].input]]
<1> DEFINE N == Len(Sent)  b == BlockIndex(0)
           Use(i) == [s.uses[i] EXCEPT !.input = IF @ = <<>> THEN Partial(s, i) ELSE @]
<1>1. N \in Nat /\ b \in Int /\ \A i \in Int : BlockIndex(i) = b + i
  BY SentFacts, IndexFacts
<1>2. DOMAIN s.uses = (b + 1)..(b + N)
  BY <1>1 DEF Heard, Announced
<1>3. Cardinality(DOMAIN s.uses) = N
  <2> DEFINE lo == b + 1  hi == b + N
  <2>1. lo \in Int /\ hi \in Int /\ hi - lo + 1 = N /\ (N = 0 => lo > hi) /\ (N # 0 => ~(lo > hi))
    <3> HIDE DEF b, N
    <3> QED BY <1>1
  <2>2. Cardinality(lo..hi) = IF lo > hi THEN 0 ELSE hi - lo + 1
    <3> HIDE DEF lo, hi
    <3> QED BY <2>1, FS_Interval
  <2> HIDE DEF b, N
  <2> QED BY <1>2, <2>1, <2>2
<1>4. ASSUME NEW k \in 1..N PROVE Nth(DOMAIN s.uses, k) = BlockIndex(k)
  <2> DEFINE lo == b + 1  hi == b + N
  <2>1. lo \in Int /\ hi \in Int /\ hi - lo + 1 = N /\ lo + k - 1 = b + k /\ k \in Int
    <3> HIDE DEF b, N
    <3> QED BY <1>1
  <2>2. Nth(lo..hi, k) = lo + k - 1
    <3> HIDE DEF lo, hi, N, b
    <3> QED BY <2>1, NthOfInterval
  <2> HIDE DEF b, N
  <2> QED BY <1>1, <1>2, <2>1, <2>2
<1>5. ASSUME NEW k \in 1..N
      PROVE  Use(BlockIndex(k)) =
               [id |-> s.uses[BlockIndex(k)].id, name |-> Sent[k].name, input |-> Sent[k].input]
  <2> DEFINE u == s.uses[BlockIndex(k)]
  <2>1. IsUse(u, k) /\ s.partial[BlockIndex(k)] = Sent[k].input
    BY DEF Heard
  <2>2. Partial(s, BlockIndex(k)) = Sent[k].input
    <3>1. BlockIndex(k) \in DOMAIN s.partial
      BY <1>1, AnnouncedFacts DEF Heard
    <3> QED BY <2>1, <3>1 DEF Partial
  <2> HIDE DEF u
  <2>3. [u EXCEPT !.input = IF @ = <<>> THEN Sent[k].input ELSE @] =
          [id |-> u.id, name |-> Sent[k].name, input |-> Sent[k].input]
    BY <2>1 DEF IsUse
  <2> QED BY <2>2, <2>3 DEF u
<1>6. OrderedToolUses(s) = [k \in 1..N |-> Use(Nth(DOMAIN s.uses, k))]
  BY <1>3 DEF OrderedToolUses
<1> HIDE DEF N, Use
<1>7. OrderedToolUses(s) = [k \in 1..N |-> Use(BlockIndex(k))]
  BY <1>4, <1>6
<1> QED BY <1>5, <1>7 DEF N

\* The text block, when there is a text, and the tool_use blocks.
TextPart(text) == IF text = <<>> THEN 0 ELSE 1

\* The message of a collector that has heard the whole reply: its text, if it
\* has one, and its calls in their order.
LEMMA SpokenFacts ==
  ASSUME ReplyInv, NEW s, Heard(s, reply.text, Len(Sent), Told),
         \A i \in 1..Len(Sent) : Told[i] = Sent[i].input
  PROVE  LET m == Spoken(s)
             t == TextPart(reply.text)
         IN /\ m.role = "assistant" /\ IsList(m.blocks) /\ Len(m.blocks) = t + Len(Sent)
            /\ t = 1 => m.blocks[1] = TextBlock(reply.text)
            /\ \A k \in 1..Len(Sent) : m.blocks[t + k] =
                 ToolUse(s.uses[BlockIndex(k)].id, Sent[k].name, Sent[k].input)
<1> DEFINE N == Len(Sent)  t == TextPart(reply.text)
           T == IF reply.text = <<>> THEN <<>> ELSE <<TextBlock(reply.text)>>
           use(k) == ToolUse(s.uses[BlockIndex(k)].id, Sent[k].name, Sent[k].input)
           U == [k \in 1..N |-> use(k)]
           blocks == T \o U
           D == {TextBlock(reply.text)} \cup {use(k) : k \in 1..N}
<1>1. N \in Nat
  BY SentFacts
<1>2. MapSeq(OrderedToolUses(s), LAMBDA u : ToolUse(u.id, u.name, u.input)) = U
  BY OrderedFacts DEF MapSeq
<1>3. Spoken(s) = HistoryMessage("assistant", blocks)
  <2>1. s.text = reply.text
    BY DEF Heard
  <2> HIDE DEF U
  <2> QED BY <1>2, <2>1 DEF Spoken
<1> HIDE DEF use, N
<1>4. T \in Seq(D) /\ Len(T) = t /\ t \in {0, 1} /\ (t = 1 => T[1] = TextBlock(reply.text))
  <2> DEFINE x == TextBlock(reply.text)
  <2>1. x \in D
    OBVIOUS
  <2>2. t \in {0, 1} /\ T = IF t = 0 THEN <<>> ELSE <<x>>
    BY DEF TextPart
  <2> HIDE DEF x, D, T, t
  <2>3. T \in Seq(D) /\ Len(T) = t /\ (t = 1 => T[1] = x)
    BY <2>1, <2>2
  <2> QED BY <2>2, <2>3 DEF x
<1>5. U \in Seq(D) /\ Len(U) = N /\ \A k \in 1..N : U[k] = use(k)
  BY <1>1
<1> HIDE DEF T, U, D, t
<1>6. /\ blocks \in Seq(D) /\ Len(blocks) = t + N
      /\ \A k \in 1..t : blocks[k] = T[k]
      /\ \A k \in 1..N : blocks[t + k] = U[k]
  <2>1. T \in Seq(D) /\ Len(T) = t
    BY <1>4
  <2>2. U \in Seq(D) /\ Len(U) = N
    BY <1>5
  <2> QED BY <2>1, <2>2
<1> HIDE DEF blocks
<1>7. IsList(blocks)
  BY <1>6 DEF IsList
<1>8. t = 1 => blocks[1] = TextBlock(reply.text)
  BY <1>4, <1>6
<1> QED BY <1>3, <1>5, <1>6, <1>7, <1>8 DEF HistoryMessage, N, t, use

\* Before the first chunk nothing is heard.
LEMMA NewStream ==
  ReplyInv /\ flow = NewFlow(reply) /\ adapter = NewAdapter /\ collector = NewCollector
  => Flowing /\ Hearing
<1> SUFFICES ASSUME ReplyInv, flow = NewFlow(reply), adapter = NewAdapter, collector = NewCollector
             PROVE  Flowing /\ Hearing
  OBVIOUS
<1>1. /\ flow.text = 0 /\ flow.calls = 0 /\ flow.inputs = [i \in DOMAIN reply.calls |-> 0]
      /\ flow.open = FALSE /\ flow.over = FALSE
      /\ flow = [text |-> 0, calls |-> 0, inputs |-> flow.inputs, open |-> FALSE, over |-> FALSE]
  BY DEF NewFlow
<1>2. Len(reply.text) \in Nat
  BY ListFacts DEF ReplyInv
<1>3. Flowing
  <2>1. \A i \in 1..Len(Sent) : flow.inputs[i] = 0 /\ 0 \in 0..Len(Sent[i].input)
    BY <1>1, SentFacts, ListFacts
  <2>2. flow \in [text : 0..Len(reply.text), calls : 0..Len(Sent),
                  inputs : [DOMAIN reply.calls -> Nat], open : BOOLEAN, over : BOOLEAN]
    <3>1. flow.inputs \in [DOMAIN reply.calls -> Nat]
      BY <1>1
    <3>2. 0 \in 0..Len(reply.text) /\ 0 \in 0..Len(Sent)
      BY <1>2, SentFacts
    <3> DEFINE inputs == flow.inputs
    <3> HIDE DEF inputs
    <3>3. flow = [text |-> 0, calls |-> 0, inputs |-> inputs, open |-> FALSE, over |-> FALSE]
      BY <1>1 DEF inputs
    <3> DEFINE A == 0..Len(reply.text)  B == 0..Len(Sent)  C == [DOMAIN reply.calls -> Nat]
    <3>4. 0 \in A /\ 0 \in B /\ inputs \in C /\ FALSE \in BOOLEAN
      BY <3>1, <3>2 DEF inputs
    <3> HIDE DEF A, B, C
    <3>5. flow \in [text : A, calls : B, inputs : C, open : BOOLEAN, over : BOOLEAN]
      BY <3>3, <3>4
    <3> QED BY <3>5 DEF A, B, C
  <2> QED BY <1>1, <2>1, <2>2 DEF Flowing
<1>4. Announced(0) = {}
  <2>1. BlockIndex(0) \in Int /\ BlockIndex(1) = BlockIndex(0) + 1
    BY IndexFacts
  <2> QED BY <2>1 DEF Announced
<1>5. Heard(collector, SubSeq(reply.text, 1, 0), 0, Told)
  <2>1. SubSeq(reply.text, 1, 0) = <<>>
    BY ListFacts DEF ReplyInv
  <2> QED BY <1>4, <2>1 DEF Heard, NewCollector, Nothing, IsCollector
<1> QED BY <1>1, <1>3, <1>4, <1>5 DEF Hearing, NewAdapter

\* A new reply is like any reply.
LEMMA NewReply ==
  ASSUME reply' \in Replies \/ Citing
  PROVE  ReplyInv'
<1> DEFINE q == reply'
           Good(r) ==
             /\ IsList(r.text)
             /\ \A i \in DOMAIN r.text : Is("cite", r.text[i]) => r.text[i].cite.path \in Paths
             /\ IsList(r.calls)
             /\ \E n : \A i \in DOMAIN r.calls : r.calls[i].id = <<"tu", n, i>>
             /\ \A i \in DOMAIN r.calls : IsList(r.calls[i].input)
             /\ r.stop \in {"tool_use", "end_turn", "max_tokens", "content_filter"}
<1>1. IsList(<<>>)
  BY DEF IsList
<1>2. ASSUME NEW r \in ToolReplies PROVE Good(Calling(r))
  <2> DEFINE c == Calling(r)
  <2>1. /\ IsText(r.text) /\ IsList(r.calls) /\ \A i \in DOMAIN r.calls : IsList(r.calls[i].input)
        /\ r.stop \in {"tool_use", "end_turn", "max_tokens", "content_filter"}
    BY RepliesAssumption
  <2>2. Len(r.calls) \in Nat /\ DOMAIN r.calls = 1..Len(r.calls)
    BY <2>1, ListFacts
  <2>3. /\ c.text = r.text /\ c.stop = r.stop /\ DOMAIN c.calls = 1..Len(r.calls)
        /\ \A i \in 1..Len(r.calls) :
             c.calls[i].id = <<"tu", rounds, i>> /\ c.calls[i].input = r.calls[i].input
        /\ c.calls = [i \in 1..Len(r.calls) |-> c.calls[i]]
    BY <2>2 DEF Calling
  <2> HIDE DEF c
  <2>4. IsList(c.calls)
    BY <2>2, <2>3 DEF IsList
  <2>5. \E n : \A i \in DOMAIN c.calls : c.calls[i].id = <<"tu", n, i>>
    BY <2>3
  <2> QED BY <2>1, <2>2, <2>3, <2>4, <2>5 DEF IsText, c
<1>3. ASSUME NEW text, IsList(text), \A i \in DOMAIN text : Is("cite", text[i]) => text[i].cite.path \in Paths
      PROVE  Good(Answer(text))
  BY <1>1, <1>3 DEF Answer
<1>4. ASSUME NEW id, NEW path \in Paths, NEW shown
      PROVE  Good(Answer(<<[cite |-> [tu |-> id, path |-> path]], [displays |-> shown]>>))
  <2> DEFINE half == [cite |-> [tu |-> id, path |-> path]]
             text == <<half, [displays |-> shown]>>
  <2>1. IsList(text)
    BY DEF IsList
  <2>2. \A i \in DOMAIN text : Is("cite", text[i]) => text[i].cite.path \in Paths
    BY DEF Is
  <2> HIDE DEF text, Good
  <2> QED BY <1>3, <2>1, <2>2 DEF text
<1> HIDE DEF Good
<1>5. ASSUME NEW text \in AnswerTexts PROVE Good(Answer(text))
  BY <1>3, RepliesAssumption DEF IsText
<1>6. ASSUME q \in Replies PROVE Good(q)
  BY <1>2, <1>5, <1>6 DEF Replies
<1>7. ASSUME Citing PROVE Good(q)
  <2>1. PICK id \in ResultIds \cup {<<"unknown">>}, path \in Paths, shown \in Shown :
          q = Answer(<<[cite |-> [tu |-> id, path |-> path]], [displays |-> shown]>>)
    BY <1>7, Zenon DEF Citing
  <2> QED BY <1>4, <2>1
<1>8. Good(q)
  BY <1>6, <1>7
<1> QED BY <1>8 DEF Good, ReplyInv

-----------------------------------------------------------------------------
\* The invariant behind RepliesArriveWhole.
WholeInv ==
  /\ provider \in Providers
  /\ stage \in {"ask", "stream", "tools", "judge", "done", "raised"}
  /\ IsList(history)
  /\ ReplyInv
  /\ stage = "stream" => Flowing /\ Hearing
  /\ RepliesArriveWhole

\* What a stream that has ended leaves behind.
EndedWith(s) ==
  /\ Heard(s, reply.text, Len(Sent), Told)
  /\ \A i \in 1..Len(Sent) : Told[i] = Sent[i].input
  /\ provider # "gemini" => s.stop = reply.stop
  /\ provider = "gemini" /\ Len(Sent) > 0 => s.stop = "tool_use"

\* When the provider has sent everything, the adapter's trailing events
\* complete the reply in the collector.
LEMMA EndOfStream ==
  ASSUME provider \in Providers, ReplyInv, Flowing, Hearing, Drained
  PROVE  EndedWith(CollectAll(collector, Trailer(adapter)))
<1> DEFINE c == CollectAll(collector, Trailer(adapter))
<1>1. /\ flow.over /\ flow.calls = Len(Sent) /\ flow.text = Len(reply.text)
      /\ provider # "gemini" => \A i \in 1..Len(Sent) : InputSent(i)
  BY DEF Flowing, Drained, TextSent
<1>2. Len(Sent) \in Nat
  BY SentFacts
<1>3. \A i \in 1..Len(Sent) : Told[i] = Sent[i].input
  BY <1>1, ToldFacts
<1>4. SubSeq(reply.text, 1, flow.text) = reply.text
  BY <1>1, ListFacts DEF ReplyInv
<1>5. Heard(collector, reply.text, Len(Sent), Told)
  BY <1>1, <1>4 DEF Hearing
<1>6. CASE InBlocks
  <2>1. Trailer(adapter) = <<>> /\ provider # "gemini"
    BY <1>6 DEF Trailer, InBlocks
  <2>2. c = collector /\ collector.stop = reply.stop
    BY <1>1, <1>6, <2>1, CollectNone DEF Hearing
  <2> QED BY <1>3, <1>5, <2>1, <2>2 DEF EndedWith
<1>7. CASE provider = "openai"
  <2> DEFINE e == OpenAIStop(adapter.finish)
  <2>1. Trailer(adapter) = <<MessageStop(e)>>
    BY <1>7 DEF Trailer
  <2>2. e = reply.stop
    BY <1>1, <1>7 DEF Hearing, Reason, OpenAIStop, ReplyInv
  <2> HIDE DEF e
  <2>3. c = Collect(collector, MessageStop(e))
    BY <2>1, CollectOne
  <2>4. Heard(c, reply.text, Len(Sent), Told) /\ c.stop = e
    BY <1>2, <1>5, <2>3, HeardReason
  <2> HIDE DEF c
  <2> QED BY <1>3, <1>7, <2>2, <2>4 DEF EndedWith, c
<1>8. CASE provider = "gemini"
  <2> DEFINE e == GeminiStop(adapter)
  <2>1. Trailer(adapter) = <<MessageStop(e)>>
    BY <1>8 DEF Trailer
  <2>2. Len(Sent) > 0 => e = "tool_use"
    BY <1>1, <1>8 DEF Hearing, GeminiStop
  <2> HIDE DEF e
  <2>3. c = Collect(collector, MessageStop(e))
    BY <2>1, CollectOne
  <2>4. Heard(c, reply.text, Len(Sent), Told) /\ c.stop = e
    BY <1>2, <1>5, <2>3, HeardReason
  <2> HIDE DEF c
  <2> QED BY <1>3, <1>8, <2>2, <2>4 DEF EndedWith, c
<1> QED BY <1>6, <1>7, <1>8 DEF Providers, InBlocks

\* The ids of the calls are the provider's, or numbers, and no two are one.
LEMMA UseIds ==
  ASSUME ReplyInv, NEW s, NEW text, NEW told, Heard(s, text, Len(Sent), told)
  PROVE  \A i \in 1..Len(Sent) :
           /\ s.uses[BlockIndex(i)].id = Sent[i].id \/ provider = "gemini"
           /\ \A k \in 1..Len(Sent) : s.uses[BlockIndex(k)].id = s.uses[BlockIndex(i)].id => k = i
<1> DEFINE id(i) == s.uses[BlockIndex(i)].id
<1>1. \A i \in 1..Len(Sent) : id(i) = Sent[i].id \/ (provider = "gemini" /\ id(i) = <<"gemini-call", i - 1>>)
  BY DEF Heard, IsUse
<1>2. \A i \in 1..Len(Sent) : /\ i \in Int
                              /\ \A n : Sent[i].id # <<"gemini-call", n>>
                              /\ \A k \in 1..Len(Sent) : Sent[k].id = Sent[i].id => k = i
  BY SentFacts
<1> HIDE DEF id
<1>3. ASSUME NEW i \in 1..Len(Sent), NEW k \in 1..Len(Sent), id(k) = id(i) PROVE k = i
  <2>1. CASE id(i) = Sent[i].id /\ id(k) = Sent[k].id
    BY <1>2, <1>3, <2>1
  <2>2. CASE id(i) = <<"gemini-call", i - 1>> /\ id(k) = <<"gemini-call", k - 1>>
    <3>1. i - 1 = k - 1
      BY <1>3, <2>2
    <3> QED BY <1>2, <3>1
  <2>3. CASE id(i) = Sent[i].id /\ id(k) = <<"gemini-call", k - 1>>
    BY <1>2, <1>3, <2>3
  <2>4. CASE id(i) = <<"gemini-call", i - 1>> /\ id(k) = Sent[k].id
    BY <1>2, <1>3, <2>4
  <2> QED BY <1>1, <2>1, <2>2, <2>3, <2>4
<1> QED BY <1>1, <1>3 DEF id

\* Every chunk keeps both.
LEMMA ChunkKeepsStream ==
  ASSUME provider \in Providers, ReplyInv, Flowing, Hearing, Chunk
  PROVE  Flowing' /\ Hearing'
<1>1. UNCHANGED <<provider, reply>>
  BY DEF Chunk, chosen
<1>2. CASE TextBegins
  BY <1>1, <1>2, FlowTextBegins, HearTextBegins
<1>3. CASE TextArrives
  BY <1>1, <1>3, FlowTextArrives, HearTextArrives
<1>4. CASE CallBegins
  BY <1>1, <1>4, FlowCallBegins, HearCallBegins
<1>5. CASE InputArrives
  <2>1. PICK i \in 1..flow.calls :
          /\ ~InputSent(i)
          /\ InBlocks => i = flow.calls
          /\ Receive([kind |-> "input", index |-> BlockIndex(i), json |-> Sent[i].input[flow.inputs[i] + 1]])
          /\ flow' = [flow EXCEPT !.inputs[i] = @ + 1]
    BY <1>5 DEF InputArrives
  <2>2. provider # "gemini"
    BY <1>5 DEF InputArrives
  <2>3. Flowing'
    BY <1>1, <2>1, <2>2, FlowInputArrives
  <2>4. Hearing'
    BY <1>1, <2>1, <2>2, HearInputArrives
  <2> QED BY <2>3, <2>4
<1>6. CASE BlockEnds
  BY <1>1, <1>6, FlowBlockEnds, HearBlockEnds
<1>7. CASE PartArrives
  <2>1. Flowing'
    BY <1>1, <1>7, FlowPartArrives
  <2>2. Hearing'
    <3>1. /\ provider = "gemini" /\ flow.calls < Len(Sent)
          /\ flow' = [flow EXCEPT !.calls = @ + 1]
      BY <1>7 DEF PartArrives
    <3>2. PICK id \in {Sent[flow.calls + 1].id, NoId} :
            Receive([kind |-> "function_call", id |-> id, name |-> Sent[flow.calls + 1].name,
                     args |-> Sent[flow.calls + 1].input])
      BY <1>7 DEF PartArrives
    <3> QED BY <1>1, <3>1, <3>2, HearPartArrives
  <2> QED BY <2>1, <2>2
<1>8. CASE StopArrives
  BY <1>1, <1>8, FlowStopArrives, HearStopArrives
<1>9. CASE AdapterEnds
  <2>1. flow' = flow
    BY <1>9 DEF AdapterEnds
  <2>2. Flowing'
    BY <1>1, <2>1, SameReply DEF Flowing, TextSent, InputSent
  <2> QED BY <1>1, <1>9, <2>2, HearAdapterEnds
<1> QED BY <1>2, <1>3, <1>4, <1>5, <1>6, <1>7, <1>8, <1>9 DEF Chunk

\* What StreamEnds appends is the reply.
LEMMA StreamEndsWhole ==
  ASSUME provider \in Providers, ReplyInv, Flowing, Hearing, IsList(history), StreamEnds
  PROVE  RepliesArriveWhole'
<1> DEFINE s == collector'  m == Spoken(s)  N == Len(Sent)  t == TextPart(reply.text)
<1>1. UNCHANGED <<provider, reply>>
  BY DEF StreamEnds, chosen
<1>2. EndedWith(s)
  BY EndOfStream DEF StreamEnds
<1>3. N \in Nat /\ t \in {0, 1} /\ (reply.text = <<>> <=> t = 0)
  BY SentFacts DEF TextPart
<1>4. history'[Len(history')] = m
  <2>1. history' = Append(history, m)
    BY DEF StreamEnds
  <2> HIDE DEF m
  <2> QED BY <2>1, ListAppend
<1> HIDE DEF s
<1>5. /\ m.role = "assistant" /\ IsList(m.blocks) /\ Len(m.blocks) = t + N
      /\ t = 1 => m.blocks[1] = TextBlock(reply.text)
      /\ \A k \in 1..N : m.blocks[t + k] =
           ToolUse(s.uses[BlockIndex(k)].id, Sent[k].name, Sent[k].input)
  BY <1>2, SpokenFacts DEF EndedWith
<1> DEFINE uses == OfType(m, "tool_use")  texts == OfType(m, "text")
<1> HIDE DEF m, t, N
<1>6. /\ uses = [k \in 1..N |-> m.blocks[t + k]]
      /\ texts = [k \in 1..t |-> m.blocks[k]]
  <2>1. t = 1 => m.blocks[1].type = "text"
    BY <1>5 DEF TextBlock
  <2>2. ASSUME NEW k \in (t + 1)..Len(m.blocks) PROVE m.blocks[k].type = "tool_use"
    <3>1. k - t \in 1..N /\ t + (k - t) = k
      BY <1>3, <1>5
    <3>2. m.blocks[k] = ToolUse(s.uses[BlockIndex(k - t)].id, Sent[k - t].name, Sent[k - t].input)
      BY <1>5, <3>1
    <3> QED BY <3>2 DEF ToolUse
  <2>3. /\ t \in {0, 1} /\ t <= Len(m.blocks) /\ Len(m.blocks) - t = N
        /\ IsList(m.blocks)
    BY <1>3, <1>5
  <2>4. /\ uses = [k \in 1..(Len(m.blocks) - t) |-> m.blocks[t + k]]
        /\ texts = [k \in 1..t |-> m.blocks[k]]
    BY <2>1, <2>2, <2>3, ReplyTypes
  <2> QED BY <2>3, <2>4
<1>7. reply.text = IF texts = <<>> THEN <<>> ELSE texts[1].text
  <2>1. CASE t = 0
    <3>1. texts = <<>>
      BY <1>6, <2>1
    <3> QED BY <1>3, <2>1, <3>1
  <2>2. CASE t = 1
    <3>1. texts # <<>> /\ texts[1] = m.blocks[1]
      <4>1. texts = [k \in 1..1 |-> m.blocks[k]]
        BY <1>6, <2>2
      <4>2. 1 \in DOMAIN texts /\ texts[1] = m.blocks[1]
        BY <4>1
      <4> QED BY <4>2
    <3> QED BY <1>5, <2>2, <3>1 DEF TextBlock
  <2> QED BY <1>3, <2>1, <2>2
<1>8. /\ Len(uses) = N /\ DOMAIN uses = 1..N /\ (uses = <<>> <=> N = 0)
      /\ \A k \in 1..N : /\ uses[k].id = s.uses[BlockIndex(k)].id
                         /\ uses[k].name = Sent[k].name /\ uses[k].input = Sent[k].input
  <2>1. uses = [k \in 1..N |-> ToolUse(s.uses[BlockIndex(k)].id, Sent[k].name, Sent[k].input)]
    BY <1>5, <1>6
  <2> HIDE DEF uses
  <2>2. Len(uses) = N /\ DOMAIN uses = 1..N
    BY <1>3, <2>1
  <2>3. uses = <<>> <=> N = 0
    BY <1>3, <2>1, <2>2
  <2>4. ASSUME NEW k \in 1..N
        PROVE  /\ uses[k].id = s.uses[BlockIndex(k)].id
               /\ uses[k].name = Sent[k].name /\ uses[k].input = Sent[k].input
    BY <2>1 DEF ToolUse
  <2> QED BY <2>2, <2>3, <2>4
<1> HIDE DEF uses, texts
<1>9. \A i \in 1..N :
        /\ uses[i].id = Sent[i].id \/ provider = "gemini"
        /\ \A k \in 1..N : uses[k].id = uses[i].id => k = i
  BY <1>2, <1>8, UseIds DEF EndedWith, N
<1>10. (stage' = "tools") <=> (uses # <<>> /\ (provider = "gemini" \/ reply.stop = "tool_use"))
  <2>1. OrderedToolUses(s) = <<>> <=> N = 0
    <3>1. OrderedToolUses(s) = [k \in 1..N |->
             [id |-> s.uses[BlockIndex(k)].id, name |-> Sent[k].name, input |-> Sent[k].input]]
      BY <1>2, OrderedFacts DEF EndedWith, N
    <3>2. N = 0 => OrderedToolUses(s) = <<>>
      BY <3>1
    <3>3. DOMAIN OrderedToolUses(s) = 1..N
      BY <3>1
    <3>4. N # 0 => 1 \in DOMAIN OrderedToolUses(s)
      BY <1>3, <3>3
    <3> QED BY <3>2, <3>4
  <2>2. stage' = IF s.stop = "tool_use" /\ OrderedToolUses(s) # <<>> THEN "tools" ELSE "judge"
    BY DEF StreamEnds, s
  <2>3. N # 0 => (s.stop = "tool_use" <=> provider = "gemini" \/ reply.stop = "tool_use")
    BY <1>2, <1>3 DEF EndedWith, N
  <2> QED BY <1>8, <2>1, <2>2, <2>3
<1>11. RepliesArriveWhole' =
         (stage' \in {"tools", "judge"} =>
           LET message == history'[Len(history')]
               us == OfType(message, "tool_use")
               ts == OfType(message, "text")
           IN /\ reply.text = IF ts = <<>> THEN <<>> ELSE ts[1].text
              /\ Len(us) = Len(Sent)
              /\ \A i \in DOMAIN us :
                   /\ us[i].name = Sent[i].name /\ us[i].input = Sent[i].input
                   /\ us[i].id = Sent[i].id \/ provider = "gemini"
                   /\ \A k \in DOMAIN us : us[k].id = us[i].id => k = i
              /\ stage' = "tools" <=> us # <<>> /\ (provider = "gemini" \/ reply.stop = "tool_use"))
  BY <1>1, SameReply DEF RepliesArriveWhole
<1> QED BY <1>4, <1>7, <1>8, <1>9, <1>10, <1>11 DEF uses, texts, N

\* Lists of lists are sequences over one set, as ConcatFacts wants them.
LEMMA ListOfLists ==
  ASSUME NEW ss, IsList(ss), \A i \in DOMAIN ss : IsList(ss[i])
  PROVE  \E D : ss \in Seq(Seq(D))
<1> DEFINE D == UNION {{ss[i][k] : k \in DOMAIN ss[i]} : i \in DOMAIN ss}
<1>1. ASSUME NEW i \in DOMAIN ss PROVE ss[i] \in Seq(D)
  <2> DEFINE E == {ss[i][k] : k \in DOMAIN ss[i]}
  <2>1. ss[i] \in Seq(E)
    BY DEF IsList
  <2>2. E \subseteq D
    OBVIOUS
  <2> HIDE DEF D, E
  <2>3. Len(ss[i]) \in Nat /\ DOMAIN ss[i] = 1..Len(ss[i]) /\ ss[i] \in [1..Len(ss[i]) -> E]
    BY <2>1
  <2>4. ss[i] \in [1..Len(ss[i]) -> D]
    BY <2>2, <2>3
  <2> QED BY <2>3, <2>4
<1> HIDE DEF D
<1>2. ss \in Seq({ss[i] : i \in DOMAIN ss})
  BY DEF IsList
<1>3. Len(ss) \in Nat /\ DOMAIN ss = 1..Len(ss) /\ ss = [i \in 1..Len(ss) |-> ss[i]]
  BY <1>2
<1>4. ss \in [1..Len(ss) -> Seq(D)]
  BY <1>1, <1>3
<1>5. ss \in Seq(Seq(D))
  BY <1>3, <1>4
<1> QED BY <1>5

\* A function on 1..n is a list.
LEMMA ListOfFunction ==
  ASSUME NEW n \in Nat, NEW s, DOMAIN s = 1..n, s = [i \in 1..n |-> s[i]]
  PROVE  IsList(s) /\ Len(s) = n
<1>1. s \in [1..n -> {s[i] : i \in DOMAIN s}]
  OBVIOUS
<1> DEFINE D == {s[i] : i \in DOMAIN s}
<1>2. s \in Seq(D) /\ Len(s) = n
  <2> HIDE DEF D
  <2> QED BY <1>1 DEF D
<1> QED BY <1>2 DEF IsList

-----------------------------------------------------------------------------
\* The calls and the results of a request's messages.
LEMMA CallParts ==
  ASSUME NEW m, IsList(m.parts), NEW t \in {0, 1}, t <= Len(m.parts),
         t = 1 => m.parts[1].kind = "text",
         \A k \in (t + 1)..Len(m.parts) : m.parts[k].kind = "call"
  PROVE  /\ Calls(m) = [k \in 1..(Len(m.parts) - t) |-> m.parts[t + k]]
         /\ Results(m) = <<>>
<1> DEFINE s == m.parts  N == Len(s)
           I == {i \in DOMAIN s : s[i].kind = "call"}
           J == {i \in DOMAIN s : s[i].kind \in {"result", "failed result"}}
<1>1. N \in Nat /\ DOMAIN s = 1..N
  BY ListFacts
<1>2. Calls(m) = Pick(s, I) /\ Results(m) = Pick(s, J)
  BY DEF Calls, Results, Only
<1>3. I = (t + 1)..N /\ J = {}
  <2>1. \A k \in 1..N : \/ t = 1 /\ k = 1 /\ s[k].kind = "text"
                        \/ k \in (t + 1)..N /\ s[k].kind = "call"
    BY <1>1
  <2>2. (t + 1)..N \subseteq 1..N
    BY <1>1
  <2> HIDE DEF s, N
  <2>3. I = (t + 1)..N
    <3>1. ASSUME NEW i \in I PROVE i \in (t + 1)..N
      BY <1>1, <2>1
    <3>2. ASSUME NEW i \in (t + 1)..N PROVE i \in I
      BY <1>1, <2>1, <2>2
    <3> QED BY <3>1, <3>2
  <2>4. J = {}
    BY <1>1, <2>1
  <2> QED BY <2>3, <2>4
<1> HIDE DEF s, N, I, J
<1>4. Pick(s, (t + 1)..N) = [k \in 1..(N - t) |-> s[t + k]]
  <2> DEFINE a == t + 1
  <2>1. a \in Int /\ N \in Int /\ a <= N + 1
    BY <1>1 DEF N, s
  <2>2. Pick(s, a..N) = [k \in 1..(N - a + 1) |-> s[a + k - 1]]
    <3> HIDE DEF a
    <3> QED BY <2>1, PickInterval
  <2>3. N - a + 1 = N - t /\ \A k \in 1..(N - t) : a + k - 1 = t + k
    BY <1>1
  <2> QED BY <2>2, <2>3
<1>5. Calls(m) = [k \in 1..(N - t) |-> s[t + k]]
  BY <1>2, <1>3, <1>4
<1>6. Results(m) = <<>>
  BY <1>2, <1>3, PickEmpty
<1> QED BY <1>5, <1>6 DEF s, N

\* All that there is, picked.
LEMMA PickAll ==
  ASSUME NEW s, IsList(s)
  PROVE  Pick(s, DOMAIN s) = s
<1>1. Len(s) \in Nat /\ DOMAIN s = 1..Len(s) /\ s = [k \in 1..Len(s) |-> s[k]]
  BY ListFacts DEF IsList
<1> DEFINE a == 1  b == Len(s)
<1>2. a \in Int /\ b \in Int /\ a <= b + 1 /\ b - a + 1 = Len(s) /\ \A k \in 1..Len(s) : a + k - 1 = k
  BY <1>1
<1>3. Pick(s, a..b) = [k \in 1..(b - a + 1) |-> s[a + k - 1]]
  <2> HIDE DEF a, b
  <2> QED BY <1>2, PickInterval
<1>4. Pick(s, a..b) = [k \in 1..Len(s) |-> s[k]]
  BY <1>2, <1>3
<1> QED BY <1>1, <1>4

\* A message of results has no calls.
LEMMA ResultParts ==
  ASSUME NEW m, IsList(m.parts), \A k \in 1..Len(m.parts) : m.parts[k].kind \in {"result", "failed result"}
  PROVE  Calls(m) = <<>> /\ Results(m) = m.parts
<1> DEFINE s == m.parts
           I == {i \in DOMAIN s : s[i].kind = "call"}
           J == {i \in DOMAIN s : s[i].kind \in {"result", "failed result"}}
<1>1. DOMAIN s = 1..Len(s)
  BY ListFacts
<1>2. Calls(m) = Pick(s, I) /\ Results(m) = Pick(s, J)
  BY DEF Calls, Results, Only
<1>3. I = {} /\ J = DOMAIN s
  BY <1>1
<1> HIDE DEF I, J
<1> QED BY <1>2, <1>3, PickAll, PickEmpty

-----------------------------------------------------------------------------
\* The three kinds of messages that a history has.
IsQuestion(m) == m.role = "user" /\ m.blocks = <<TextBlock(<<>>)>>

\* A message that the model said: a text or none, and the tool_uses.
IsReply(m) ==
  /\ m.role = "assistant" /\ IsList(m.blocks)
  /\ \E t \in {0, 1} :
       /\ t <= Len(m.blocks)
       /\ t = 1 => m.blocks[1].type = "text"
       /\ \A k \in (t + 1)..Len(m.blocks) : m.blocks[k].type = "tool_use"

\* The results of the uses, in their order.
IsAnswer(m, uses) ==
  /\ m.role = "user" /\ IsList(m.blocks) /\ Len(m.blocks) = Len(uses)
  /\ \A k \in 1..Len(m.blocks) :
       /\ m.blocks[k].type = "tool_result" /\ m.blocks[k].id = uses[k].id
       /\ m.blocks[k].body \in Json

\* The blocks of each kind of message, by type: a question is one text,
LEMMA QuestionTypes ==
  ASSUME NEW m, IsQuestion(m)
  PROVE  /\ IsList(m.blocks) /\ Len(m.blocks) = 1 /\ m.blocks[1].type = "text"
         /\ OfType(m, "tool_use") = <<>> /\ OfType(m, "tool_result") = <<>>
         /\ OfType(m, "text") # <<>>
<1>1. IsList(m.blocks) /\ Len(m.blocks) = 1 /\ m.blocks[1].type = "text"
  BY DEF IsQuestion, IsList, TextBlock
<1> DEFINE t == 1
<1>2. t \in {0, 1} /\ t <= Len(m.blocks) /\ (t + 1)..Len(m.blocks) = {} /\ Len(m.blocks) - t = 0
  BY <1>1
<1>3. /\ OfType(m, "tool_use") = [k \in 1..(Len(m.blocks) - t) |-> m.blocks[t + k]]
      /\ OfType(m, "text") = [k \in 1..t |-> m.blocks[k]]
      /\ OfType(m, "tool_result") = <<>>
  <2> HIDE DEF t
  <2>1. t = 1 => m.blocks[1].type = "text"
    BY <1>1
  <2>2. \A k \in (t + 1)..Len(m.blocks) : m.blocks[k].type = "tool_use"
    BY <1>2
  <2> QED BY <1>1, <1>2, <2>1, <2>2, ReplyTypes
<1>4. OfType(m, "tool_use") = <<>>
  BY <1>2, <1>3
<1>5. OfType(m, "text") # <<>>
  <2>1. 1 \in DOMAIN OfType(m, "text")
    BY <1>3
  <2> QED BY <2>1
<1> QED BY <1>1, <1>3, <1>4, <1>5

\* an answer is results,
LEMMA AnswerTypes ==
  ASSUME NEW m, NEW uses, IsAnswer(m, uses)
  PROVE  /\ OfType(m, "tool_result") = m.blocks
         /\ OfType(m, "text") = <<>> /\ OfType(m, "tool_use") = <<>>
<1> DEFINE s == m.blocks
           I(type) == {i \in DOMAIN s : s[i].type = type}
<1>1. DOMAIN s = 1..Len(s) /\ IsList(s)
  BY ListFacts DEF IsAnswer
<1>2. \A type : OfType(m, type) = Pick(s, I(type))
  BY DEF OfType, Only
<1>3. I("tool_result") = DOMAIN s /\ I("text") = {} /\ I("tool_use") = {}
  BY <1>1 DEF IsAnswer
<1> HIDE DEF I, s
<1>4. OfType(m, "tool_result") = s
  BY <1>1, <1>2, <1>3, PickAll
<1>5. OfType(m, "text") = <<>> /\ OfType(m, "tool_use") = <<>>
  BY <1>2, <1>3, PickEmpty
<1> QED BY <1>4, <1>5 DEF s

\* and a reply is a text or none, and the uses.
LEMMA ReplyUses ==
  ASSUME NEW m, IsReply(m)
  PROVE  /\ IsList(OfType(m, "tool_use"))
         /\ OfType(m, "tool_result") = <<>>
         /\ \E t \in {0, 1} :
              /\ t <= Len(m.blocks) /\ t + Len(OfType(m, "tool_use")) = Len(m.blocks)
              /\ t = 1 => m.blocks[1].type = "text"
              /\ t = 0 <=> OfType(m, "text") = <<>>
              /\ \A k \in (t + 1)..Len(m.blocks) : m.blocks[k].type = "tool_use"
              /\ \A k \in 1..Len(OfType(m, "tool_use")) :
                   OfType(m, "tool_use")[k] = m.blocks[t + k] /\ m.blocks[t + k].type = "tool_use"
<1>1. PICK t \in {0, 1} :
       /\ t <= Len(m.blocks)
       /\ t = 1 => m.blocks[1].type = "text"
       /\ \A k \in (t + 1)..Len(m.blocks) : m.blocks[k].type = "tool_use"
  BY DEF IsReply
<1> DEFINE uses == OfType(m, "tool_use")  texts == OfType(m, "text")  n == Len(m.blocks) - t
<1>2. Len(m.blocks) \in Nat /\ IsList(m.blocks)
  BY ListFacts DEF IsReply
<1>3. /\ uses = [k \in 1..n |-> m.blocks[t + k]]
      /\ texts = [k \in 1..t |-> m.blocks[k]]
      /\ OfType(m, "tool_result") = <<>>
  BY <1>1, <1>2, ReplyTypes
<1>4. n \in Nat /\ t + n = Len(m.blocks)
  BY <1>1, <1>2
<1> HIDE DEF uses, texts, n
<1>5. IsList(uses) /\ Len(uses) = n
  BY <1>3, <1>4, ListOfFunction
<1>6. t = 0 <=> texts = <<>>
  <2>1. t = 0 => texts = <<>>
    BY <1>3
  <2>2. t = 1 => 1 \in DOMAIN texts
    BY <1>3
  <2> QED BY <2>1, <2>2
<1>7. ASSUME NEW k \in 1..n PROVE uses[k] = m.blocks[t + k] /\ m.blocks[t + k].type = "tool_use"
  <2>1. t + k \in (t + 1)..Len(m.blocks)
    BY <1>4
  <2> QED BY <1>1, <1>3, <2>1
<1> QED BY <1>1, <1>3, <1>4, <1>5, <1>6, <1>7 DEF uses, texts

\* What a provider is sent for a message of the history.
Turned(p, m) ==
  CASE p = "anthropic" -> AnthropicMessage(m)
    [] p = "openai" -> OpenAIMessage(m)
    [] p = "gemini" -> GeminiMessage(m)
    [] p = "bedrock" -> BedrockMessage(m)

\* Of a reply: one message with its calls.
TurnsReply(ms, m) ==
  /\ IsList(ms) /\ Len(ms) = 1
  /\ m.blocks # <<>> => ms[1].parts # <<>>
  /\ Results(ms[1]) = <<>>
  /\ Len(Calls(ms[1])) = Len(OfType(m, "tool_use"))
  /\ DOMAIN Calls(ms[1]) = 1..Len(OfType(m, "tool_use"))
  /\ \A k \in 1..Len(OfType(m, "tool_use")) :
       Calls(ms[1])[k].pair \in {NoPair, OfType(m, "tool_use")[k].id}

\* Of a question: one message without calls and results.
TurnsQuestion(ms) ==
  /\ IsList(ms) /\ Len(ms) = 1
  /\ ms[1].parts # <<>>
  /\ Results(ms[1]) = <<>> /\ Calls(ms[1]) = <<>>

\* Of results: messages with nothing else, that have all of them in order.
TurnsAnswer(ms, uses) ==
  /\ IsList(ms) /\ Len(ms) >= 1
  /\ \A k \in 1..Len(ms) :
       ms[k].parts # <<>> /\ Results(ms[k]) # <<>> /\ Calls(ms[k]) = <<>>
  /\ LET gathered == Concat([k \in 1..Len(ms) |-> Results(ms[k])])
     IN /\ Len(gathered) = Len(uses)
        /\ \A k \in 1..Len(uses) : gathered[k].pair = uses[k].id

\* A message that has one part for each block.
Faithful(x, m) ==
  /\ DOMAIN x.parts = DOMAIN m.blocks
  /\ x.parts = [i \in DOMAIN m.blocks |-> x.parts[i]]
  /\ \A i \in DOMAIN m.blocks :
       LET b == m.blocks[i]  p == x.parts[i]
       IN /\ b.type = "text" => p.kind = "text"
          /\ b.type = "tool_use" => p.kind = "call" /\ p.pair \in {NoPair, b.id}
          /\ b.type = "tool_result" => p.kind \in {"result", "failed result"} /\ p.pair = b.id

\* Anthropic, Bedrock and Gemini are sent one message for each of history's,
\* with a part for each block.
LEMMA FaithfulMessages ==
  ASSUME NEW p \in {"anthropic", "bedrock", "gemini"}, NEW m,
         \A i \in DOMAIN m.blocks : m.blocks[i].type \in {"text", "tool_use", "tool_result"}
  PROVE  \E x : Turned(p, m) = <<x>> /\ Faithful(x, m)
<1>1. CASE p = "anthropic"
  <2> DEFINE f(b) == CASE b.type = "text" -> Part("text", NoPair)
                       [] b.type = "tool_use" -> Part("call", b.id)
                       [] b.type = "tool_result" -> Part("result", b.id)
             x == [role |-> m.role, parts |-> [i \in DOMAIN m.blocks |-> f(m.blocks[i])]]
  <2>1. Turned(p, m) = <<x>>
    BY <1>1 DEF Turned, AnthropicMessage, MapSeq
  <2>2. Faithful(x, m)
    BY DEF Faithful, Part
  <2> QED BY <2>1, <2>2
<1>2. CASE p = "bedrock"
  <2> DEFINE f(b) == CASE b.type = "text" -> Part("text", NoPair)
                       [] b.type = "tool_use" -> Part("call", b.id)
                       [] b.type = "tool_result" ->
                            Part(IF b.is_error THEN "failed result" ELSE "result", b.id)
             x == [role |-> m.role, parts |-> [i \in DOMAIN m.blocks |-> f(m.blocks[i])]]
  <2>1. Turned(p, m) = <<x>>
    BY <1>2 DEF Turned, BedrockMessage, MapSeq
  <2>2. Faithful(x, m)
    BY DEF Faithful, Part
  <2> QED BY <2>1, <2>2
<1>3. CASE p = "gemini"
  <2> DEFINE f(b) == CASE b.type = "text" -> Part("text", NoPair)
                       [] b.type = "tool_use" -> Part("call", NoPair)
                       [] b.type = "tool_result" -> Part("result", b.id)
             x == [role |-> IF m.role = "assistant" THEN "model" ELSE "user",
                   parts |-> [i \in DOMAIN m.blocks |-> f(m.blocks[i])]]
  <2>1. Turned(p, m) = <<x>>
    BY <1>3 DEF Turned, GeminiMessage, MapSeq
  <2>2. Faithful(x, m)
    BY DEF Faithful, Part
  <2> QED BY <2>1, <2>2
<1> QED BY <1>1, <1>2, <1>3

\* A list with one element.
LEMMA Single ==
  ASSUME NEW x
  PROVE  IsList(<<x>>) /\ Len(<<x>>) = 1 /\ DOMAIN <<x>> = 1..1 /\ <<x>>[1] = x /\ <<x>> # <<>>
  BY DEF IsList

\* Such a message has as many parts as there are blocks.
LEMMA FaithfulList ==
  ASSUME NEW x, NEW m, Faithful(x, m), IsList(m.blocks)
  PROVE  /\ IsList(x.parts) /\ Len(x.parts) = Len(m.blocks) /\ Len(m.blocks) \in Nat
         /\ DOMAIN m.blocks = 1..Len(m.blocks)
         /\ m.blocks # <<>> => x.parts # <<>>
<1>1. Len(m.blocks) \in Nat /\ DOMAIN m.blocks = 1..Len(m.blocks)
  BY ListFacts
<1> DEFINE n == Len(m.blocks)  s == x.parts
<1>2. DOMAIN s = 1..n /\ s = [i \in 1..n |-> s[i]] /\ n \in Nat
  BY <1>1 DEF Faithful
<1>3. IsList(s) /\ Len(s) = n
  <2> HIDE DEF n, s
  <2> QED BY <1>2, ListOfFunction
<1>4. m.blocks # <<>> => s # <<>>
  <2>1. m.blocks # <<>> => n # 0
    BY EmptySeq DEF IsList
  <2>2. Len(<<>>) = 0
    OBVIOUS
  <2> HIDE DEF n, s
  <2> QED BY <1>3, <2>1, <2>2 DEF n
<1> QED BY <1>1, <1>3, <1>4

\* So a reply becomes one message with its calls,
LEMMA FaithfulReply ==
  ASSUME NEW x, NEW m, Faithful(x, m), IsReply(m)
  PROVE  TurnsReply(<<x>>, m)
<1> DEFINE uses == OfType(m, "tool_use")  n == Len(m.blocks)  s == x.parts
<1>1. PICK t \in {0, 1} :
              /\ t <= n /\ t + Len(uses) = n
              /\ t = 1 => m.blocks[1].type = "text"
              /\ \A k \in (t + 1)..n : m.blocks[k].type = "tool_use"
              /\ \A k \in 1..Len(uses) : uses[k] = m.blocks[t + k] /\ m.blocks[t + k].type = "tool_use"
  BY ReplyUses
<1>2. IsList(s) /\ Len(s) = n /\ n \in Nat /\ DOMAIN m.blocks = 1..n /\ (m.blocks # <<>> => s # <<>>)
  BY FaithfulList DEF IsReply
<1>3. IsList(uses) /\ Len(uses) \in Nat
  BY ReplyUses, ListFacts
<1>4. /\ Calls(x) = [k \in 1..(Len(s) - t) |-> s[t + k]]
      /\ Results(x) = <<>>
  <2>1. ASSUME t = 1 PROVE s[1].kind = "text"
    <3>1. 1 \in DOMAIN m.blocks /\ m.blocks[1].type = "text"
      BY <1>1, <1>2, <2>1
    <3> QED BY <3>1 DEF Faithful
  <2>2. ASSUME NEW k \in (t + 1)..Len(s) PROVE s[k].kind = "call"
    <3>1. k \in DOMAIN m.blocks /\ k \in (t + 1)..n
      BY <1>2
    <3> QED BY <1>1, <3>1 DEF Faithful
  <2> QED BY <1>1, <1>2, <2>1, <2>2, CallParts
<1>5. Len(s) - t = Len(uses)
  <2> HIDE DEF uses, n, s
  <2> QED BY <1>1, <1>2, <1>3
<1>6. DOMAIN Calls(x) = 1..Len(uses) /\ Len(Calls(x)) = Len(uses)
  BY <1>3, <1>4, <1>5
<1>7. ASSUME NEW k \in 1..Len(uses) PROVE Calls(x)[k].pair \in {NoPair, uses[k].id}
  <2>1. Calls(x)[k] = s[t + k]
    BY <1>4, <1>5
  <2>2. t + k \in DOMAIN m.blocks
    <3> HIDE DEF n, s, uses
    <3>1. t + k \in 1..n
      BY <1>1, <1>2, <1>3
    <3> QED BY <1>2, <3>1
  <2>3. uses[k] = m.blocks[t + k] /\ m.blocks[t + k].type = "tool_use"
    BY <1>1
  <2> HIDE DEF uses, n, s
  <2> QED BY <2>1, <2>2, <2>3 DEF Faithful, s
<1> HIDE DEF uses, n, s
<1> QED BY <1>2, <1>4, <1>6, <1>7, Single DEF TurnsReply, uses, s

\* a question one without,
LEMMA FaithfulQuestion ==
  ASSUME NEW x, NEW m, Faithful(x, m), IsQuestion(m)
  PROVE  TurnsQuestion(<<x>>)
<1> DEFINE s == x.parts  t == 1
<1>1. IsList(m.blocks) /\ Len(m.blocks) = 1 /\ m.blocks[1].type = "text" /\ m.blocks # <<>>
  BY QuestionTypes DEF IsQuestion
<1>2. IsList(s) /\ Len(s) = 1 /\ DOMAIN m.blocks = 1..1 /\ s # <<>>
  BY <1>1, FaithfulList
<1>3. s[1].kind = "text"
  <2>1. 1 \in DOMAIN m.blocks
    BY <1>2
  <2> QED BY <1>1, <2>1 DEF Faithful
<1>4. t \in {0, 1} /\ t <= Len(s) /\ (t + 1)..Len(s) = {} /\ Len(s) - t = 0
  BY <1>2
<1>5. Calls(x) = [k \in 1..(Len(s) - t) |-> s[t + k]] /\ Results(x) = <<>>
  <2> HIDE DEF t
  <2> QED BY <1>2, <1>3, <1>4, CallParts
<1>6. Calls(x) = <<>>
  BY <1>4, <1>5
<1> QED BY <1>2, <1>5, <1>6, Single DEF TurnsQuestion

\* and an answer one with all results.
LEMMA FaithfulAnswer ==
  ASSUME NEW x, NEW m, NEW uses, Faithful(x, m), IsAnswer(m, uses), Len(uses) # 0
  PROVE  TurnsAnswer(<<x>>, uses)
<1> DEFINE s == x.parts  n == Len(m.blocks)
<1>1. /\ IsList(m.blocks) /\ n = Len(uses)
      /\ \A k \in 1..n : m.blocks[k].type = "tool_result" /\ m.blocks[k].id = uses[k].id
  BY DEF IsAnswer
<1>2. IsList(s) /\ Len(s) = n /\ n \in Nat /\ DOMAIN m.blocks = 1..n /\ DOMAIN s = 1..n
  BY <1>1, FaithfulList, ListFacts
<1>3. \A k \in 1..n : s[k].kind \in {"result", "failed result"} /\ s[k].pair = uses[k].id
  BY <1>1, <1>2 DEF Faithful
<1> HIDE DEF n
<1>4. Calls(x) = <<>> /\ Results(x) = s
  BY <1>2, <1>3, ResultParts
<1> HIDE DEF s
<1>5. s # <<>>
  BY <1>1, <1>2
<1> DEFINE ms == <<x>>  gathered == Concat([k \in 1..Len(ms) |-> Results(ms[k])])
<1>6. IsList(ms) /\ Len(ms) = 1 /\ ms[1] = x
  BY Single
<1>7. [k \in 1..Len(ms) |-> Results(ms[k])] = <<s>>
  <2> HIDE DEF ms
  <2>1. [k \in 1..Len(ms) |-> Results(ms[k])] = [k \in 1..1 |-> s]
    BY <1>4, <1>6
  <2>2. <<s>> = [k \in 1..1 |-> s]
    OBVIOUS
  <2> QED BY <2>1, <2>2
<1>8. gathered = s
  <2> DEFINE D == {s[i] : i \in DOMAIN s}
  <2>1. s \in Seq(D)
    BY <1>2 DEF IsList
  <2> HIDE DEF D, ms
  <2> QED BY <1>7, <2>1, ConcatOne
<1> HIDE DEF ms, gathered
<1>9. \A k \in 1..Len(ms) : ms[k].parts # <<>> /\ Results(ms[k]) # <<>> /\ Calls(ms[k]) = <<>>
  BY <1>4, <1>5, <1>6 DEF s
<1>10. Len(gathered) = Len(uses) /\ \A k \in 1..Len(uses) : gathered[k].pair = uses[k].id
  BY <1>1, <1>2, <1>3, <1>8
<1>11. TurnsAnswer(ms, uses)
  BY <1>6, <1>9, <1>10 DEF TurnsAnswer, gathered
<1> QED BY <1>11 DEF ms

\* A sequence is a list.
LEMMA SeqIsList == ASSUME NEW D, NEW s \in Seq(D) PROVE IsList(s)
<1> DEFINE E == {s[i] : i \in DOMAIN s}
<1>1. Len(s) \in Nat /\ DOMAIN s = 1..Len(s) /\ s = [i \in 1..Len(s) |-> s[i]]
  OBVIOUS
<1>2. \A i \in 1..Len(s) : s[i] \in E
  BY <1>1
<1> HIDE DEF E
<1>3. s \in Seq(E)
  BY <1>1, <1>2
<1> QED BY <1>3 DEF E, IsList

\* A list behind one element.
LEMMA OneBefore ==
  ASSUME NEW x, NEW s, IsList(s)
  PROVE  /\ IsList(<<x>> \o s) /\ Len(<<x>> \o s) = 1 + Len(s)
         /\ (<<x>> \o s)[1] = x
         /\ \A k \in 1..Len(s) : (<<x>> \o s)[1 + k] = s[k]
<1> DEFINE E == {s[i] : i \in DOMAIN s}
           D == {x} \cup E
           T == <<x>>
           both == T \o s
<1>1. s \in Seq(E) /\ E \subseteq D /\ x \in D
  BY DEF IsList
<1> HIDE DEF D, E
<1>2. s \in Seq(D) /\ Len(s) \in Nat
  <2>1. Len(s) \in Nat /\ s \in [1..Len(s) -> E]
    BY <1>1
  <2>2. s \in [1..Len(s) -> D]
    BY <1>1, <2>1
  <2> QED BY <2>1, <2>2
<1>3. T \in Seq(D) /\ Len(T) = 1 /\ T[1] = x
  BY <1>1
<1> HIDE DEF T
<1>4. /\ both \in Seq(D) /\ Len(both) = 1 + Len(s)
      /\ both[1] = T[1]
      /\ \A k \in 1..Len(s) : both[1 + k] = s[k]
  <2>1. both \in Seq(D) /\ Len(both) = Len(T) + Len(s)
    BY <1>2, <1>3, ConcatProperties
  <2>2. \A k \in 1..(Len(T) + Len(s)) : both[k] = IF k <= Len(T) THEN T[k] ELSE s[k - Len(T)]
    BY <1>2, <1>3, ConcatProperties
  <2>3. both[1] = T[1]
    <3>1. 1 \in 1..(Len(T) + Len(s)) /\ 1 <= Len(T)
      BY <1>2, <1>3
    <3> QED BY <2>2, <3>1
  <2>4. ASSUME NEW k \in 1..Len(s) PROVE both[1 + k] = s[k]
    <3>1. 1 + k \in 1..(Len(T) + Len(s)) /\ ~(1 + k <= Len(T)) /\ (1 + k) - Len(T) = k
      BY <1>2, <1>3
    <3> HIDE DEF both
    <3>2. both[1 + k] = IF 1 + k <= Len(T) THEN T[1 + k] ELSE s[(1 + k) - Len(T)]
      BY <2>2, <3>1
    <3> QED BY <3>1, <3>2
  <2> QED BY <1>2, <1>3, <2>1, <2>3, <2>4
<1> HIDE DEF both
<1>5. IsList(both)
  BY <1>4, SeqIsList
<1>6. both[1] = x
  BY <1>3, <1>4
<1> QED BY <1>4, <1>5, <1>6 DEF both, T

\* OpenAI is sent a reply as one message with its calls,
LEMMA OpenAIReply ==
  ASSUME NEW m, IsReply(m)
  PROVE  TurnsReply(OpenAIMessage(m), m)
<1> DEFINE uses == OfType(m, "tool_use")  texts == OfType(m, "text")
           callParts == MapSeq(uses, LAMBDA b : Part("call", b.id))
           word == Part("text", NoPair)
<1>1. PICK t \in {0, 1} :
        /\ t + Len(uses) = Len(m.blocks)
        /\ t = 0 <=> texts = <<>>
  BY ReplyUses
<1> DEFINE T == IF t = 0 THEN <<>> ELSE <<word>>
           s == T \o callParts
           x == [role |-> "assistant", parts |-> s]
<1>2. OpenAIMessage(m) = <<x>>
  <2>1. m.role = "assistant"
    BY DEF IsReply
  <2>2. (IF texts = <<>> THEN <<>> ELSE <<word>>) = IF t = 0 THEN <<>> ELSE <<word>>
    BY <1>1
  <2> HIDE DEF word
  <2> QED BY <2>1, <2>2 DEF OpenAIMessage, word
<1>3. IsList(uses) /\ Len(uses) \in Nat /\ DOMAIN uses = 1..Len(uses)
  BY ReplyUses, ListFacts
<1>4. /\ DOMAIN callParts = 1..Len(uses) /\ callParts = [k \in 1..Len(uses) |-> callParts[k]]
      /\ \A k \in 1..Len(uses) : callParts[k] = Part("call", uses[k].id)
  BY <1>3 DEF MapSeq
<1> HIDE DEF callParts, word, uses, texts
<1>5. IsList(callParts) /\ Len(callParts) = Len(uses)
  BY <1>3, <1>4, ListOfFunction
<1>6. /\ IsList(s) /\ Len(s) = t + Len(callParts)
      /\ t = 1 => s[1] = word
      /\ \A k \in 1..Len(callParts) : s[t + k] = callParts[k]
  <2>1. CASE t = 0
    <3>1. s = <<>> \o callParts
      BY <2>1
    <3>2. s = callParts
      BY <1>5, <3>1, ListFacts
    <3>3. \A k \in 1..Len(callParts) : t + k = k
      BY <2>1
    <3> HIDE DEF s
    <3> QED BY <1>3, <1>5, <2>1, <3>2, <3>3
  <2>2. CASE t = 1
    <3>1. s = <<word>> \o callParts
      BY <2>2
    <3> HIDE DEF s
    <3> QED BY <1>5, <2>2, <3>1, OneBefore
  <2> QED BY <2>1, <2>2
<1> HIDE DEF s
<1>7. /\ Calls(x) = [k \in 1..(Len(s) - t) |-> s[t + k]]
      /\ Results(x) = <<>>
  <2>1. t = 1 => s[1].kind = "text"
    BY <1>6 DEF word, Part
  <2>2. ASSUME NEW k \in (t + 1)..Len(s) PROVE s[k].kind = "call"
    <3>1. k - t \in 1..Len(uses) /\ t + (k - t) = k
      BY <1>3, <1>5, <1>6
    <3>2. s[k] = Part("call", uses[k - t].id)
      BY <1>4, <1>5, <1>6, <3>1
    <3> QED BY <3>2 DEF Part
  <2>3. t <= Len(s)
    BY <1>3, <1>5, <1>6
  <2>4. x.parts = s
    OBVIOUS
  <2> HIDE DEF x
  <2>5. /\ IsList(x.parts) /\ t <= Len(x.parts) /\ (t = 1 => x.parts[1].kind = "text")
        /\ \A k \in (t + 1)..Len(x.parts) : x.parts[k].kind = "call"
    BY <1>6, <2>1, <2>2, <2>3, <2>4
  <2>6. /\ Calls(x) = [k \in 1..(Len(x.parts) - t) |-> x.parts[t + k]]
        /\ Results(x) = <<>>
    BY <2>5, CallParts
  <2> QED BY <2>4, <2>6
<1>8. Len(s) - t = Len(uses)
  BY <1>3, <1>5, <1>6
<1>9. DOMAIN Calls(x) = 1..Len(uses) /\ Len(Calls(x)) = Len(uses)
  BY <1>3, <1>7, <1>8
<1>10. ASSUME NEW k \in 1..Len(uses) PROVE Calls(x)[k].pair \in {NoPair, uses[k].id}
  <2>1. Calls(x)[k] = Part("call", uses[k].id)
    BY <1>4, <1>5, <1>6, <1>7, <1>8
  <2> QED BY <2>1 DEF Part
<1>11. m.blocks # <<>> => x.parts # <<>>
  <2>1. m.blocks # <<>> => Len(m.blocks) # 0
    BY EmptySeq DEF IsReply, IsList
  <2>2. Len(s) = Len(m.blocks)
    BY <1>1, <1>5, <1>6
  <2>3. Len(<<>>) = 0
    OBVIOUS
  <2> QED BY <2>1, <2>2, <2>3
<1> HIDE DEF x
<1> QED BY <1>2, <1>7, <1>9, <1>10, <1>11, Single DEF TurnsReply, uses

\* a question as one without,
LEMMA OpenAIQuestion ==
  ASSUME NEW m, IsQuestion(m)
  PROVE  TurnsQuestion(OpenAIMessage(m))
<1> DEFINE word == Part("text", NoPair)
           x == [role |-> "user", parts |-> <<word>>]
<1>1. OfType(m, "tool_result") = <<>> /\ OfType(m, "text") # <<>> /\ m.role = "user"
  BY QuestionTypes DEF IsQuestion
<1>2. MapSeq(OfType(m, "tool_result"), LAMBDA b : [role |-> "tool", parts |-> <<Part("result", b.id)>>])
        = <<>>
  BY <1>1 DEF MapSeq
<1>3. <<>> \o <<x>> = <<x>>
  <2>1. IsList(<<x>>)
    BY Single
  <2> HIDE DEF x
  <2> QED BY <2>1, ListFacts
<1>4. <<word>> # <<>>
  OBVIOUS
<1>5. OpenAIMessage(m) = <<x>>
  <2> HIDE DEF word
  <2> QED BY <1>1, <1>2, <1>3, <1>4 DEF OpenAIMessage, word
<1> DEFINE s == <<word>>  t == 1
<1>6. IsList(s) /\ Len(s) = 1 /\ s[1].kind = "text"
  BY Single DEF Part
<1>7. t \in {0, 1} /\ t <= Len(s) /\ (t + 1)..Len(s) = {} /\ Len(s) - t = 0
  BY <1>6
<1>8. x.parts = s
  OBVIOUS
<1> HIDE DEF s, x
<1>9. Calls(x) = [k \in 1..(Len(s) - t) |-> s[t + k]] /\ Results(x) = <<>>
  <2> HIDE DEF t
  <2>1. /\ IsList(x.parts) /\ t \in {0, 1} /\ t <= Len(x.parts)
        /\ t = 1 => x.parts[1].kind = "text"
        /\ \A k \in (t + 1)..Len(x.parts) : x.parts[k].kind = "call"
    BY <1>6, <1>7, <1>8
  <2>2. /\ Calls(x) = [k \in 1..(Len(x.parts) - t) |-> x.parts[t + k]]
        /\ Results(x) = <<>>
    BY <2>1, CallParts
  <2> QED BY <1>8, <2>2
<1>10. Calls(x) = <<>>
  BY <1>7, <1>9
<1> QED BY <1>4, <1>5, <1>8, <1>9, <1>10, Single DEF TurnsQuestion, s

\* and an answer as one message for each result.
LEMMA OpenAIAnswer ==
  ASSUME NEW m, NEW uses, IsAnswer(m, uses), Len(uses) # 0
  PROVE  TurnsAnswer(OpenAIMessage(m), uses)
<1> DEFINE n == Len(m.blocks)
           part(k) == Part("result", m.blocks[k].id)
           x(k) == [role |-> "tool", parts |-> <<part(k)>>]
           ms == [k \in 1..n |-> x(k)]
<1>1. /\ IsList(m.blocks) /\ n = Len(uses) /\ n \in Nat /\ DOMAIN m.blocks = 1..n
      /\ \A k \in 1..n : m.blocks[k].id = uses[k].id
      /\ m.role = "user"
  BY ListFacts DEF IsAnswer
<1>2. /\ OfType(m, "tool_result") = m.blocks /\ OfType(m, "text") = <<>>
  BY AnswerTypes
<1>3. MapSeq(OfType(m, "tool_result"), LAMBDA b : [role |-> "tool", parts |-> <<Part("result", b.id)>>]) = ms
  BY <1>1, <1>2 DEF MapSeq
<1> HIDE DEF n
<1>4. DOMAIN ms = 1..n /\ ms = [k \in 1..n |-> ms[k]] /\ \A k \in 1..n : ms[k] = x(k)
  OBVIOUS
<1> HIDE DEF ms, x
<1>5. IsList(ms) /\ Len(ms) = n
  BY <1>1, <1>4, ListOfFunction
<1>6. OpenAIMessage(m) = ms
  <2>1. ms \o <<>> = ms
    <3>1. \E D : ms \in Seq(D)
      BY <1>5 DEF IsList
    <3> QED BY <3>1, ConcatEmptySeq
  <2> QED BY <1>1, <1>2, <1>3, <2>1 DEF OpenAIMessage
<1>7. ASSUME NEW k \in 1..n PROVE Calls(x(k)) = <<>> /\ Results(x(k)) = <<part(k)>>
  <2> DEFINE y == x(k)  s == <<part(k)>>
  <2>1. y.parts = s
    BY DEF x
  <2>2. IsList(s) /\ \A i \in 1..Len(s) : s[i].kind \in {"result", "failed result"}
    <3>1. s[1].kind = "result" /\ IsList(s) /\ Len(s) = 1
      BY Single DEF Part
    <3>2. \A i \in 1..1 : i = 1
      OBVIOUS
    <3> HIDE DEF s
    <3> QED BY <3>1, <3>2, Zenon
  <2> HIDE DEF y, s
  <2>3. Calls(y) = <<>> /\ Results(y) = s
    BY <2>1, <2>2, ResultParts
  <2> QED BY <2>3 DEF y, s
<1> DEFINE rs == [k \in 1..Len(ms) |-> Results(ms[k])]  gathered == Concat(rs)
           D == {part(k) : k \in 1..n}
<1>8. DOMAIN rs = 1..n /\ \A k \in 1..n : rs[k] = <<part(k)>>
  BY <1>4, <1>5, <1>7
<1>9. rs \in Seq(Seq(D)) /\ Len(rs) = n /\ \A k \in 1..n : Len(rs[k]) = 1 /\ rs[k][1] = part(k)
  <2>1. \A k \in 1..n : part(k) \in D
    OBVIOUS
  <2>2. ASSUME NEW k \in 1..n PROVE rs[k] \in Seq(D) /\ Len(rs[k]) = 1 /\ rs[k][1] = part(k)
    <3> DEFINE y == part(k)
    <3>1. rs[k] = <<y>> /\ y \in D
      BY <1>8, <2>1
    <3> HIDE DEF y, D, rs
    <3>2. rs[k] \in Seq(D) /\ Len(rs[k]) = 1 /\ rs[k][1] = y
      BY <3>1
    <3> QED BY <3>2 DEF y
  <2> HIDE DEF D
  <2>3. rs \in [1..n -> Seq(D)]
    BY <1>5, <2>2
  <2> HIDE DEF rs
  <2> QED BY <1>1, <2>2, <2>3
<1> HIDE DEF rs, D, part
<1>10. gathered = [k \in 1..n |-> part(k)]
  <2>1. gathered = [k \in 1..Len(rs) |-> rs[k][1]]
    BY <1>9, ConcatSingles
  <2> HIDE DEF gathered
  <2> QED BY <1>9, <2>1
<1>11. Len(gathered) = Len(uses) /\ \A k \in 1..Len(uses) : gathered[k].pair = uses[k].id
  <2> HIDE DEF gathered
  <2>1. Len(gathered) = n
    BY <1>1, <1>10
  <2>2. \A k \in 1..n : gathered[k].pair = m.blocks[k].id
    BY <1>10 DEF part, Part
  <2> QED BY <1>1, <2>1, <2>2
<1>12. ASSUME NEW k \in 1..Len(ms)
       PROVE  ms[k].parts # <<>> /\ Results(ms[k]) # <<>> /\ Calls(ms[k]) = <<>>
  <2>1. ms[k] = x(k) /\ k \in 1..n
    BY <1>4, <1>5
  <2>2. x(k).parts # <<>> /\ <<part(k)>> # <<>>
    BY DEF x
  <2> QED BY <1>7, <2>1, <2>2
<1>13. Len(ms) >= 1
  BY <1>1, <1>5
<1> QED BY <1>5, <1>6, <1>11, <1>12, <1>13 DEF TurnsAnswer, gathered, rs

\* The three kinds of messages, with any provider.
LEMMA TurnedFacts ==
  ASSUME NEW p \in Providers, NEW m
  PROVE  /\ IsReply(m) => TurnsReply(Turned(p, m), m)
         /\ IsQuestion(m) => TurnsQuestion(Turned(p, m))
         /\ \A uses : IsAnswer(m, uses) /\ Len(uses) # 0 => TurnsAnswer(Turned(p, m), uses)
<1>1. CASE p = "openai"
  BY <1>1, OpenAIReply, OpenAIQuestion, OpenAIAnswer DEF Turned
<1>2. CASE p \in {"anthropic", "bedrock", "gemini"}
  <2>1. ASSUME IsReply(m) PROVE TurnsReply(Turned(p, m), m)
    <3>1. \A i \in DOMAIN m.blocks : m.blocks[i].type \in {"text", "tool_use", "tool_result"}
      <4>1. PICK t \in {0, 1} :
              /\ t = 1 => m.blocks[1].type = "text"
              /\ \A k \in (t + 1)..Len(m.blocks) : m.blocks[k].type = "tool_use"
        BY <2>1 DEF IsReply
      <4>2. Len(m.blocks) \in Nat /\ DOMAIN m.blocks = 1..Len(m.blocks)
        BY <2>1, ListFacts DEF IsReply
      <4>3. ASSUME NEW i \in 1..Len(m.blocks) PROVE (t = 1 /\ i = 1) \/ i \in (t + 1)..Len(m.blocks)
        BY <4>2
      <4> QED BY <4>1, <4>2, <4>3
    <3> QED BY <1>2, <2>1, <3>1, FaithfulMessages, FaithfulReply
  <2>2. ASSUME IsQuestion(m) PROVE TurnsQuestion(Turned(p, m))
    <3>1. \A i \in DOMAIN m.blocks : m.blocks[i].type \in {"text", "tool_use", "tool_result"}
      BY <2>2 DEF IsQuestion, TextBlock
    <3> QED BY <1>2, <2>2, <3>1, FaithfulMessages, FaithfulQuestion
  <2>3. ASSUME NEW uses, IsAnswer(m, uses), Len(uses) # 0 PROVE TurnsAnswer(Turned(p, m), uses)
    <3>1. \A i \in DOMAIN m.blocks : m.blocks[i].type \in {"text", "tool_use", "tool_result"}
      BY <2>3, ListFacts DEF IsAnswer
    <3> QED BY <1>2, <2>3, <3>1, FaithfulMessages, FaithfulAnswer
  <2> QED BY <2>1, <2>2, <2>3
<1> QED BY <1>1, <1>2 DEF Providers

\* The results behind message p, when there are n messages of them.
LEMMA AnswersAre ==
  ASSUME NEW ms, Len(ms) \in Nat, NEW p \in 1..Len(ms), NEW n \in Nat, p + n <= Len(ms),
         \A k \in 1..n : Results(ms[p + k]) # <<>>,
         p + n = Len(ms) \/ Results(ms[p + n + 1]) = <<>>
  PROVE  Answers(ms, p) = Concat([k \in 1..n |-> Results(ms[p + k])])
<1> DEFINE EndsAt(j) == /\ \A k \in (p + 1)..j : Results(ms[k]) # <<>>
                        /\ j = Len(ms) \/ Results(ms[j + 1]) = <<>>
           e == p + n
           end == CHOOSE j \in p..Len(ms) : EndsAt(j)
<1>1. e \in p..Len(ms)
  OBVIOUS
<1>2. EndsAt(e)
  <2>1. ASSUME NEW k \in (p + 1)..e PROVE Results(ms[k]) # <<>>
    <3>1. k - p \in 1..n /\ p + (k - p) = k
      OBVIOUS
    <3> QED BY <3>1
  <2> QED BY <2>1
<1>3. ASSUME NEW j \in p..Len(ms), EndsAt(j) PROVE j = e
  <2>1. CASE j < e
    <3>1. j + 1 \in (p + 1)..e /\ j # Len(ms)
      BY <1>1, <2>1
    <3> HIDE DEF e
    <3> QED BY <1>2, <1>3, <3>1
  <2>2. CASE e < j
    <3>1. e + 1 \in (p + 1)..j /\ e # Len(ms)
      BY <1>1, <2>2
    <3> HIDE DEF e
    <3> QED BY <1>2, <1>3, <3>1
  <2> QED BY <1>1, <2>1, <2>2
<1> HIDE DEF EndsAt, e
<1>4. end = e
  BY <1>1, <1>2, <1>3
<1>5. Answers(ms, p) = Concat([k \in 1..(end - p) |-> Results(ms[p + k])])
  BY DEF Answers, EndsAt
<1>6. e - p = n
  BY DEF e
<1> HIDE DEF end
<1> QED BY <1>4, <1>5, <1>6

\* A history: questions, replies, and answers to the calls of a reply.
IsHistory(h) ==
  /\ IsList(h) /\ Len(h) >= 1
  /\ \A i \in 1..Len(h) :
       \/ IsReply(h[i])
       \/ IsQuestion(h[i])
       \/ /\ i > 1 /\ IsReply(h[i - 1])
          /\ Len(OfType(h[i - 1], "tool_use")) # 0
          /\ IsAnswer(h[i], OfType(h[i - 1], "tool_use"))

\* How the messages of history turn to those of the request ms.
AreTurned(p, h, ms, ss, ends) ==
  /\ Len(ss) = Len(h)
  /\ \A i \in 1..Len(h) : ss[i] = Turned(p, h[i]) /\ IsList(ss[i]) /\ Len(ss[i]) >= 1
  /\ IsList(ms)
  /\ AreJoined(ms, ss, ends)

\* The messages of a request, as those that each message of history turns to.
LEMMA TurnedMessages ==
  ASSUME NEW p \in Providers, NEW h, IsHistory(h)
  PROVE  \E ss, ends : AreTurned(p, h, Translated(p, h), ss, ends)
<1> DEFINE ss == [i \in DOMAIN h |-> Turned(p, h[i])]
<1>1. Translated(p, h) = Concat(ss)
  BY DEF Translated, Turned
<1>2. Len(h) \in Nat /\ DOMAIN h = 1..Len(h)
  BY ListFacts DEF IsHistory
<1>3. ss = [i \in 1..Len(h) |-> ss[i]] /\ \A i \in 1..Len(h) : ss[i] = Turned(p, h[i])
  BY <1>2
<1>4. DOMAIN ss = 1..Len(h)
  BY <1>2
<1> HIDE DEF ss
<1>5. IsList(ss) /\ Len(ss) = Len(h)
  BY <1>2, <1>3, <1>4, ListOfFunction
<1>6. ASSUME NEW i \in 1..Len(h) PROVE IsList(ss[i]) /\ Len(ss[i]) >= 1
  <2>1. CASE IsReply(h[i])
    <3>1. TurnsReply(ss[i], h[i])
      BY <1>3, <2>1, TurnedFacts
    <3> QED BY <3>1 DEF TurnsReply
  <2>2. CASE IsQuestion(h[i])
    <3>1. TurnsQuestion(ss[i])
      BY <1>3, <2>2, TurnedFacts
    <3> QED BY <3>1 DEF TurnsQuestion
  <2>3. ASSUME NEW uses, Len(uses) # 0, IsAnswer(h[i], uses) PROVE IsList(ss[i]) /\ Len(ss[i]) >= 1
    <3>1. TurnsAnswer(ss[i], uses)
      BY <1>3, <2>3, TurnedFacts
    <3> QED BY <3>1 DEF TurnsAnswer
  <2> QED BY <2>1, <2>2, <2>3 DEF IsHistory
<1>7. PICK D : ss \in Seq(Seq(D))
  BY <1>4, <1>5, <1>6, ListOfLists
<1>8. IsList(Concat(ss)) /\ \E ends : AreJoined(Concat(ss), ss, ends)
  BY <1>7, ConcatFacts, SeqIsList
<1>9. PICK ends : AreJoined(Concat(ss), ss, ends)
  BY <1>8
<1>10. \A i \in 1..Len(h) : ss[i] = Turned(p, h[i]) /\ IsList(ss[i]) /\ Len(ss[i]) >= 1
  BY <1>3, <1>6
<1>11. AreTurned(p, h, Concat(ss), ss, ends)
  BY <1>5, <1>8, <1>9, <1>10 DEF AreTurned
<1> QED BY <1>1, <1>11

\* What each message of a request is.
LEMMA MessagesAcceptable ==
  ASSUME NEW p \in Providers, NEW h, IsHistory(h), ~IsReply(h[Len(h)]),
         \A i \in 1..Len(h) : h[i].blocks # <<>>,
         \A i \in 1..(Len(h) - 1) :
           OfType(h[i], "tool_use") # <<>> => OfType(h[i + 1], "tool_result") # <<>>,
         NEW q \in 1..Len(Translated(p, h))
  PROVE  /\ AreCalls(Translated(p, h), q) => PairedAt(Translated(p, h), q)
         /\ Translated(p, h)[q].parts # <<>>
<1> DEFINE ms == Translated(p, h)
<1>0. PICK ss, ends : AreTurned(p, h, ms, ss, ends)
  BY TurnedMessages
<1> HIDE DEF ms
<1>1. /\ Len(ss) = Len(h)
      /\ \A i \in 1..Len(h) : ss[i] = Turned(p, h[i]) /\ IsList(ss[i]) /\ Len(ss[i]) >= 1
      /\ IsList(ms)
      /\ AreEnds(ends, ss)
      /\ Len(ms) = ends[Len(ss)]
      /\ \A n \in 1..Len(ss) : \A k \in 1..Len(ss[n]) :
           /\ ends[n - 1] + k \in 1..Len(ms)
           /\ ms[ends[n - 1] + k] = ss[n][k]
      /\ \A i \in 1..Len(ms) : \E n \in 1..Len(ss) : \E k \in 1..Len(ss[n]) : i = ends[n - 1] + k
  BY <1>0 DEF AreTurned, AreJoined
<1>2. Len(h) \in Nat /\ Len(ms) \in Nat
  BY <1>1, ListFacts DEF IsHistory
<1>3. PICK n \in 1..Len(h) : \E k \in 1..Len(ss[n]) : q = ends[n - 1] + k
  <2>1. q \in 1..Len(ms)
    BY DEF ms
  <2>2. \A i \in 1..Len(ms) : \E n \in 1..Len(h) : \E k \in 1..Len(ss[n]) : i = ends[n - 1] + k
    BY <1>1
  <2> QED BY <2>1, <2>2
<1>4. PICK k \in 1..Len(ss[n]) : q = ends[n - 1] + k
  BY <1>3
<1>5. ms[q] = ss[n][k]
  BY <1>1, <1>4
<1>6. CASE IsQuestion(h[n])
  <2>1. TurnsQuestion(ss[n])
    BY <1>1, <1>6, TurnedFacts
  <2>2. k = 1
    BY <2>1 DEF TurnsQuestion
  <2>3. Calls(ms[q]) = <<>> /\ ms[q].parts # <<>>
    BY <1>5, <2>1, <2>2 DEF TurnsQuestion
  <2> QED BY <2>3 DEF AreCalls, ms
<1>7. ASSUME NEW uses, Len(uses) # 0, IsAnswer(h[n], uses)
      PROVE  Calls(ms[q]) = <<>> /\ ms[q].parts # <<>>
  <2>1. TurnsAnswer(ss[n], uses)
    <3>1. TurnsAnswer(Turned(p, h[n]), uses)
      BY <1>7, TurnedFacts
    <3> QED BY <1>1, <3>1
  <2> QED BY <1>5, <2>1 DEF TurnsAnswer
<1>8. CASE IsReply(h[n])
  <2> DEFINE uses == OfType(h[n], "tool_use")
  <2>1. TurnsReply(ss[n], h[n])
    BY <1>1, <1>8, TurnedFacts
  <2>2. k = 1 /\ Len(ss[n]) = 1
    BY <2>1 DEF TurnsReply
  <2>3. ends[n - 1] \in Nat /\ ends[n] = ends[n - 1] + 1 /\ q = ends[n]
    <3>1. n - 1 \in 0..Len(ss) /\ n \in 1..Len(ss)
      BY <1>1, <1>2
    <3> QED BY <1>1, <1>4, <2>2, <3>1 DEF AreEnds
  <2>4. ms[q].parts # <<>>
    BY <1>5, <2>1, <2>2 DEF TurnsReply
  <2>5. ASSUME AreCalls(ms, q) PROVE PairedAt(ms, q)
    <3>1. Calls(ms[q]) # <<>>
      BY <2>5 DEF AreCalls
    <3>2. /\ Len(Calls(ms[q])) = Len(uses) /\ DOMAIN Calls(ms[q]) = 1..Len(uses)
          /\ \A i \in 1..Len(uses) : Calls(ms[q])[i].pair \in {NoPair, uses[i].id}
      BY <1>5, <2>1, <2>2 DEF TurnsReply
    <3>3. IsList(uses) /\ Len(uses) \in Nat
      BY <1>8, ReplyUses, ListFacts
    <3>4. Len(uses) # 0
      <4>1. IsList(Calls(ms[q]))
        <5>1. ms[q].parts = ms[q].parts
          OBVIOUS
        <5>2. ASSUME Len(uses) = 0 PROVE Calls(ms[q]) = <<>>
          <6> DEFINE c == Calls(ms[q])
          <6>1. DOMAIN c = {}
            BY <3>2, <5>2
          <6>2. c = [i \in DOMAIN c |-> c[i]]
            BY DEF Calls, Only, Pick
          <6> HIDE DEF c
          <6> QED BY <6>1, <6>2 DEF c
        <5>3. Calls(ms[q]) = [i \in 1..Len(uses) |-> Calls(ms[q])[i]]
          <6> DEFINE c == Calls(ms[q])
          <6>1. c = [i \in DOMAIN c |-> c[i]]
            BY DEF Calls, Only, Pick
          <6> HIDE DEF c
          <6> QED BY <3>2, <6>1 DEF c
        <5> QED BY <3>2, <3>3, <5>3, ListOfFunction
      <4> QED BY <3>1, <3>2, <4>1, EmptySeq DEF IsList
    <3>5. uses # <<>>
      BY <3>4
    <3>6. n < Len(h)
      BY <1>2, <1>8
    <3>7. OfType(h[n + 1], "tool_result") # <<>>
      <4>1. n \in 1..(Len(h) - 1)
        BY <1>2, <3>6
      <4> QED BY <3>5, <4>1
    <3>8. n + 1 \in 1..Len(h) /\ (n + 1) - 1 = n
      BY <1>2, <3>6
    <3>9. IsAnswer(h[n + 1], uses)
      <4>1. ~IsReply(h[n + 1]) /\ ~IsQuestion(h[n + 1])
        BY <3>7, ReplyUses, QuestionTypes
      <4> QED BY <3>8, <4>1 DEF IsHistory
    <3> DEFINE next == ss[n + 1]
               gathered == Concat([i \in 1..Len(next) |-> Results(next[i])])
               len == Len(next)
    <3>10. TurnsAnswer(next, uses)
      <4>1. TurnsAnswer(Turned(p, h[n + 1]), uses)
        BY <3>4, <3>9, TurnedFacts
      <4> QED BY <1>1, <3>8, <4>1
    <3>11. /\ IsList(next) /\ len >= 1 /\ \A i \in 1..len : Results(next[i]) # <<>>
           /\ Len(gathered) = Len(uses) /\ \A i \in 1..Len(uses) : gathered[i].pair = uses[i].id
      BY <3>10 DEF TurnsAnswer
    <3>12. len \in Nat
      BY <3>11, ListFacts
    <3>13. \A i \in 1..len : q + i \in 1..Len(ms) /\ ms[q + i] = next[i]
      <4>1. n + 1 \in 1..Len(ss) /\ ends[(n + 1) - 1] = q
        BY <1>1, <2>3, <3>8
      <4> QED BY <1>1, <2>3, <4>1
    <3>14. q + len <= Len(ms)
      <4>1. len \in 1..len
        BY <3>11, <3>12
      <4>2. q + len \in 1..Len(ms)
        BY <3>13, <4>1
      <4> QED BY <4>2
    <3>15. q + len = Len(ms) \/ Results(ms[q + len + 1]) = <<>>
      <4>1. q + len = ends[n + 1]
        BY <1>1, <2>3, <3>8 DEF AreEnds
      <4>2. CASE n + 1 = Len(h)
        BY <1>1, <4>1, <4>2
      <4>3. CASE n + 1 < Len(h)
        <5>1. n + 2 \in 1..Len(h) /\ (n + 2) - 1 = n + 1
          BY <1>2, <4>3
        <5>2. 1 \in 1..Len(ss[n + 2])
          <6>1. Len(ss[n + 2]) \in Nat /\ Len(ss[n + 2]) >= 1
            BY <1>1, <5>1, ListFacts
          <6> QED BY <6>1
        <5>3. ms[ends[n + 1] + 1] = ss[n + 2][1]
          BY <1>1, <5>1, <5>2
        <5>4. ~IsReply(h[n + 1])
          BY <3>9 DEF IsReply, IsAnswer
        <5>5. IsReply(h[n + 2]) \/ IsQuestion(h[n + 2])
          BY <5>1, <5>4 DEF IsHistory
        <5>6. Results(ss[n + 2][1]) = <<>>
          <6>1. TurnsReply(ss[n + 2], h[n + 2]) \/ TurnsQuestion(ss[n + 2])
            <7>1. \/ TurnsReply(Turned(p, h[n + 2]), h[n + 2])
                  \/ TurnsQuestion(Turned(p, h[n + 2]))
              BY <5>5, TurnedFacts
            <7> QED BY <1>1, <5>1, <7>1
          <6> QED BY <6>1 DEF TurnsReply, TurnsQuestion
        <5> QED BY <4>1, <5>3, <5>6
      <4> QED BY <1>2, <3>8, <4>2, <4>3
    <3>16. Answers(ms, q) = Concat([i \in 1..len |-> Results(ms[q + i])])
      <4>1. \A i \in 1..len : Results(ms[q + i]) # <<>>
        BY <3>11, <3>13
      <4>2. q \in 1..Len(ms)
        BY DEF ms
      <4> HIDE DEF len, next, gathered
      <4> QED BY <1>2, <3>12, <3>14, <3>15, <4>1, <4>2, AnswersAre
    <3>17. Answers(ms, q) = gathered
      <4>1. [i \in 1..len |-> Results(ms[q + i])] = [i \in 1..len |-> Results(next[i])]
        BY <3>13
      <4> QED BY <3>16, <4>1
    <3> HIDE DEF gathered, len, next, uses
    <3> QED BY <3>2, <3>11, <3>17 DEF PairedAt
  <2> QED BY <2>4, <2>5 DEF ms
<1>9. IsReply(h[n]) \/ IsQuestion(h[n]) \/ \E uses : Len(uses) # 0 /\ IsAnswer(h[n], uses)
  BY DEF IsHistory
<1>10. CASE \E uses : Len(uses) # 0 /\ IsAnswer(h[n], uses)
  BY <1>7, <1>10 DEF AreCalls, ms
<1> QED BY <1>6, <1>8, <1>9, <1>10

\* A history that grows by one message.
LEMMA HistoryGrows ==
  ASSUME NEW h, IsHistory(h), NEW m,
         \/ IsReply(m)
         \/ IsQuestion(m)
         \/ /\ IsReply(h[Len(h)])
            /\ Len(OfType(h[Len(h)], "tool_use")) # 0
            /\ IsAnswer(m, OfType(h[Len(h)], "tool_use"))
  PROVE  /\ IsHistory(Append(h, m))
         /\ Append(h, m)[Len(Append(h, m))] = m
<1> DEFINE g == Append(h, m)
<1>1. /\ Len(h) \in Nat /\ Len(h) >= 1
      /\ IsList(g) /\ Len(g) = Len(h) + 1 /\ g[Len(h) + 1] = m
      /\ \A i \in 1..Len(h) : g[i] = h[i]
  BY ListAppend DEF IsHistory
<1> HIDE DEF g
<1>2. ASSUME NEW i \in 1..Len(g)
      PROVE  \/ IsReply(g[i])
             \/ IsQuestion(g[i])
             \/ /\ i > 1 /\ IsReply(g[i - 1])
                /\ Len(OfType(g[i - 1], "tool_use")) # 0
                /\ IsAnswer(g[i], OfType(g[i - 1], "tool_use"))
  <2>1. CASE i = Len(h) + 1
    <3>1. g[i] = m /\ i > 1 /\ g[i - 1] = h[Len(h)]
      BY <1>1, <2>1
    <3> QED BY <3>1
  <2>2. CASE i \in 1..Len(h)
    <3>1. g[i] = h[i] /\ (i > 1 => g[i - 1] = h[i - 1])
      <4>1. i > 1 => i - 1 \in 1..Len(h)
        BY <1>1, <2>2
      <4> QED BY <1>1, <2>2, <4>1
    <3> QED BY <2>2, <3>1 DEF IsHistory
  <2>3. i \in 1..Len(h) \/ i = Len(h) + 1
    BY <1>1
  <2> QED BY <2>1, <2>2, <2>3
<1>3. Len(g) >= 1
  BY <1>1
<1> QED BY <1>1, <1>2, <1>3 DEF IsHistory, g

\* The message that StreamEnds appends is a reply.
LEMMA SpokenIsReply ==
  ASSUME ReplyInv, NEW s, EndedWith(s)
  PROVE  IsReply(Spoken(s))
<1> DEFINE m == Spoken(s)  t == TextPart(reply.text)  N == Len(Sent)
<1>1. /\ m.role = "assistant" /\ IsList(m.blocks) /\ Len(m.blocks) = t + N
      /\ t = 1 => m.blocks[1] = TextBlock(reply.text)
      /\ \A k \in 1..N : m.blocks[t + k] =
           ToolUse(s.uses[BlockIndex(k)].id, Sent[k].name, Sent[k].input)
  BY SpokenFacts DEF EndedWith
<1>2. t \in {0, 1} /\ N \in Nat
  BY SentFacts DEF TextPart
<1> HIDE DEF m, t, N
<1>3. t = 1 => m.blocks[1].type = "text"
  BY <1>1 DEF TextBlock
<1>4. ASSUME NEW k \in (t + 1)..Len(m.blocks) PROVE m.blocks[k].type = "tool_use"
  <2>1. k - t \in 1..N /\ t + (k - t) = k
    BY <1>1, <1>2
  <2>2. m.blocks[k] = ToolUse(s.uses[BlockIndex(k - t)].id, Sent[k - t].name, Sent[k - t].input)
    BY <1>1, <2>1
  <2> QED BY <2>2 DEF ToolUse
<1>5. t <= Len(m.blocks)
  BY <1>1, <1>2
<1> QED BY <1>1, <1>2, <1>3, <1>4, <1>5 DEF IsReply, m

\* The prompt and the feedback of the validator are questions.
LEMMA QuestionIsQuestion == IsQuestion(HistoryMessage("user", <<TextBlock(<<>>)>>))
  BY DEF IsQuestion, HistoryMessage

\* The message that ToolsAnswer appends answers the calls.
LEMMA ResultsAnswer ==
  ASSUME NEW uses, IsList(uses), NEW outcomes \in [DOMAIN uses -> Outcomes]
  PROVE  IsAnswer(HistoryMessage("user", [i \in DOMAIN uses |->
           ToolResult(uses[i].id, outcomes[i].body, outcomes[i].failed)]), uses)
<1> DEFINE b == [i \in DOMAIN uses |-> ToolResult(uses[i].id, outcomes[i].body, outcomes[i].failed)]
           m == HistoryMessage("user", b)
<1>1. Len(uses) \in Nat /\ DOMAIN uses = 1..Len(uses)
  BY ListFacts
<1>2. DOMAIN b = 1..Len(uses) /\ b = [i \in 1..Len(uses) |-> b[i]]
  BY <1>1
<1>3. ASSUME NEW k \in 1..Len(uses)
      PROVE  b[k].type = "tool_result" /\ b[k].id = uses[k].id /\ b[k].body \in Json
  <2>1. outcomes[k] \in Outcomes /\ k \in DOMAIN uses
    BY <1>1
  <2> QED BY <2>1, JsonAssumption DEF ToolResult
<1> HIDE DEF b
<1>4. IsList(b) /\ Len(b) = Len(uses)
  BY <1>1, <1>2, ListOfFunction
<1> QED BY <1>3, <1>4 DEF IsAnswer, HistoryMessage, b

-----------------------------------------------------------------------------
\* What is always so.
Prompted == stage \in {"ask", "stream"} => ~IsReply(history[Len(history)])
\* Tools run for the reply that was appended last, and it calls some.
Dispatched ==
  stage = "tools" =>
    IsReply(history[Len(history)]) /\ Len(OfType(history[Len(history)], "tool_use")) # 0
\* While a reply streams, the request is what history was turned to.
Requested == stage = "stream" => request = Request(provider, settings.caching, history)
\* The text that is judged is the reply's, and the verdict is the validator's
\* of that text and of all results in history.
Judged ==
  /\ stage \in {"judge", "done"} => collector.text = reply.text
  /\ stage = "done" /\ settings.mode # "off" =>
       \E auditor \in AuditorReplies :
         verdict = Validate(settings.mode, settings.strictness, collector.text, AllBlocks, auditor)

\* The inductive invariant of the turn.
GroundedInv == WholeInv /\ IsHistory(history) /\ Prompted /\ Dispatched /\ Requested /\ Judged

\* The turn begins with the prompt in history.
LEMMA GroundedInitInv == GroundedInit => GroundedInv
<1> SUFFICES ASSUME GroundedInit PROVE GroundedInv
  OBVIOUS
<1> DEFINE q == HistoryMessage("user", <<TextBlock(<<>>)>>)
<1>1. stage = "ask" /\ history = <<q>> /\ provider \in Providers /\ reply = Answer(<<>>)
  BY DEF GroundedInit
<1>2. IsQuestion(q)
  BY QuestionIsQuestion
<1> HIDE DEF q
<1>3. IsList(history) /\ Len(history) = 1 /\ history[1] = q
  BY <1>1, Single
<1>4. ReplyInv
  <2>1. IsList(<<>>)
    BY DEF IsList
  <2>2. /\ reply.text = <<>> /\ reply.calls = <<>> /\ reply.stop = "end_turn"
    BY <1>1 DEF Answer
  <2> QED BY <2>1, <2>2 DEF ReplyInv
<1>5. WholeInv
  BY <1>1, <1>3, <1>4 DEF WholeInv, RepliesArriveWhole
<1>6. IsHistory(history)
  BY <1>2, <1>3 DEF IsHistory
<1>7. ~IsReply(history[Len(history)])
  BY <1>2, <1>3 DEF IsReply, IsQuestion
<1> QED BY <1>1, <1>5, <1>6, <1>7 DEF GroundedInv, Prompted, Dispatched, Requested, Judged

\* A step that changes neither history nor the reply.
LEMMA WholeKept ==
  ASSUME WholeInv, UNCHANGED <<provider, history, reply>>,
         stage' \in {"ask", "stream", "tools", "judge", "done", "raised"},
         stage' = "stream" => Flowing' /\ Hearing',
         stage' \in {"tools", "judge"} => stage' = stage
  PROVE  WholeInv'
<1>1. ReplyInv'
  BY DEF ReplyInv, WholeInv
<1>2. RepliesArriveWhole'
  BY SameReply DEF RepliesArriveWhole, WholeInv
<1> QED BY <1>1, <1>2 DEF WholeInv

\* Ask makes the request from history, and a new stream.
LEMMA AskStep == ASSUME GroundedInv, Ask PROVE GroundedInv'
<1>1. /\ stage' = "stream" /\ UNCHANGED <<provider, settings, history>>
      /\ request' = Request(provider, settings.caching, history)
      /\ reply' \in Replies \/ Citing
      /\ flow' = NewFlow(reply') /\ adapter' = NewAdapter /\ collector' = NewCollector
      /\ stage = "ask"
  BY DEF Ask, chosen
<1>2. ReplyInv'
  BY <1>1, NewReply
<1>3. (ReplyInv /\ flow = NewFlow(reply) /\ adapter = NewAdapter /\ collector = NewCollector)'
      => (Flowing /\ Hearing)'
  BY NewStream, PTL
<1>4. (ReplyInv /\ flow = NewFlow(reply) /\ adapter = NewAdapter /\ collector = NewCollector)'
  BY <1>1, <1>2 DEF NewFlow, NewAdapter, NewCollector, Nothing
<1>5. Flowing' /\ Hearing'
  BY <1>3, <1>4
<1>6. WholeInv'
  BY <1>1, <1>2, <1>5 DEF WholeInv, GroundedInv, RepliesArriveWhole
<1>7. Requested'
  BY <1>1 DEF Requested, Request, Translated, Marked, CacheHint
<1>8. Prompted' /\ Dispatched' /\ Judged'
  BY <1>1 DEF GroundedInv, Prompted, Dispatched, Judged
<1> QED BY <1>1, <1>6, <1>7, <1>8 DEF GroundedInv

\* A chunk is collected.
LEMMA ChunkStep == ASSUME GroundedInv, Chunk PROVE GroundedInv'
<1>1. /\ stage = "stream" /\ UNCHANGED <<provider, settings, stage, history, request, reply>>
  BY DEF Chunk, chosen
<1>2. Flowing' /\ Hearing'
  BY <1>1, ChunkKeepsStream DEF GroundedInv, WholeInv
<1>3. WholeInv'
  BY <1>1, <1>2, WholeKept DEF GroundedInv
<1> QED BY <1>1, <1>3 DEF GroundedInv, Prompted, Dispatched, Requested, Judged

\* The stream breaks: the turn ends, and nothing is appended.
LEMMA BreakStep == ASSUME GroundedInv, Break PROVE GroundedInv'
<1>1. stage' = "raised" /\ UNCHANGED <<provider, history, reply>>
  BY DEF Break, chosen
<1>2. WholeInv'
  BY <1>1, WholeKept DEF GroundedInv
<1> QED BY <1>1, <1>2 DEF GroundedInv, Prompted, Dispatched, Requested, Judged

\* The reply is complete: it is appended if it calls tools, and judged if not.
LEMMA StreamEndsStep == ASSUME GroundedInv, StreamEnds PROVE GroundedInv'
<1>1. /\ stage = "stream" /\ Drained /\ UNCHANGED <<provider, settings, reply>>
      /\ collector' = CollectAll(collector, Trailer(adapter))
      /\ history' = Append(history, Spoken(collector'))
      /\ stage' \in {"tools", "judge"}
  BY DEF StreamEnds, chosen
<1>2. provider \in Providers /\ ReplyInv /\ Flowing /\ Hearing /\ IsList(history) /\ IsHistory(history)
  BY <1>1 DEF GroundedInv, WholeInv
<1>3. EndedWith(collector')
  BY <1>1, <1>2, EndOfStream
<1>4. IsReply(Spoken(collector'))
  BY <1>2, <1>3, SpokenIsReply
<1>5. /\ IsHistory(Append(history, Spoken(collector')))
      /\ Append(history, Spoken(collector'))[Len(Append(history, Spoken(collector')))] = Spoken(collector')
  BY <1>2, <1>4, HistoryGrows
<1>6. IsHistory(history') /\ IsReply(history'[Len(history')])
  BY <1>1, <1>4, <1>5
<1>7. RepliesArriveWhole'
  BY <1>2, StreamEndsWhole
<1>8. WholeInv'
  <2>1. ReplyInv'
    BY <1>1, <1>2 DEF ReplyInv
  <2>2. IsList(history')
    BY <1>6 DEF IsHistory
  <2> QED BY <1>1, <1>2, <1>7, <2>1, <2>2 DEF WholeInv
<1>9. Dispatched'
  <2>1. stage' = "tools" => OfType(history'[Len(history')], "tool_use") # <<>>
    BY <1>7 DEF RepliesArriveWhole
  <2>2. IsList(OfType(history'[Len(history')], "tool_use"))
    BY <1>6, ReplyUses
  <2> QED BY <1>6, <2>1, <2>2, EmptySeq DEF Dispatched, IsList
<1>10. collector'.text = reply'.text
  BY <1>1, <1>3 DEF EndedWith, Heard
<1> QED BY <1>1, <1>6, <1>8, <1>9, <1>10 DEF GroundedInv, Prompted, Requested, Judged

\* The results are appended, one for each call, in their order.
LEMMA ToolsAnswerStep == ASSUME GroundedInv, ToolsAnswer PROVE GroundedInv'
<1> DEFINE uses == OfType(history[Len(history)], "tool_use")
<1>1. /\ stage = "tools" /\ stage' = "ask" /\ UNCHANGED <<provider, settings, reply>>
      /\ \E outcomes \in [DOMAIN uses -> Outcomes] :
          history' = Append(history, HistoryMessage("user", [i \in DOMAIN uses |->
            ToolResult(uses[i].id, outcomes[i].body, outcomes[i].failed)]))
  BY DEF ToolsAnswer, chosen
<1>2. /\ IsHistory(history) /\ IsReply(history[Len(history)]) /\ Len(uses) # 0
  BY <1>1 DEF GroundedInv, Dispatched
<1>3. IsList(uses)
  BY <1>2, ReplyUses
<1> HIDE DEF uses
<1>4. PICK outcomes \in [DOMAIN uses -> Outcomes] :
          history' = Append(history, HistoryMessage("user", [i \in DOMAIN uses |->
            ToolResult(uses[i].id, outcomes[i].body, outcomes[i].failed)]))
  BY <1>1
<1> DEFINE m == HistoryMessage("user", [i \in DOMAIN uses |->
                  ToolResult(uses[i].id, outcomes[i].body, outcomes[i].failed)])
<1>5. IsAnswer(m, uses) /\ history' = Append(history, m)
  BY <1>3, <1>4, ResultsAnswer
<1> HIDE DEF m
<1>6. IsHistory(Append(history, m)) /\ Append(history, m)[Len(Append(history, m))] = m
  BY <1>2, <1>5, HistoryGrows DEF uses
<1>7. IsHistory(history') /\ ~IsReply(history'[Len(history')])
  BY <1>5, <1>6 DEF IsAnswer, IsReply
<1>8. WholeInv'
  <2>1. ReplyInv'
    BY <1>1 DEF ReplyInv, GroundedInv, WholeInv
  <2> QED BY <1>1, <1>7, <2>1 DEF WholeInv, GroundedInv, IsHistory, RepliesArriveWhole
<1> QED BY <1>1, <1>7, <1>8 DEF GroundedInv, Prompted, Dispatched, Requested, Judged

\* The answer of a turn without validation.
LEMMA UnvalidatedStep == ASSUME GroundedInv, Unvalidated PROVE GroundedInv'
<1>1. /\ stage = "judge" /\ settings.mode = "off" /\ stage' = "done"
      /\ UNCHANGED <<provider, settings, history, reply, collector>>
  BY DEF Unvalidated, chosen, stream
<1>2. WholeInv'
  BY <1>1, WholeKept DEF GroundedInv
<1> QED BY <1>1, <1>2 DEF GroundedInv, Prompted, Dispatched, Requested, Judged

\* The verdict, and with it the end of the turn or one more question.
LEMMA JudgeStep == ASSUME GroundedInv, Judge PROVE GroundedInv'
<1> DEFINE q == HistoryMessage("user", <<TextBlock(<<>>)>>)
<1>1. /\ stage = "judge" /\ UNCHANGED <<provider, settings, reply, collector>>
      /\ \E auditor \in AuditorReplies :
           verdict' = Validate(settings.mode, settings.strictness, collector.text, AllBlocks, auditor)
      /\ \/ stage' = "done" /\ history' = history
         \/ stage' = "ask" /\ history' = Append(history, q)
  BY DEF Judge, chosen, stream
<1>2. CASE stage' = "done" /\ history' = history
  <2>1. WholeInv'
    BY <1>1, <1>2, WholeKept DEF GroundedInv
  <2>2. Judged'
    <3>1. AllBlocks' = AllBlocks
      BY <1>2 DEF AllBlocks
    <3> QED BY <1>1, <1>2, <3>1 DEF Judged, GroundedInv
  <2> QED BY <1>1, <1>2, <2>1, <2>2 DEF GroundedInv, Prompted, Dispatched, Requested
<1>3. CASE stage' = "ask" /\ history' = Append(history, q)
  <2>1. IsQuestion(q)
    BY QuestionIsQuestion
  <2> HIDE DEF q
  <2>2. IsHistory(history)
    BY DEF GroundedInv
  <2>3. IsHistory(Append(history, q)) /\ Append(history, q)[Len(Append(history, q))] = q
    BY <2>1, <2>2, HistoryGrows
  <2>4. IsHistory(history') /\ ~IsReply(history'[Len(history')])
    BY <1>3, <2>1, <2>3 DEF IsQuestion, IsReply
  <2>5. WholeInv'
    <3>1. ReplyInv'
      BY <1>1 DEF ReplyInv, GroundedInv, WholeInv
    <3> QED BY <1>1, <1>3, <2>4, <3>1 DEF WholeInv, GroundedInv, IsHistory, RepliesArriveWhole
  <2> QED BY <1>3, <2>4, <2>5 DEF GroundedInv, Prompted, Dispatched, Requested, Judged
<1> QED BY <1>1, <1>2, <1>3

\* Every step keeps the invariant.
LEMMA GroundedNextInv == GroundedInv /\ [GroundedNext]_groundedVars => GroundedInv'
<1> SUFFICES ASSUME GroundedInv, [GroundedNext]_groundedVars PROVE GroundedInv'
  OBVIOUS
<1>1. CASE UNCHANGED groundedVars
  <2>1. UNCHANGED <<provider, settings, stage, history, request, reply, flow, adapter, collector, verdict>>
    BY <1>1 DEF groundedVars, chosen, stream
  <2>2. AllBlocks' = AllBlocks
    BY <2>1 DEF AllBlocks
  <2>3. stage' = "stream" => Flowing' /\ Hearing'
    <3> SUFFICES ASSUME stage = "stream" PROVE Flowing' /\ Hearing'
      BY <2>1
    <3>1. Flowing /\ Hearing
      BY DEF GroundedInv, WholeInv
    <3>2. Flowing'
      BY <2>1, <3>1, SameReply DEF Flowing, TextSent, InputSent
    <3>3. Told' = Told
      BY <2>1, SameReply DEF Told
    <3>4. Hearing'
      BY <2>1, <3>1, <3>3, HeardNext DEF Hearing
    <3> QED BY <3>2, <3>4
  <2>4. WholeInv'
    BY <2>1, <2>3, WholeKept DEF GroundedInv, WholeInv
  <2> QED BY <2>1, <2>2, <2>4 DEF GroundedInv, Prompted, Dispatched, Requested, Judged
<1>2. CASE GroundedNext
  BY <1>2, AskStep, ChunkStep, BreakStep, StreamEndsStep, ToolsAnswerStep, UnvalidatedStep, JudgeStep
     DEF GroundedNext
<1> QED BY <1>1, <1>2

\* The prefix that is marked ends right before the last message.
LEMMA CachedPrefix ==
  ASSUME NEW p \in Providers, NEW caching, NEW h, Len(h) \in Nat, DOMAIN h = 1..Len(h), Len(h) >= 1,
         \A i \in 1..Len(h) : h[i].blocks # <<>>
  PROVE  Marked(p, CacheHint(caching, h), h) =
           IF caching /\ p \in {"anthropic", "bedrock"} /\ Len(h) > 1 THEN {Len(h) - 1} ELSE {}
<1> DEFINE hint == CacheHint(caching, h)
<1>1. CASE caching /\ Len(h) > 1
  <2>1. hint = Len(h) - 2 /\ hint # NoHint /\ hint >= 0
    BY <1>1 DEF CacheHint, NoHint
  <2> HIDE DEF hint
  <2>2. Target(hint, h) + 1 = Len(h) - 1 /\ Len(h) - 1 \in DOMAIN h
    BY <1>1, <2>1 DEF Target
  <2>3. h[Len(h) - 1].blocks # <<>>
    BY <2>2
  <2>4. MarkedBlock(hint, h) = {Len(h) - 1} /\ MarkedPoint(hint, h) = {Len(h) - 1}
    BY <2>1, <2>2, <2>3 DEF MarkedBlock, MarkedPoint
  <2> QED BY <1>1, <2>4 DEF Marked, Providers, hint
<1>2. CASE ~(caching /\ Len(h) > 1)
  <2>1. hint = NoHint
    BY <1>2 DEF CacheHint
  <2> HIDE DEF hint
  <2>2. MarkedBlock(hint, h) = {} /\ MarkedPoint(hint, h) = {}
    BY <2>1 DEF MarkedBlock, MarkedPoint
  <2> QED BY <1>2, <2>2 DEF Marked, Providers, hint
<1> QED BY <1>1, <1>2

\* The messages that history becomes are the ones a provider accepts, and the
\* ones that are marked for the cache are its beginning.
LEMMA InvAccepts == GroundedInv => RequestsAreAcceptable
<1> SUFFICES ASSUME GroundedInv, stage = "stream", ~CutOff, ~Silent
             PROVE  /\ \A i \in DOMAIN request.messages :
                         /\ AreCalls(request.messages, i) => PairedAt(request.messages, i)
                         /\ request.messages[i].parts # <<>>
                    /\ request.cached =
                         IF settings.caching /\ provider \in {"anthropic", "bedrock"} /\ Len(history) > 1
                         THEN {Len(history) - 1} ELSE {}
  BY DEF RequestsAreAcceptable
<1>1. /\ provider \in Providers /\ IsHistory(history) /\ ~IsReply(history[Len(history)])
      /\ request = Request(provider, settings.caching, history)
  BY DEF GroundedInv, WholeInv, Prompted, Requested
<1>2. /\ request.messages = Translated(provider, history)
      /\ request.cached = Marked(provider, CacheHint(settings.caching, history), history)
  BY <1>1 DEF Request
<1>3. Len(history) \in Nat /\ DOMAIN history = 1..Len(history) /\ Len(history) >= 1
  BY <1>1, ListFacts DEF IsHistory
<1>4. \A i \in 1..Len(history) : history[i].blocks # <<>>
  BY <1>3 DEF Silent
<1>5. \A i \in 1..(Len(history) - 1) :
         OfType(history[i], "tool_use") # <<>> => OfType(history[i + 1], "tool_result") # <<>>
  BY DEF CutOff
<1>6. PICK ss, ends : AreTurned(provider, history, Translated(provider, history), ss, ends)
  BY <1>1, TurnedMessages
<1>7. DOMAIN Translated(provider, history) = 1..Len(Translated(provider, history))
  BY <1>6, ListFacts DEF AreTurned
<1>8. ASSUME NEW i \in DOMAIN request.messages
      PROVE  /\ AreCalls(request.messages, i) => PairedAt(request.messages, i)
             /\ request.messages[i].parts # <<>>
  BY <1>1, <1>2, <1>4, <1>5, <1>7, MessagesAcceptable
<1>9. request.cached =
        IF settings.caching /\ provider \in {"anthropic", "bedrock"} /\ Len(history) > 1
        THEN {Len(history) - 1} ELSE {}
  BY <1>1, <1>2, <1>3, <1>4, CachedPrefix
<1> QED BY <1>8, <1>9

\* What GroundedInv says is always so.
THEOREM GroundedInvariant == GroundedSpec => []GroundedInv
  BY GroundedInitInv, GroundedNextInv, PTL DEF GroundedSpec

\* Whatever chunks the providers send a reply in, the message that run_agent
\* puts into history is that reply: no text, call or piece of an input is lost,
\* repeated, or put with another call (_collect_stream and the adapters).
THEOREM RepliesArriveWholeHolds == GroundedSpec => []RepliesArriveWhole
<1>1. GroundedInv => RepliesArriveWhole
  BY DEF GroundedInv, WholeInv
<1> QED BY <1>1, GroundedInvariant, PTL

\* Whatever the turn has come to, each call in the next request is answered by
\* the messages right behind it, none is empty, and the cached prefix ends right
\* before the last one, unless a reply was cut off in its calls or was empty
\* (what the four adapters make of history).
THEOREM RequestsAreAcceptableHolds == GroundedSpec => []RequestsAreAcceptable
  BY InvAccepts, GroundedInvariant, PTL

\* What the prefixes of the segments reach, and what they select.
IsReaching(reached, body, ss) ==
  reached = [n \in 0..Len(ss) |-> IF n = 0 THEN body ELSE Step(reached[n - 1], ss[n])]

\* The same of what the path means.
IsSelecting(selected, body, ss) ==
  selected = [n \in 0..Len(ss) |->
                IF n = 0 THEN [nodes |-> <<body>>, many |-> FALSE]
                ELSE Onward(selected[n - 1], ss[n])]

\* What Reached and Selected choose exists, for any segments.
LEMMA ReachingExists ==
  ASSUME NEW body, NEW ss, Len(ss) \in Nat
  PROVE  IsReaching(Reached(body, ss), body, ss)
<1> DEFINE Recurs(f, k) == f = [n \in 0..k |-> IF n = 0 THEN body ELSE Step(f[n - 1], ss[n])]
           S == {k \in 0..Len(ss) : \E f : Recurs(f, k)}
<1>1. 0 \in S
  <2> DEFINE f == [n \in 0..0 |-> body]
  <2>1. Recurs(f, 0)
    OBVIOUS
  <2> HIDE DEF f, Recurs
  <2> QED BY <2>1
<1>2. ASSUME NEW k \in 0..Len(ss), k \in S, k < Len(ss) PROVE k + 1 \in S
  <2>1. PICK f : Recurs(f, k)
    BY <1>2
  <2> DEFINE new == Step(f[k], ss[k + 1])
             g == [n \in 0..(k + 1) |-> IF n = k + 1 THEN new ELSE f[n]]
  <2>2. k \in Nat /\ k + 1 \in 0..Len(ss)
    BY <1>2
  <2> HIDE DEF new
  <2>3. g[k + 1] = new /\ \A n \in 0..k : g[n] = f[n]
    BY <2>2
  <2>4. f[0] = body /\ \A n \in 1..k : f[n] = Step(f[n - 1], ss[n])
    <3>1. \A n \in 0..k : f[n] = IF n = 0 THEN body ELSE Step(f[n - 1], ss[n])
      BY <2>1
    <3>2. 0 \in 0..k /\ \A n \in 1..k : n \in 0..k /\ n # 0
      BY <2>2
    <3> QED BY <3>1, <3>2
  <2> DEFINE h == [n \in 0..(k + 1) |-> IF n = 0 THEN body ELSE Step(g[n - 1], ss[n])]
  <2>5. ASSUME NEW n \in 0..(k + 1) PROVE g[n] = h[n]
    <3> HIDE DEF g
    <3>1. CASE n = 0
      BY <2>2, <2>3, <2>4, <3>1
    <3>2. CASE n \in 1..k
      <4>1. n - 1 \in 0..k /\ n \in 0..k /\ n # 0
        BY <2>2, <3>2
      <4> QED BY <2>3, <2>4, <3>2, <4>1
    <3>3. CASE n = k + 1
      <4>1. n - 1 \in 0..k /\ n # 0 /\ n - 1 = k
        BY <2>2, <3>3
      <4> QED BY <2>3, <3>3, <4>1 DEF new
    <3> QED BY <2>2, <3>1, <3>2, <3>3
  <2>6. g = h
    BY <2>5
  <2>7. Recurs(g, k + 1)
    <3> HIDE DEF g
    <3> QED BY <2>6
  <2> HIDE DEF Recurs, g
  <2> QED BY <2>2, <2>7
<1>3. Len(ss) \in S
  <2>1. 0..Len(ss) \subseteq S
    <3> HIDE DEF S
    <3> QED BY <1>1, <1>2, UpTo
  <2> HIDE DEF S
  <2> QED BY <2>1
<1>4. \E f : f = [n \in 0..Len(ss) |-> IF n = 0 THEN body ELSE Step(f[n - 1], ss[n])]
  BY <1>3
<1> QED BY <1>4 DEF Reached, IsReaching

\* The same of what the path means.
LEMMA SelectingExists ==
  ASSUME NEW body, NEW ss, Len(ss) \in Nat
  PROVE  IsSelecting(Selected(body, ss), body, ss)
<1> DEFINE start == [nodes |-> <<body>>, many |-> FALSE]
           Recurs(f, k) == f = [n \in 0..k |-> IF n = 0 THEN start ELSE Onward(f[n - 1], ss[n])]
           S == {k \in 0..Len(ss) : \E f : Recurs(f, k)}
<1>1. 0 \in S
  <2> DEFINE f == [n \in 0..0 |-> start]
  <2>1. Recurs(f, 0)
    OBVIOUS
  <2> HIDE DEF f, Recurs
  <2> QED BY <2>1
<1>2. ASSUME NEW k \in 0..Len(ss), k \in S, k < Len(ss) PROVE k + 1 \in S
  <2>1. PICK f : Recurs(f, k)
    BY <1>2
  <2> DEFINE new == Onward(f[k], ss[k + 1])
             g == [n \in 0..(k + 1) |-> IF n = k + 1 THEN new ELSE f[n]]
  <2>2. k \in Nat /\ k + 1 \in 0..Len(ss)
    BY <1>2
  <2> HIDE DEF new
  <2>3. g[k + 1] = new /\ \A n \in 0..k : g[n] = f[n]
    BY <2>2
  <2>4. f[0] = start /\ \A n \in 1..k : f[n] = Onward(f[n - 1], ss[n])
    <3>1. \A n \in 0..k : f[n] = IF n = 0 THEN start ELSE Onward(f[n - 1], ss[n])
      BY <2>1
    <3>2. 0 \in 0..k /\ \A n \in 1..k : n \in 0..k /\ n # 0
      BY <2>2
    <3> QED BY <3>1, <3>2
  <2> DEFINE h == [n \in 0..(k + 1) |-> IF n = 0 THEN start ELSE Onward(g[n - 1], ss[n])]
  <2>5. ASSUME NEW n \in 0..(k + 1) PROVE g[n] = h[n]
    <3> HIDE DEF g
    <3>1. CASE n = 0
      BY <2>2, <2>3, <2>4, <3>1
    <3>2. CASE n \in 1..k
      <4>1. n - 1 \in 0..k /\ n \in 0..k /\ n # 0
        BY <2>2, <3>2
      <4> QED BY <2>3, <2>4, <3>2, <4>1
    <3>3. CASE n = k + 1
      <4>1. n - 1 \in 0..k /\ n # 0 /\ n - 1 = k
        BY <2>2, <3>3
      <4> QED BY <2>3, <3>3, <4>1 DEF new
    <3> QED BY <2>2, <3>1, <3>2, <3>3
  <2>6. g = h
    BY <2>5
  <2>7. Recurs(g, k + 1)
    <3> HIDE DEF g
    <3> QED BY <2>6
  <2> HIDE DEF Recurs, g
  <2> QED BY <2>2, <2>7
<1>3. Len(ss) \in S
  <2>1. 0..Len(ss) \subseteq S
    <3> HIDE DEF S
    <3> QED BY <1>1, <1>2, UpTo
  <2> HIDE DEF S
  <2> QED BY <2>1
<1>4. \E f : f = [n \in 0..Len(ss) |-> IF n = 0 THEN start ELSE Onward(f[n - 1], ss[n])]
  BY <1>3
<1> QED BY <1>4 DEF Selected, IsSelecting

\* How resolve gets from one segment to the next,
LEMMA ReachedFacts ==
  ASSUME NEW body, NEW ss, Len(ss) \in Nat
  PROVE  /\ Reached(body, ss)[0] = body
         /\ \A n \in 1..Len(ss) : Reached(body, ss)[n] = Step(Reached(body, ss)[n - 1], ss[n])
<1> DEFINE r == Reached(body, ss)
<1>1. IsReaching(r, body, ss)
  BY ReachingExists
<1> HIDE DEF r
<1>2. \A n \in 0..Len(ss) : r[n] = IF n = 0 THEN body ELSE Step(r[n - 1], ss[n])
  BY <1>1 DEF IsReaching
<1>3. 0 \in 0..Len(ss) /\ \A n \in 1..Len(ss) : n \in 0..Len(ss) /\ n # 0
  OBVIOUS
<1>4. r[0] = body /\ \A n \in 1..Len(ss) : r[n] = Step(r[n - 1], ss[n])
  BY <1>2, <1>3
<1> QED BY <1>4 DEF r

\* and how the meaning of the path does.
LEMMA SelectedFacts ==
  ASSUME NEW body, NEW ss, Len(ss) \in Nat
  PROVE  /\ Selected(body, ss)[0] = [nodes |-> <<body>>, many |-> FALSE]
         /\ \A n \in 1..Len(ss) : Selected(body, ss)[n] = Onward(Selected(body, ss)[n - 1], ss[n])
<1> DEFINE r == Selected(body, ss)  start == [nodes |-> <<body>>, many |-> FALSE]
<1>1. IsSelecting(r, body, ss)
  BY SelectingExists
<1> HIDE DEF r
<1>2. \A n \in 0..Len(ss) : r[n] = IF n = 0 THEN start ELSE Onward(r[n - 1], ss[n])
  BY <1>1 DEF IsSelecting
<1>3. 0 \in 0..Len(ss) /\ \A n \in 1..Len(ss) : n \in 0..Len(ss) /\ n # 0
  OBVIOUS
<1> HIDE DEF start
<1>4. r[0] = start /\ \A n \in 1..Len(ss) : r[n] = Onward(r[n - 1], ss[n])
  BY <1>2, <1>3
<1> QED BY <1>4 DEF r, start

\* Joining, for each position, one element or none is picking.
LEMMA ConcatPick ==
  ASSUME NEW ss, IsList(ss), NEW I \in SUBSET (1..Len(ss)), NEW g,
         \A i \in 1..Len(ss) : ss[i] = IF i \in I THEN <<g[i]>> ELSE <<>>
  PROVE  Concat(ss) = Pick(g, I)
<1> DEFINE N == Len(ss)  D == {g[i] : i \in I}
<1>0. /\ N \in Nat /\ DOMAIN ss = 1..N /\ ss = [i \in 1..N |-> ss[i]]
      /\ \A i \in 1..N : ss[i] = IF i \in I THEN <<g[i]>> ELSE <<>>
      /\ I \in SUBSET (1..N) /\ \A i \in I : g[i] \in D
  BY ListFacts DEF IsList
<1> HIDE DEF D
<1>1. IsFiniteSet(I) /\ Cardinality(I) \in Nat /\ I \in SUBSET Int
  <2> DEFINE n == N
  <2>0. n \in Nat /\ I \in SUBSET (1..n) /\ 1 \in Int /\ n \in Int
    BY <1>0
  <2> HIDE DEF n, N
  <2>1. IsFiniteSet(1..n)
    BY <2>0, FS_Interval
  <2>2. IsFiniteSet(I)
    BY <2>0, <2>1, FS_Subset
  <2> QED BY <1>0, <2>2, FS_CardinalityType
<1>2. ASSUME NEW i \in 1..N
      PROVE  /\ ss[i] \in Seq(D)
             /\ i \in I => Len(ss[i]) = 1 /\ ss[i][1] = g[i]
             /\ i \notin I => Len(ss[i]) = 0
  <2>1. CASE i \in I
    <3> DEFINE x == g[i]
    <3>1. ss[i] = <<x>> /\ x \in D
      BY <1>0, <2>1
    <3> HIDE DEF x
    <3>2. <<x>> \in Seq(D) /\ Len(<<x>>) = 1 /\ <<x>>[1] = x
      BY <3>1
    <3>3. ss[i] \in Seq(D) /\ Len(ss[i]) = 1 /\ ss[i][1] = x
      BY <3>1, <3>2
    <3> QED BY <2>1, <3>3 DEF x
  <2>2. CASE i \notin I
    <3>1. ss[i] = <<>>
      BY <1>0, <2>2
    <3>2. <<>> \in Seq(D) /\ Len(<<>>) = 0
      OBVIOUS
    <3>3. ss[i] \in Seq(D) /\ Len(ss[i]) = 0
      BY <3>1, <3>2
    <3> QED BY <2>2, <3>3
  <2> QED BY <2>1, <2>2
<1>3. ss \in Seq(Seq(D))
  <2>1. ss \in [1..N -> Seq(D)]
    BY <1>0, <1>2
  <2> QED BY <1>0, <2>1
<1> HIDE DEF N
<1> DEFINE c == Concat(ss)
<1>4. c \in Seq(D) /\ \E ends : AreJoined(c, ss, ends)
  BY <1>3, ConcatFacts
<1> HIDE DEF c
<1>5. PICK ends : AreJoined(c, ss, ends)
  BY <1>4
<1>6. /\ ends[0] = 0 /\ \A n \in 1..N : ends[n] = ends[n - 1] + Len(ss[n])
      /\ ends \in [0..N -> Nat]
      /\ Len(c) = ends[N]
      /\ \A n \in 1..N : \A k \in 1..Len(ss[n]) : c[ends[n - 1] + k] = ss[n][k]
  BY <1>5 DEF AreJoined, AreEnds, N
<1> DEFINE below(n) == {j \in I : j <= n}
           S == {n \in 0..N : ends[n] = Cardinality(below(n))}
<1>7. 0 \in S
  <2>1. below(0) = {}
    BY <1>0
  <2> HIDE DEF below
  <2> QED BY <1>0, <1>6, <2>1, FS_EmptySet
<1>8. ASSUME NEW n \in 0..N, n \in S, n < N PROVE n + 1 \in S
  <2>1. n + 1 \in 1..N /\ (n + 1) - 1 = n /\ n + 1 \in 0..N /\ n + 1 \notin below(n)
    BY <1>0, <1>8
  <2>2. IsFiniteSet(below(n)) /\ Cardinality(below(n)) \in Nat
    <3>1. below(n) \in SUBSET I
      OBVIOUS
    <3> HIDE DEF below
    <3>2. IsFiniteSet(below(n))
      BY <1>1, <3>1, FS_Subset
    <3> QED BY <3>2, FS_CardinalityType
  <2>3. ends[n + 1] = ends[n] + Len(ss[n + 1]) /\ ends[n] = Cardinality(below(n))
    BY <1>6, <1>8, <2>1
  <2>4. CASE n + 1 \in I
    <3>1. below(n + 1) = below(n) \cup {n + 1}
      BY <2>1, <2>4
    <3>2. Len(ss[n + 1]) = 1
      BY <1>2, <2>1, <2>4
    <3> HIDE DEF below
    <3>3. Cardinality(below(n + 1)) = Cardinality(below(n)) + 1
      BY <2>1, <2>2, <3>1, FS_AddElement
    <3> QED BY <2>1, <2>3, <3>2, <3>3
  <2>5. CASE n + 1 \notin I
    <3>1. below(n + 1) = below(n)
      <4>1. \A j \in I : j \in Int /\ j # n + 1
        BY <1>1, <2>5
      <4>2. \A j \in I : j <= n + 1 <=> j <= n
        BY <1>8, <4>1
      <4> QED BY <4>2
    <3>2. Len(ss[n + 1]) = 0
      BY <1>2, <2>1, <2>5
    <3> HIDE DEF below
    <3> QED BY <2>1, <2>2, <2>3, <3>1, <3>2
  <2> QED BY <2>4, <2>5
<1>9. \A n \in 0..N : ends[n] = Cardinality(below(n))
  <2>1. 0..N \subseteq S
    <3> HIDE DEF S
    <3> QED BY <1>0, <1>7, <1>8, UpTo
  <2> QED BY <2>1
<1>10. Len(c) = Cardinality(I)
  <2>1. below(N) = I
    BY <1>0, <1>1
  <2> HIDE DEF below
  <2> QED BY <1>0, <1>6, <1>9, <2>1
<1>11. ASSUME NEW k \in 1..Cardinality(I) PROVE c[k] = g[Nth(I, k)]
  <2> DEFINE i == Nth(I, k)
  <2>1. i \in I /\ Rank(I, i) = k
    BY <1>1, NthFacts
  <2> HIDE DEF i
  <2>2. i \in 1..N /\ i \in 0..N /\ i - 1 \in 0..N
    BY <1>0, <2>1
  <2>3. ends[i] = k
    BY <1>9, <2>1, <2>2 DEF Rank
  <2>4. Len(ss[i]) = 1 /\ ss[i][1] = g[i]
    BY <1>2, <2>1, <2>2
  <2>5. ends[i - 1] + 1 = k
    BY <1>6, <2>2, <2>3, <2>4
  <2>6. c[ends[i - 1] + 1] = ss[i][1]
    <3>1. 1 \in 1..Len(ss[i])
      BY <2>4
    <3> QED BY <1>6, <2>2, <3>1
  <2> QED BY <2>4, <2>5, <2>6 DEF i
<1>12. c = [k \in 1..Cardinality(I) |-> c[k]]
  BY <1>4, <1>10
<1> QED BY <1>11, <1>12 DEF Pick, c

\* Joining nothing.
LEMMA ConcatNothing == Concat(<<>>) = <<>>
<1>0. Len(<<>>) = 0
  OBVIOUS
<1>1. PICK joined : IsJoining(joined, <<>>) /\ Concat(<<>>) = joined[0]
  BY <1>0, JoiningExists
<1>2. joined = [n \in 0..0 |-> IF n = 0 THEN <<>> ELSE joined[n - 1] \o (<<>>)[n]]
  BY <1>0, <1>1 DEF IsJoining
<1>3. joined[0] = <<>>
  BY <1>2
<1> QED BY <1>1, <1>3

-----------------------------------------------------------------------------
\* The values of an object.
LEMMA ValuesType ==
  ASSUME NEW f, IsFiniteSet(DOMAIN f), \A k \in DOMAIN f : f[k] \in Json
  PROVE  Values(f) \in Seq(Json)
<1> DEFINE K == DOMAIN f  n == Cardinality(K)
           P(o) == \A k \in K : \E i \in 1..n : o[i] = k
           order == CHOOSE o \in [1..n -> K] : P(o)
<1>1. n \in Nat /\ ExistsBijection(1..n, K)
  BY FS_CardinalityType
<1>2. PICK o \in [1..n -> K] : P(o)
  BY <1>1 DEF ExistsBijection, Bijection, Surjection
<1> HIDE DEF P
<1>3. order \in [1..n -> K]
  BY <1>2
<1>4. Values(f) = [i \in 1..n |-> f[order[i]]]
  BY DEF Values, P
<1> HIDE DEF order, n
<1>5. [i \in 1..n |-> f[order[i]]] \in [1..n -> Json]
  BY <1>3
<1> QED BY <1>1, <1>4, <1>5

\* The items of a list that a filter keeps.
LEMMA KeptType ==
  ASSUME NEW items \in Seq(Json), NEW s
  PROVE  Only(items, LAMBDA item : Fits(item, s)) \in Seq(Json)
<1> DEFINE I == {i \in DOMAIN items : Fits(items[i], s)}
<1>1. Only(items, LAMBDA item : Fits(item, s)) = Pick(items, I)
  BY DEF Only
<1>2. I \in SUBSET (1..Len(items)) /\ Len(items) \in Nat
  OBVIOUS
<1>3. \A i \in I : items[i] \in Json
  BY <1>2
<1> HIDE DEF I
<1>4. IsFiniteSet(1..Len(items))
  BY <1>2, FS_Interval
<1>5. IsFiniteSet(I)
  BY <1>2, <1>4, FS_Subset
<1>6. I \in SUBSET Int
  BY <1>2
<1> QED BY <1>1, <1>3, <1>5, <1>6, PickFacts

\* A key that is asked of the items of a list: what they are projected to is
\* what the items have.
LEMMA KeyOfItems ==
  ASSUME NEW items \in Seq(Json), NEW s, s.kind = "key"
  PROVE  /\ Project(items, s.key) = ListOf(Concat([i \in DOMAIN items |-> Children(items[i], s)]))
         /\ Concat([i \in DOMAIN items |-> Children(items[i], s)]) \in Seq(Json)
<1> DEFINE N == Len(items)
           I == {i \in DOMAIN items : Holds(items[i], s.key)}
           g == [i \in I |-> items[i].obj[s.key]]
           ss == [i \in DOMAIN items |-> Children(items[i], s)]
<1>1. N \in Nat /\ DOMAIN items = 1..N /\ \A i \in 1..N : items[i] \in Json
  OBVIOUS
<1>2. I \in SUBSET (1..N)
  BY <1>1
<1>3. \A i \in I : g[i] \in Json /\ g[i] = items[i].obj[s.key]
  BY <1>1, JsonAssumption DEF Holds
<1>4. DOMAIN ss = 1..N /\ ss = [i \in 1..N |-> ss[i]]
  BY <1>1
<1>5. ASSUME NEW i \in 1..N PROVE ss[i] = IF i \in I THEN <<g[i]>> ELSE <<>>
  <2>1. ss[i] = Children(items[i], s)
    BY <1>1
  <2>2. CASE Holds(items[i], s.key)
    <3>1. i \in I
      BY <1>1, <2>2
    <3>2. Children(items[i], s) = <<items[i].obj[s.key]>>
      BY <2>2 DEF Children
    <3> QED BY <1>3, <2>1, <3>1, <3>2
  <2>3. CASE ~Holds(items[i], s.key)
    <3>1. i \notin I
      BY <2>3
    <3>2. Children(items[i], s) = <<>>
      BY <2>3 DEF Children
    <3> QED BY <2>1, <3>1, <3>2
  <2> QED BY <2>2, <2>3
<1> HIDE DEF ss, I
<1>6. IsList(ss) /\ Len(ss) = N
  BY <1>1, <1>4, ListOfFunction
<1>7. \A i \in I : g[i] \in Json
  BY <1>3
<1>8. IsFiniteSet(I) /\ I \in SUBSET Int
  <2>1. IsFiniteSet(1..N)
    BY <1>1, FS_Interval
  <2>2. IsFiniteSet(I)
    BY <1>2, <2>1, FS_Subset
  <2>3. I \in SUBSET Int
    BY <1>2
  <2> QED BY <2>2, <2>3
<1>9. Pick(g, I) \in Seq(Json)
  <2> HIDE DEF g
  <2> QED BY <1>7, <1>8, PickFacts
<1>10. Concat(ss) = Pick(g, I)
  <2>1. \A i \in 1..Len(ss) : ss[i] = IF i \in I THEN <<g[i]>> ELSE <<>>
    BY <1>5, <1>6
  <2>2. I \in SUBSET (1..Len(ss)) /\ IsList(ss)
    BY <1>2, <1>6
  <2> HIDE DEF g, N
  <2> QED BY <2>1, <2>2, ConcatPick
<1>11. Project(items, s.key) = ListOf([k \in 1..Cardinality(I) |-> items[Nth(I, k)].obj[s.key]])
  BY DEF Project, MapSeq, Only, Pick, I
<1>12. Pick(g, I) = [k \in 1..Cardinality(I) |-> items[Nth(I, k)].obj[s.key]]
  <2>1. \A k \in 1..Cardinality(I) : Nth(I, k) \in I
    BY <1>8, NthFacts
  <2> QED BY <2>1 DEF Pick
<1> QED BY <1>9, <1>10, <1>11, <1>12 DEF ss

\* The segments that a path is parsed into.
SegmentKinds == {"key", "quoted", "index", "star", "where"}

\* A value is a list, an object or neither, of values.
LEMMA KindsOfJson ==
  ASSUME NEW v \in Json
  PROVE  /\ Is("list", v) => v = ListOf(v.list) /\ v.list \in Seq(Json) /\ ~Is("obj", v)
         /\ Is("obj", v) => ~Is("list", v) /\ Values(v.obj) \in Seq(Json)
         /\ Is("obj", v) => \A k \in DOMAIN v.obj : v.obj[k] \in Json
<1>1. Is("list", v) => v = ListOf(v.list) /\ v.list \in Seq(Json)
  BY JsonAssumption
<1>2. Is("list", v) => ~Is("obj", v)
  <2>1. \A l : DOMAIN ListOf(l) = {"list"}
    BY DEF ListOf
  <2> QED BY <1>1, <2>1 DEF Is
<1>3. Is("obj", v) => IsFiniteSet(DOMAIN v.obj) /\ \A k \in DOMAIN v.obj : v.obj[k] \in Json
  BY JsonAssumption
<1>4. Is("obj", v) => Values(v.obj) \in Seq(Json)
  BY <1>3, ValuesType
<1> QED BY <1>1, <1>2, <1>3, <1>4

\* From null every segment gets to null.
LEMMA NullSteps ==
  /\ ~Is("list", Null) /\ ~Is("obj", Null)
  /\ \A s : s.kind \in SegmentKinds => Step(Null, s) = Null
  /\ \A s : s.kind \in SegmentKinds => Children(Null, s) = <<>>
<1>1. ~Is("list", Null) /\ ~Is("obj", Null)
  BY DEF Is, Null
<1>2. \A k : ~Holds(Null, k) /\ Get(Null, k) = Null
  BY <1>1 DEF Holds, Get
<1>3. ASSUME NEW s, s.kind \in SegmentKinds PROVE Step(Null, s) = Null /\ Children(Null, s) = <<>>
  <2>1. CASE s.kind = "key"
    BY <1>1, <1>2, <2>1 DEF Step, Children
  <2>2. CASE s.kind = "index"
    BY <1>1, <1>2, <2>2 DEF Step, Children
  <2>3. CASE s.kind = "star"
    BY <1>1, <1>2, <2>3 DEF Step, Children
  <2>4. CASE s.kind = "where"
    BY <1>1, <1>2, <2>4 DEF Step, Children
  <2>5. CASE s.kind = "quoted"
    BY <1>1, <1>2, <2>5 DEF Step, Children
  <2> QED BY <1>3, <2>1, <2>2, <2>3, <2>4, <2>5 DEF SegmentKinds
<1> QED BY <1>1, <1>3

\* What a segment selects of one value, unless it is a key of a list, is what
\* it steps to.
LEMMA OneStep ==
  ASSUME NEW v \in Json, NEW s, s.kind \in SegmentKinds, s.kind = "index" => s.at \in Int,
         ~(s.kind = "key" /\ Is("list", v))
  PROVE  /\ Plural(s) => /\ Children(v, s) \in Seq(Json)
                         /\ Step(v, s) = ListOf(Children(v, s)) \/ Step(v, s) = Null
         /\ ~Plural(s) => \/ Step(v, s) \in Json /\ Children(v, s) = <<Step(v, s)>>
                          \/ Step(v, s) = Null /\ Children(v, s) = <<>>
<1>0. <<>> \in Seq(Json)
  OBVIOUS
<1>1. CASE s.kind \in {"key", "quoted"}
  <2>1. Step(v, s) = Get(v, s.key)
    BY <1>1 DEF Step
  <2>2. CASE Holds(v, s.key)
    <3>1. Step(v, s) = v.obj[s.key] /\ Step(v, s) \in Json
      BY <2>1, <2>2, KindsOfJson DEF Get, Holds
    <3>2. Children(v, s) = <<v.obj[s.key]>>
      BY <1>1, <2>2 DEF Children
    <3> QED BY <1>1, <3>1, <3>2 DEF Plural
  <2>3. CASE ~Holds(v, s.key)
    <3>1. Step(v, s) = Null
      BY <2>1, <2>3 DEF Get
    <3>2. Children(v, s) = <<>>
      BY <1>1, <2>3 DEF Children
    <3> QED BY <1>1, <3>1, <3>2 DEF Plural
  <2> QED BY <2>2, <2>3
<1>2. CASE s.kind = "index"
  <2>1. CASE ~Is("list", v)
    <3>1. Step(v, s) = Null /\ Children(v, s) = <<>>
      BY <1>2, <2>1 DEF Step, Children
    <3> QED BY <1>2, <3>1 DEF Plural
  <2>2. CASE Is("list", v)
    <3> DEFINE items == v.list  n == s.at
    <3>1. items \in Seq(Json) /\ Len(items) \in Nat /\ DOMAIN items = 1..Len(items) /\ n \in Int
      BY <1>2, <2>2, KindsOfJson
    <3>2. Step(v, s) = Item(items, n)
      BY <1>2, <2>2 DEF Step
    <3>3. /\ n \in 0..(Len(items) - 1) => Children(v, s) = <<items[n + 1]>>
          /\ n \notin 0..(Len(items) - 1) /\ -n \in 1..Len(items) =>
               Children(v, s) = <<items[Len(items) + 1 + n]>>
          /\ n \notin 0..(Len(items) - 1) /\ -n \notin 1..Len(items) => Children(v, s) = <<>>
      BY <1>2, <2>2 DEF Children
    <3> HIDE DEF items, n
    <3>4. CASE n \in 0..(Len(items) - 1)
      <4>1. n + 1 \in DOMAIN items /\ ~(n < 0)
        BY <3>1, <3>4
      <4>2. Item(items, n) = items[n + 1] /\ items[n + 1] \in Json
        BY <3>1, <4>1 DEF Item
      <4> QED BY <1>2, <3>2, <3>3, <3>4, <4>2 DEF Plural
    <3>5. CASE n \notin 0..(Len(items) - 1) /\ -n \in 1..Len(items)
      <4>1. Len(items) + n + 1 \in DOMAIN items /\ n < 0 /\ Len(items) + n + 1 = Len(items) + 1 + n
        BY <3>1, <3>5
      <4>2. Item(items, n) = items[Len(items) + 1 + n] /\ items[Len(items) + 1 + n] \in Json
        BY <3>1, <4>1 DEF Item
      <4> QED BY <1>2, <3>2, <3>3, <3>5, <4>2 DEF Plural
    <3>6. CASE n \notin 0..(Len(items) - 1) /\ -n \notin 1..Len(items)
      <4>1. (n < 0 => Len(items) + n + 1 \notin DOMAIN items) /\ (~(n < 0) => n + 1 \notin DOMAIN items)
        BY <3>1, <3>6
      <4>2. Item(items, n) = Null
        BY <4>1 DEF Item
      <4> QED BY <1>2, <3>2, <3>3, <3>6, <4>2 DEF Plural
    <3> QED BY <3>4, <3>5, <3>6
  <2> QED BY <2>1, <2>2
<1>3. CASE s.kind = "star"
  <2>1. CASE Is("list", v)
    <3>1. Step(v, s) = v /\ Children(v, s) = v.list
      BY <1>3, <2>1, KindsOfJson DEF Step, Children
    <3> QED BY <1>3, <2>1, <3>1, KindsOfJson DEF Plural
  <2>2. CASE Is("obj", v)
    <3>1. Step(v, s) = ListOf(Values(v.obj)) /\ Children(v, s) = Values(v.obj)
      BY <1>3, <2>2, KindsOfJson DEF Step, Children
    <3> QED BY <1>3, <2>2, <3>1, KindsOfJson DEF Plural
  <2>3. CASE ~Is("list", v) /\ ~Is("obj", v)
    <3>1. Step(v, s) = Null /\ Children(v, s) = <<>>
      BY <1>3, <2>3 DEF Step, Children
    <3> QED BY <1>0, <1>3, <3>1 DEF Plural
  <2> QED BY <2>1, <2>2, <2>3
<1>4. CASE s.kind = "where"
  <2>1. CASE Is("list", v)
    <3> DEFINE kept == Only(v.list, LAMBDA item : Fits(item, s))
    <3>1. Step(v, s) = ListOf(kept) /\ Children(v, s) = kept
      BY <1>4, <2>1 DEF Step, Children
    <3>2. kept \in Seq(Json)
      <4>1. v.list \in Seq(Json)
        BY <2>1, KindsOfJson
      <4> QED BY <4>1, KeptType DEF Only
    <3> HIDE DEF kept
    <3> QED BY <1>4, <3>1, <3>2 DEF Plural
  <2>2. CASE ~Is("list", v)
    <3>1. Step(v, s) = Null /\ Children(v, s) = <<>>
      BY <1>4, <2>2 DEF Step, Children
    <3> QED BY <1>0, <1>4, <3>1 DEF Plural
  <2> QED BY <2>1, <2>2
<1> QED BY <1>1, <1>2, <1>3, <1>4 DEF SegmentKinds

-----------------------------------------------------------------------------
\* v is what a prefix reaches and sel what it selects.
Tracks(v, sel) ==
  /\ sel.many \in BOOLEAN
  /\ sel.many => sel.nodes \in Seq(Json) /\ (v = ListOf(sel.nodes) \/ v = Null)
  /\ ~sel.many => (sel.nodes = <<v>> /\ v \in Json) \/ (sel.nodes = <<>> /\ v = Null)

\* One node, and a segment other than a key that is asked of a list: what is
\* selected next is its children.
LEMMA OnwardOne ==
  ASSUME NEW v \in Json, NEW sel, sel.nodes = <<v>>, sel.many = FALSE, NEW s, s.kind \in SegmentKinds,
         s.kind = "index" => s.at \in Int, ~(s.kind = "key" /\ Is("list", v))
  PROVE  Onward(sel, s).nodes = Children(v, s) /\ Onward(sel, s).many = Plural(s)
<1>1. sel.nodes[1] = v /\ DOMAIN sel.nodes = 1..1
  OBVIOUS
<1>2. Spread(sel, s) = sel
  BY <1>1 DEF Spread
<1> DEFINE c == Children(v, s)
<1>3. [i \in DOMAIN sel.nodes |-> Children(sel.nodes[i], s)] = <<c>>
  <2>1. \A i \in 1..1 : Children(sel.nodes[i], s) = c
    BY <1>1
  <2> HIDE DEF c
  <2>2. [i \in 1..1 |-> Children(sel.nodes[i], s)] = [i \in 1..1 |-> c]
    BY <2>1
  <2>3. [i \in 1..1 |-> c] = <<c>>
    OBVIOUS
  <2> QED BY <1>1, <2>2, <2>3
<1>4. c \in Seq(Json)
  <2>1. CASE Plural(s)
    BY <2>1, OneStep
  <2>2. CASE ~Plural(s)
    <3> DEFINE x == Step(v, s)
    <3>1. (x \in Json /\ c = <<x>>) \/ c = <<>>
      BY <2>2, OneStep
    <3> HIDE DEF x, c
    <3>2. x \in Json => <<x>> \in Seq(Json)
      OBVIOUS
    <3>3. <<>> \in Seq(Json)
      OBVIOUS
    <3> QED BY <3>1, <3>2, <3>3
  <2> QED BY <2>1, <2>2
<1> HIDE DEF c
<1>5. Concat(<<c>>) = c
  BY <1>4, ConcatOne
<1>6. Onward(sel, s) = [nodes |-> Concat([i \in DOMAIN sel.nodes |-> Children(sel.nodes[i], s)]),
                        many |-> sel.many \/ Plural(s)]
  BY <1>2 DEF Onward
<1> QED BY <1>3, <1>5, <1>6 DEF c, Plural

\* Many nodes, and a key: what is selected next is what the key projects to.
LEMMA OnwardItems ==
  ASSUME NEW items \in Seq(Json), NEW sel, NEW s, s.kind = "key",
         Spread(sel, s) = [nodes |-> items, many |-> TRUE]
  PROVE  /\ Onward(sel, s).nodes \in Seq(Json)
         /\ Project(items, s.key) = ListOf(Onward(sel, s).nodes)
         /\ Onward(sel, s).many = TRUE
<1> DEFINE nodes == Concat([i \in DOMAIN items |-> Children(items[i], s)])
<1>1. nodes \in Seq(Json) /\ Project(items, s.key) = ListOf(nodes)
  BY KeyOfItems
<1> DEFINE from == [nodes |-> items, many |-> TRUE]
<1>2. Onward(sel, s) = [nodes |-> nodes, many |-> TRUE]
  <2>1. from.nodes = items /\ from.many = TRUE /\ Spread(sel, s) = from
    OBVIOUS
  <2> HIDE DEF from
  <2>2. Onward(sel, s) = [nodes |-> Concat([i \in DOMAIN from.nodes |-> Children(from.nodes[i], s)]),
                          many |-> from.many \/ Plural(s)]
    BY <2>1 DEF Onward
  <2>3. (from.many \/ Plural(s)) = TRUE
    BY <2>1
  <2> QED BY <2>1, <2>2, <2>3
<1> HIDE DEF nodes
<1> QED BY <1>1, <1>2

\* Where nothing is selected nothing will be.
LEMMA OnwardNone ==
  ASSUME NEW sel, sel.nodes = <<>>, NEW s
  PROVE  Onward(sel, s).nodes = <<>>
<1>1. Spread(sel, s) = sel
  BY DEF Spread
<1>2. [i \in DOMAIN sel.nodes |-> Children(sel.nodes[i], s)] = <<>>
  OBVIOUS
<1> QED BY <1>1, <1>2, ConcatNothing DEF Onward

\* One segment more, and resolve still tracks what is selected.
LEMMA FollowsStep ==
  ASSUME NEW v, NEW sel, sel = [nodes |-> sel.nodes, many |-> sel.many], Tracks(v, sel),
         NEW s, s.kind \in SegmentKinds, s.kind = "index" => s.at \in Int, sel.many => s.kind = "key"
  PROVE  /\ Tracks(Step(v, s), Onward(sel, s))
         /\ Onward(sel, s) = [nodes |-> Onward(sel, s).nodes, many |-> Onward(sel, s).many]
<1>0. Onward(sel, s) = [nodes |-> Onward(sel, s).nodes, many |-> Onward(sel, s).many]
  BY DEF Onward
<1>1. CASE sel.many
  <2>1. s.kind = "key" /\ sel.nodes \in Seq(Json)
    BY <1>1 DEF Tracks
  <2>2. Spread(sel, s) = [nodes |-> sel.nodes, many |-> TRUE]
    BY <1>1 DEF Spread, Tracks
  <2>3. /\ Onward(sel, s).nodes \in Seq(Json)
        /\ Project(sel.nodes, s.key) = ListOf(Onward(sel, s).nodes)
        /\ Onward(sel, s).many = TRUE
    BY <2>1, <2>2, OnwardItems
  <2>4. CASE v = ListOf(sel.nodes)
    <3>1. Is("list", v) /\ v.list = sel.nodes
      BY <2>4 DEF Is, ListOf
    <3>2. Step(v, s) = Project(sel.nodes, s.key)
      BY <2>1, <3>1 DEF Step
    <3> QED BY <1>0, <2>3, <3>2 DEF Tracks
  <2>5. CASE v = Null
    <3>1. Step(v, s) = Null
      BY <2>1, <2>5, NullSteps DEF SegmentKinds
    <3> QED BY <1>0, <2>3, <3>1 DEF Tracks
  <2> QED BY <1>1, <2>4, <2>5 DEF Tracks
<1>2. CASE ~sel.many /\ sel.nodes = <<>> /\ v = Null
  <2>1. Step(v, s) = Null
    BY <1>2, NullSteps
  <2>2. Onward(sel, s).nodes = <<>> /\ <<>> \in Seq(Json)
    BY <1>2, OnwardNone
  <2>3. Onward(sel, s).many \in BOOLEAN
    BY <1>2 DEF Onward, Plural, Spread
  <2> QED BY <1>0, <2>1, <2>2, <2>3 DEF Tracks
<1>3. CASE ~sel.many /\ sel.nodes = <<v>> /\ v \in Json /\ s.kind = "key" /\ Is("list", v)
  <2>1. v.list \in Seq(Json)
    BY <1>3, KindsOfJson
  <2>2. sel.nodes # <<>> /\ sel.nodes[1] = v
    BY <1>3
  <2>3. Spread(sel, s) = [nodes |-> v.list, many |-> TRUE]
    BY <1>3, <2>2 DEF Spread
  <2>4. /\ Onward(sel, s).nodes \in Seq(Json)
        /\ Project(v.list, s.key) = ListOf(Onward(sel, s).nodes)
        /\ Onward(sel, s).many = TRUE
    BY <1>3, <2>1, <2>3, OnwardItems
  <2>5. Step(v, s) = Project(v.list, s.key)
    BY <1>3 DEF Step
  <2> QED BY <1>0, <2>4, <2>5 DEF Tracks
<1>4. CASE ~sel.many /\ sel.nodes = <<v>> /\ v \in Json /\ ~(s.kind = "key" /\ Is("list", v))
  <2>1. sel.many = FALSE
    BY <1>4 DEF Tracks
  <2>2. Onward(sel, s).nodes = Children(v, s) /\ Onward(sel, s).many = Plural(s)
    BY <1>4, <2>1, OnwardOne
  <2>3. Plural(s) \in BOOLEAN
    BY DEF Plural
  <2>4. /\ Plural(s) => /\ Children(v, s) \in Seq(Json)
                        /\ Step(v, s) = ListOf(Children(v, s)) \/ Step(v, s) = Null
        /\ ~Plural(s) => \/ Step(v, s) \in Json /\ Children(v, s) = <<Step(v, s)>>
                         \/ Step(v, s) = Null /\ Children(v, s) = <<>>
    BY <1>4, OneStep
  <2> QED BY <1>0, <2>2, <2>3, <2>4 DEF Tracks
<1> QED BY <1>1, <1>2, <1>3, <1>4 DEF Tracks

\* Segments that are of a kind, and an index that is a number.
AreSegments(ss) ==
  /\ IsList(ss)
  /\ \A i \in DOMAIN ss : ss[i].kind \in SegmentKinds /\ (ss[i].kind = "index" => ss[i].at \in Int)

\* Only keys are asked of many nodes: every prefix reaches what it selects.
LEMMA PathFollows ==
  ASSUME NEW body \in Json, NEW ss, AreSegments(ss),
         \A i \in DOMAIN ss : Selected(body, ss)[i - 1].many => ss[i].kind = "key"
  PROVE  \A n \in 0..Len(ss) : Tracks(Reached(body, ss)[n], Selected(body, ss)[n])
<1> DEFINE v == Reached(body, ss)  sel == Selected(body, ss)
           S == {n \in 0..Len(ss) :
                  /\ Tracks(v[n], sel[n])
                  /\ sel[n] = [nodes |-> sel[n].nodes, many |-> sel[n].many]}
<1>1. Len(ss) \in Nat /\ DOMAIN ss = 1..Len(ss)
  BY ListFacts DEF AreSegments
<1>2. /\ v[0] = body /\ \A n \in 1..Len(ss) : v[n] = Step(v[n - 1], ss[n])
      /\ sel[0] = [nodes |-> <<body>>, many |-> FALSE]
      /\ \A n \in 1..Len(ss) : sel[n] = Onward(sel[n - 1], ss[n])
  <2>1. v[0] = body /\ \A n \in 1..Len(ss) : v[n] = Step(v[n - 1], ss[n])
    BY <1>1, ReachedFacts
  <2>2. /\ sel[0] = [nodes |-> <<body>>, many |-> FALSE]
        /\ \A n \in 1..Len(ss) : sel[n] = Onward(sel[n - 1], ss[n])
    BY <1>1, SelectedFacts, Zenon
  <2> QED BY <2>1, <2>2
<1>3. \A i \in 1..Len(ss) : sel[i - 1].many => ss[i].kind = "key"
  BY <1>1
<1> HIDE DEF v, sel
<1>4. 0 \in S
  <2>1. sel[0].nodes = <<body>> /\ sel[0].many = FALSE
    BY <1>2
  <2>2. sel[0] = [nodes |-> sel[0].nodes, many |-> sel[0].many] /\ v[0] = body
    BY <1>2
  <2>3. Tracks(v[0], sel[0])
    BY <2>1, <2>2 DEF Tracks
  <2>4. 0 \in 0..Len(ss)
    BY <1>1
  <2> QED BY <2>2, <2>3, <2>4
<1>5. ASSUME NEW n \in 0..Len(ss), n \in S, n < Len(ss) PROVE n + 1 \in S
  <2>1. n + 1 \in 1..Len(ss) /\ (n + 1) - 1 = n
    BY <1>1, <1>5
  <2> DEFINE s == ss[n + 1]
  <2>2. v[n + 1] = Step(v[n], s) /\ sel[n + 1] = Onward(sel[n], s)
    BY <1>2, <2>1
  <2>3. s.kind \in SegmentKinds /\ (s.kind = "index" => s.at \in Int) /\ (sel[n].many => s.kind = "key")
    BY <1>1, <1>3, <2>1 DEF AreSegments
  <2> HIDE DEF s
  <2>4. Tracks(v[n], sel[n]) /\ sel[n] = [nodes |-> sel[n].nodes, many |-> sel[n].many]
    BY <1>5
  <2>5. /\ Tracks(Step(v[n], s), Onward(sel[n], s))
        /\ Onward(sel[n], s) = [nodes |-> Onward(sel[n], s).nodes, many |-> Onward(sel[n], s).many]
    BY <2>3, <2>4, FollowsStep
  <2> QED BY <1>1, <2>1, <2>2, <2>5
<1>6. 0..Len(ss) \subseteq S
  <2> HIDE DEF S
  <2> QED BY <1>1, <1>4, <1>5, UpTo
<1> QED BY <1>6 DEF v, sel

\* What exists is one node.
LEMMA ExistsStep ==
  ASSUME NEW v \in Json, NEW sel, sel.many = FALSE, sel.nodes = <<v>>,
         NEW s, s.kind \in SegmentKinds, s.kind = "index" => s.at \in Int, Exists(v, s)
  PROVE  /\ Onward(sel, s).many = FALSE
         /\ Onward(sel, s).nodes = <<Step(v, s)>>
         /\ Step(v, s) \in Json
<1>1. ~(s.kind = "key" /\ Is("list", v))
  <2> SUFFICES ASSUME s.kind = "key" PROVE ~Is("list", v)
    OBVIOUS
  <2>1. Holds(v, s.key)
    BY DEF Exists
  <2> QED BY <2>1, KindsOfJson DEF Holds
<1>2. Plural(s) = FALSE
  BY DEF Plural, Exists
<1>3. Onward(sel, s).nodes = Children(v, s) /\ Onward(sel, s).many = FALSE
  BY <1>1, <1>2, OnwardOne
<1>4. \/ Step(v, s) \in Json /\ Children(v, s) = <<Step(v, s)>>
      \/ Step(v, s) = Null /\ Children(v, s) = <<>>
  BY <1>1, <1>2, OneStep
<1>5. Children(v, s) # <<>>
  <2>1. CASE s.kind = "key"
    <3>1. Holds(v, s.key)
      BY <2>1 DEF Exists
    <3> QED BY <2>1, <3>1 DEF Children
  <2>2. CASE s.kind = "index"
    <3> DEFINE items == v.list  n == s.at
    <3>1. /\ Is("list", v) /\ items \in Seq(Json) /\ Len(items) \in Nat
          /\ n \in Int /\ n \in -Len(items)..(Len(items) - 1)
      BY <2>2, KindsOfJson DEF Exists
    <3>2. /\ n \in 0..(Len(items) - 1) => Children(v, s) = <<items[n + 1]>>
          /\ n \notin 0..(Len(items) - 1) /\ -n \in 1..Len(items) =>
               Children(v, s) = <<items[Len(items) + 1 + n]>>
      <4>1. Is("list", v)
        BY <3>1
      <4> QED BY <2>2, <4>1 DEF Children
    <3> HIDE DEF items, n
    <3>3. n \in 0..(Len(items) - 1) \/ -n \in 1..Len(items)
      BY <3>1
    <3>4. \E x : Children(v, s) = <<x>>
      BY <3>2, <3>3
    <3> QED BY <3>4
  <2> QED BY <2>1, <2>2 DEF Exists
<1> QED BY <1>3, <1>4, <1>5

\* While each segment exists, the prefix reaches and selects one node.
LEMMA PathExists ==
  ASSUME NEW body \in Json, NEW ss, AreSegments(ss),
         \A i \in DOMAIN ss : Exists(Reached(body, ss)[i - 1], ss[i])
  PROVE  \A n \in 0..Len(ss) : /\ Selected(body, ss)[n].many = FALSE
                               /\ Selected(body, ss)[n].nodes = <<Reached(body, ss)[n]>>
<1> DEFINE v == Reached(body, ss)  sel == Selected(body, ss)
           S == {n \in 0..Len(ss) : sel[n].many = FALSE /\ sel[n].nodes = <<v[n]>> /\ v[n] \in Json}
<1>1. Len(ss) \in Nat /\ DOMAIN ss = 1..Len(ss)
  BY ListFacts DEF AreSegments
<1>2. /\ v[0] = body /\ \A n \in 1..Len(ss) : v[n] = Step(v[n - 1], ss[n])
      /\ sel[0] = [nodes |-> <<body>>, many |-> FALSE]
      /\ \A n \in 1..Len(ss) : sel[n] = Onward(sel[n - 1], ss[n])
  <2>1. v[0] = body /\ \A n \in 1..Len(ss) : v[n] = Step(v[n - 1], ss[n])
    BY <1>1, ReachedFacts
  <2>2. /\ sel[0] = [nodes |-> <<body>>, many |-> FALSE]
        /\ \A n \in 1..Len(ss) : sel[n] = Onward(sel[n - 1], ss[n])
    BY <1>1, SelectedFacts, Zenon
  <2> QED BY <2>1, <2>2
<1>3. \A i \in 1..Len(ss) : Exists(v[i - 1], ss[i])
  BY <1>1
<1> HIDE DEF v, sel
<1>4. 0 \in S
  BY <1>1, <1>2
<1>5. ASSUME NEW n \in 0..Len(ss), n \in S, n < Len(ss) PROVE n + 1 \in S
  <2>1. n + 1 \in 1..Len(ss) /\ (n + 1) - 1 = n
    BY <1>1, <1>5
  <2> DEFINE s == ss[n + 1]
  <2>2. v[n + 1] = Step(v[n], s) /\ sel[n + 1] = Onward(sel[n], s)
    BY <1>2, <2>1
  <2>3. s.kind \in SegmentKinds /\ (s.kind = "index" => s.at \in Int) /\ Exists(v[n], s)
    BY <1>1, <1>3, <2>1 DEF AreSegments
  <2> HIDE DEF s
  <2>4. sel[n].many = FALSE /\ sel[n].nodes = <<v[n]>> /\ v[n] \in Json
    BY <1>5
  <2>5. /\ Onward(sel[n], s).many = FALSE
        /\ Onward(sel[n], s).nodes = <<Step(v[n], s)>>
        /\ Step(v[n], s) \in Json
    BY <2>3, <2>4, ExistsStep
  <2> QED BY <1>1, <2>1, <2>2, <2>5
<1>6. 0..Len(ss) \subseteq S
  <2> HIDE DEF S
  <2> QED BY <1>1, <1>4, <1>5, UpTo
<1> QED BY <1>6 DEF v, sel

\* What a filter makes of null is null.
LEMMA NullFilters == ASSUME NEW f PROVE Filter(Null, f) = Null
<1>1. ~Is("list", Null) /\ ~Is("obj", Null) /\ ~Is("str", Null)
  BY DEF Is, Null
<1> QED BY <1>1 DEF Filter

\* What a straight path resolves to is what it means, unless it is broken.
LEMMA ResolveIsMeant ==
  ASSUME NEW body \in Json, NEW path, AreSegments(path.segments), Straight(body, path),
         Resolve(body, path) = Null => NoneIsLegitimate(body, path)
  PROVE  Resolve(body, path) \in Meant(body, path)
<1> DEFINE ss == path.segments  N == Len(ss)
           v == Reached(body, ss)[N]  sel == Selected(body, ss)[N]
<1>1. N \in Nat /\ DOMAIN ss = 1..N /\ N \in 0..N
  BY ListFacts DEF AreSegments
<1>2. Segments(path) = ss
  BY DEF Segments, Straight
<1>3. Resolve(body, path) = IF v = Null THEN Null ELSE Filter(v, path.filter)
  BY <1>2 DEF Resolve
<1>4. Tracks(v, sel)
  <2>1. \A i \in DOMAIN ss : Selected(body, ss)[i - 1].many => ss[i].kind = "key"
    BY DEF Straight
  <2> QED BY <1>1, <2>1, PathFollows
<1>5. /\ sel.many => Meant(body, path) = {Filter(ListOf(sel.nodes), path.filter)}
      /\ ~sel.many => Meant(body, path) = {Filter(sel.nodes[i], path.filter) : i \in DOMAIN sel.nodes}
  BY DEF Meant
<1>6. CASE Resolve(body, path) = Null
  <2>1. \A i \in DOMAIN ss : Exists(Reached(body, ss)[i - 1], ss[i])
    BY <1>2, <1>6 DEF NoneIsLegitimate
  <2>2. v = Null
    BY <1>2, <1>6 DEF NoneIsLegitimate
  <2>3. sel.many = FALSE /\ sel.nodes = <<v>>
    BY <1>1, <2>1, PathExists
  <2> HIDE DEF v, sel
  <2>4. 1 \in DOMAIN sel.nodes /\ sel.nodes[1] = v
    BY <2>3
  <2>5. Filter(v, path.filter) \in Meant(body, path)
    BY <1>5, <2>3, <2>4
  <2> QED BY <1>6, <2>2, <2>5, NullFilters
<1>7. CASE Resolve(body, path) # Null
  <2>1. v # Null /\ Resolve(body, path) = Filter(v, path.filter)
    BY <1>3, <1>7
  <2> HIDE DEF v, sel
  <2>2. CASE sel.many
    BY <1>4, <1>5, <2>1, <2>2 DEF Tracks
  <2>3. CASE ~sel.many
    <3>1. sel.nodes = <<v>>
      BY <1>4, <2>1, <2>3 DEF Tracks
    <3>2. 1 \in DOMAIN sel.nodes /\ sel.nodes[1] = v
      BY <3>1
    <3> QED BY <1>5, <2>1, <2>3, <3>2
  <2> QED BY <2>2, <2>3
<1> QED BY <1>6, <1>7

\* A result in history has a value for its body.
LEMMA ResultBodies ==
  ASSUME IsHistory(history)
  PROVE  /\ Len(AllBlocks) \in Nat /\ DOMAIN AllBlocks = 1..Len(AllBlocks)
         /\ \A i \in DOMAIN AllBlocks :
              AllBlocks[i].type = "tool_result" => AllBlocks[i].body \in Json
<1> DEFINE bs == [i \in DOMAIN history |-> history[i].blocks]  c == Concat(bs)
<1>1. Len(history) \in Nat /\ DOMAIN history = 1..Len(history)
  BY ListFacts DEF IsHistory
<1>2. DOMAIN bs = 1..Len(history) /\ bs = [i \in 1..Len(history) |-> bs[i]]
      /\ \A i \in 1..Len(history) : bs[i] = history[i].blocks
  BY <1>1
<1>3. AllBlocks = c
  BY DEF AllBlocks
<1> HIDE DEF bs
<1>4. IsList(bs) /\ Len(bs) = Len(history)
  BY <1>1, <1>2, ListOfFunction
<1>5. ASSUME NEW i \in 1..Len(history)
      PROVE  /\ IsList(bs[i])
             /\ \A k \in 1..Len(bs[i]) : bs[i][k].type = "tool_result" => bs[i][k].body \in Json
  <2> DEFINE m == history[i]
  <2>1. bs[i] = m.blocks
    BY <1>2
  <2>2. IsReply(m) \/ IsQuestion(m) \/ \E uses : IsAnswer(m, uses)
    BY DEF IsHistory
  <2> HIDE DEF m
  <2>3. CASE IsReply(m)
    <3>1. PICK t \in {0, 1} :
            /\ t = 1 => m.blocks[1].type = "text"
            /\ \A k \in (t + 1)..Len(m.blocks) : m.blocks[k].type = "tool_use"
      BY <2>3 DEF IsReply
    <3>2. IsList(m.blocks) /\ Len(m.blocks) \in Nat
      BY <2>3, ListFacts DEF IsReply
    <3>3. ASSUME NEW k \in 1..Len(m.blocks) PROVE (t = 1 /\ k = 1) \/ k \in (t + 1)..Len(m.blocks)
      BY <3>2
    <3>4. \A k \in 1..Len(m.blocks) : m.blocks[k].type \in {"text", "tool_use"}
      BY <3>1, <3>3
    <3> QED BY <2>1, <3>2, <3>4
  <2>4. CASE IsQuestion(m)
    <3>1. IsList(m.blocks) /\ Len(m.blocks) = 1 /\ m.blocks[1].type = "text"
      BY <2>4, QuestionTypes
    <3> QED BY <2>1, <3>1
  <2>5. CASE \E uses : IsAnswer(m, uses)
    BY <2>1, <2>5 DEF IsAnswer
  <2> QED BY <2>2, <2>3, <2>4, <2>5
<1>6. PICK D : bs \in Seq(Seq(D))
  BY <1>2, <1>4, <1>5, ListOfLists
<1> HIDE DEF c
<1>7. c \in Seq(D) /\ \E ends : AreJoined(c, bs, ends)
  BY <1>6, ConcatFacts DEF c
<1>8. PICK ends : AreJoined(c, bs, ends)
  BY <1>7
<1>9. Len(c) \in Nat /\ DOMAIN c = 1..Len(c)
  BY <1>7
<1>10. ASSUME NEW p \in 1..Len(c), c[p].type = "tool_result" PROVE c[p].body \in Json
  <2>1. PICK n \in 1..Len(bs) : \E k \in 1..Len(bs[n]) : p = ends[n - 1] + k
    BY <1>8 DEF AreJoined
  <2>2. PICK k \in 1..Len(bs[n]) : p = ends[n - 1] + k
    BY <2>1
  <2>3. c[p] = bs[n][k]
    BY <1>8, <2>2 DEF AreJoined
  <2> QED BY <1>4, <1>5, <1>10, <2>3
<1> QED BY <1>3, <1>9, <1>10

\* A result with an id, when there is one.
LEMMA OneResult ==
  ASSUME IsHistory(history), NEW id, Len(ResultsWith(AllBlocks, id)) = 1
  PROVE  /\ ResultsWith(AllBlocks, id)[1].body \in Json
         /\ ResultOf(AllBlocks, id) = {ResultsWith(AllBlocks, id)[1].body}
<1> DEFINE I == {i \in DOMAIN AllBlocks : AllBlocks[i].type = "tool_result" /\ AllBlocks[i].id = id}
           rs == ResultsWith(AllBlocks, id)
           N == Len(AllBlocks)
<1>1. rs = Pick(AllBlocks, I)
  BY DEF ResultsWith, Only
<1>2. N \in Nat /\ I \in SUBSET (1..N) /\ \A i \in I : AllBlocks[i].body \in Json
  BY ResultBodies
<1>3. IsFiniteSet(I) /\ I \in SUBSET Int
  <2> DEFINE n == N
  <2>0. n \in Nat /\ I \in SUBSET (1..n) /\ 1 \in Int /\ n \in Int
    BY <1>2
  <2> HIDE DEF n, N, I
  <2>1. IsFiniteSet(1..n)
    BY <2>0, FS_Interval
  <2>2. IsFiniteSet(I)
    BY <2>0, <2>1, FS_Subset
  <2>3. I \in SUBSET Int
    BY <2>0
  <2> QED BY <2>2, <2>3
<1> HIDE DEF I, rs
<1>5. /\ Len(rs) = Cardinality(I)
      /\ \A k \in 1..Cardinality(I) : Nth(I, k) \in I /\ rs[k] = AllBlocks[Nth(I, k)]
  <2>1. \A i \in I : AllBlocks[i] \in {AllBlocks[j] : j \in I}
    OBVIOUS
  <2>2. /\ Len(Pick(AllBlocks, I)) = Cardinality(I)
        /\ \A k \in 1..Cardinality(I) : Nth(I, k) \in I /\ Pick(AllBlocks, I)[k] = AllBlocks[Nth(I, k)]
    BY <1>3, <2>1, PickFacts, Zenon
  <2> QED BY <1>1, <2>2
<1>6. Len(rs) = 1
  BY DEF rs
<1>7. rs[1].body \in Json
  <2>1. 1 \in 1..Cardinality(I)
    BY <1>5, <1>6
  <2>2. Nth(I, 1) \in I /\ rs[1] = AllBlocks[Nth(I, 1)]
    BY <1>5, <2>1
  <2> QED BY <1>2, <2>2
<1>8. rs # <<>>
  BY <1>6
<1>9. ResultOf(AllBlocks, id) = {rs[1].body}
  BY <1>6, <1>8 DEF ResultOf, rs
<1> QED BY <1>7, <1>9 DEF rs

\* When validation passes by its citations, none of them is at fault.
LEMMA PassingCitations ==
  ASSUME NEW mode \in {"citation", "hybrid"}, NEW strictness, NEW text, NEW blocks, NEW auditor,
         Validate(mode, strictness, text, blocks, auditor).passed, NEW c \in ParseCitations(text)
  PROVE  Issue(blocks, c) = "none" \/ Severity(Issue(blocks, c)) # "error"
<1> DEFINE cites == IF mode = "audit" THEN {} ELSE ParseCitations(text)
           issues == {Issue(blocks, x) : x \in cites} \ {"none"}
           found == {Severity(i) : i \in issues}
           audits == \/ mode = "audit"
                     \/ /\ mode = "hybrid"
                        /\ "error" \in found \/ (strictness = "strict" /\ cites = {} /\ text # <<>>)
<1>1. Validate(mode, strictness, text, blocks, auditor) =
        [passed |-> "error" \notin Severities(mode, found, audits, auditor),
         issues |-> issues, audited |-> audits]
  BY DEF Validate
<1>2. c \in cites
  OBVIOUS
<1> HIDE DEF cites, audits
<1>3. "error" \notin found
  <2> HIDE DEF found, issues
  <2> DEFINE right == "error" \notin Severities(mode, found, audits, auditor)
  <2>0. Validate(mode, strictness, text, blocks, auditor) =
          [passed |-> right, issues |-> issues, audited |-> audits]
    BY <1>1
  <2> HIDE DEF right
  <2>1. right
    <3> SUFFICES ASSUME ~right PROVE FALSE
      OBVIOUS
    <3>1. right = FALSE
      BY DEF right
    <3>2. Validate(mode, strictness, text, blocks, auditor) =
            [passed |-> FALSE, issues |-> issues, audited |-> audits]
      BY <2>0, <3>1
    <3> QED BY <3>2
  <2> QED BY <2>1 DEF Severities, right
<1>4. Issue(blocks, c) \in issues \/ Issue(blocks, c) = "none"
  BY <1>2
<1> HIDE DEF issues
<1> QED BY <1>3, <1>4

\* A citation that was found right of a structured result is true.
LEMMA RightIsTrue ==
  ASSUME NEW body \in Json, NEW c, ~Is("text", body), AreSegments(c.path.segments), Straight(body, c.path),
         IssueIn(body, c) = "none" \/ Severity(IssueIn(body, c)) # "error"
  PROVE  IsTrue(c, body)
<1> DEFINE v == Resolve(body, c.path)
<1>1. IssueIn(body, c) = IF v = Null /\ ~NoneIsLegitimate(body, c.path) THEN "broken_citation"
                         ELSE IF ValuesMatch(c.shown, v) THEN "none" ELSE "value_mismatch"
  BY DEF IssueIn
<1> HIDE DEF v
<1>2. ~(v = Null /\ ~NoneIsLegitimate(body, c.path)) /\ ValuesMatch(c.shown, v)
  BY <1>1 DEF Severity
<1>3. v \in Meant(body, c.path)
  BY <1>2, ResolveIsMeant DEF v
<1> QED BY <1>2, <1>3 DEF IsTrue

\* A verdict that passed found no citation at fault, and those behind a
\* straight path to a structured result are true.
LEMMA InvIsTrue == GroundedInv => PassedIsTrue
<1> SUFFICES ASSUME GroundedInv, stage = "done", verdict.passed, settings.mode \in {"citation", "hybrid"},
                    NEW c \in ParseCitations(reply.text)
             PROVE  /\ ResultsWith(AllBlocks, c.tu) # <<>>
                    /\ Len(ResultsWith(AllBlocks, c.tu)) = 1
                       /\ ~Is("text", ResultsWith(AllBlocks, c.tu)[1].body)
                       /\ Straight(ResultsWith(AllBlocks, c.tu)[1].body, c.path)
                       => IsTrue(c, ResultsWith(AllBlocks, c.tu)[1].body)
  BY DEF PassedIsTrue
<1>1. IsHistory(history) /\ collector.text = reply.text /\ ReplyInv
  BY DEF GroundedInv, Judged, WholeInv
<1>2. PICK auditor \in AuditorReplies :
        verdict = Validate(settings.mode, settings.strictness, collector.text, AllBlocks, auditor)
  BY DEF GroundedInv, Judged
<1>3. Issue(AllBlocks, c) = "none" \/ Severity(Issue(AllBlocks, c)) # "error"
  BY <1>1, <1>2, PassingCitations
<1>4. ResultOf(AllBlocks, c.tu) # {}
  BY <1>3 DEF Issue, Severity
<1>5. ResultsWith(AllBlocks, c.tu) # <<>>
  BY <1>4 DEF ResultOf
<1>6. ASSUME Len(ResultsWith(AllBlocks, c.tu)) = 1,
             ~Is("text", ResultsWith(AllBlocks, c.tu)[1].body),
             Straight(ResultsWith(AllBlocks, c.tu)[1].body, c.path)
      PROVE  IsTrue(c, ResultsWith(AllBlocks, c.tu)[1].body)
  <2> DEFINE body == ResultsWith(AllBlocks, c.tu)[1].body
  <2>1. body \in Json /\ ResultOf(AllBlocks, c.tu) = {body}
    BY <1>1, <1>6, OneResult
  <2>2. ~Is("text", body) /\ Straight(body, c.path)
    BY <1>6
  <2> HIDE DEF body
  <2>3. Issue(AllBlocks, c) = IssueIn(body, c)
    BY <2>1 DEF Issue
  <2>4. c.path \in Paths
    BY <1>1 DEF ParseCitations, ReplyInv
  <2>5. AreSegments(c.path.segments)
    BY <2>4, PathsAssumption DEF AreSegments, SegmentKinds
  <2>6. IsTrue(c, body)
    BY <1>3, <2>1, <2>2, <2>3, <2>5, RightIsTrue
  <2> QED BY <2>6 DEF body
<1> QED BY <1>5, <1>6

\* An answer that passes by its citations says what the tools returned: the
\* value shown next to a citation with a straight path into a structured result
\* is the one that the path selects there (ResponseValidator.validate,
\* resolve).
THEOREM PassedIsTrueHolds == GroundedSpec => []PassedIsTrue
  BY InvIsTrue, GroundedInvariant, PTL

=============================================================================
