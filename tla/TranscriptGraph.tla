-------------------------- MODULE TranscriptGraph --------------------------
(***************************************************************************)
(* The diagrams workflows/graph.py draws of a recorded run: a flowchart of *)
(* its events, a sequence diagram between workflow and user, and a Gantt   *)
(* chart of its timestamps.  They are functions of the transcript; here    *)
(* they are drawn of the transcripts a WorkflowRun can leave, at any step  *)
(* of it.  Labels are left out.                                            *)
(***************************************************************************)
EXTENDS WorkflowRun

CONSTANT Stampings   \* choices of event number -> timestamp, NoStamp if unusable

NoStamp == 0
Started == 100       \* the header's started_at

\* The clock does not go back behind the start of the run.
ASSUME StampingsAssumption ==
  /\ Stampings \subseteq [1..(MaxEvents + 2) -> Nat]
  /\ \A stamp \in Stampings : \A i \in 1..(MaxEvents + 2) :
       stamp[i] # NoStamp => stamp[i] >= Started

-----------------------------------------------------------------------------
\* Flowchart: node 0 is the header, node i the i-th event.  An edge is
\* <<from, to, it is labelled with a decision>>.
Header == 0
NoNode == -1
EmptyChart == [edges |-> {}, prev |-> Header, pending |-> NoNode]

\* Faulty variant: a resolution hangs off its request, the chart goes on from
\* the request.
DrawAside(chart, i, type) ==
  LET resolves == type = "resolved" /\ chart.pending # NoNode
      from == IF resolves THEN chart.pending ELSE chart.prev
  IN [edges   |-> chart.edges \cup {<<from, i, resolves>>},
      prev    |-> from,
      pending |-> IF type = "request" THEN i ELSE chart.pending]

\* A resolution is joined to the request it answers by an edge that carries
\* the decision; any other event to the one drawn before it.
DrawEvent(chart, i, type) ==
  LET resolves == type = "resolved" /\ chart.pending # NoNode
  IN [edges   |-> chart.edges \cup
                    {<<IF resolves THEN chart.pending ELSE chart.prev, i, resolves>>},
      prev    |-> i,
      pending |-> IF type = "request" THEN i
                  ELSE IF resolves THEN NoNode ELSE chart.pending]

Shape(type) ==
  CASE type = "result"  -> "stadium"
    [] type = "error"   -> "slanted"
    [] type = "request" -> "diamond"
    [] OTHER            -> "box"

Colour(events) ==
  LET last == IF events = <<>> THEN None ELSE events[Len(events)] IN
  CASE last = "result" -> "ok"
    [] last = "error"  -> "err"
    [] OTHER           -> None

Flowchart(events) ==
  LET chart[i \in 0..Len(events)] ==
        IF i = 0 THEN EmptyChart ELSE DrawEvent(chart[i - 1], i, events[i])
  IN [edges  |-> chart[Len(events)].edges,
      shapes |-> [i \in 1..Len(events) |-> Shape(events[i])],
      colour |-> Colour(events)]

-----------------------------------------------------------------------------
\* Sequence diagram: one arrow for each event, and a note on the footer.
Arrow(type) == IF type = "resolved" THEN <<"user", "workflow">>
                                    ELSE <<"workflow", "user">>

SequenceDiagram(events, foot) ==
  [arrows |-> [i \in 1..Len(events) |-> Arrow(events[i])],
   note   |-> foot]

-----------------------------------------------------------------------------
\* Gantt chart: one bar for each event with a usable timestamp, from it to the
\* next one.
Section(type) ==
  CASE type \in {"request", "resolved"} -> "Confirmation"
    [] type \in Terminal                -> "Outcome"
    [] OTHER                            -> "Active"

\* A section line is written the first time its section occurs only: a later
\* bar falls under whichever was written last.
Place(chart, bar) ==
  LET own == Section(bar.type)
      under == IF own \in chart.seen THEN chart.under ELSE own
  IN [seen  |-> chart.seen \cup {own},
      under |-> under,
      bars  |-> Append(chart.bars, [event |-> bar.event, from |-> bar.from,
                                    to |-> bar.to, under |-> under])]

\* The events with a usable timestamp, in order.
Stamped(events, stamp) ==
  LET drawn[i \in 0..Len(events)] ==
        IF i = 0 THEN <<>>
        ELSE IF stamp[i] # NoStamp THEN Append(drawn[i - 1], i) ELSE drawn[i - 1]
  IN drawn[Len(events)]

\* The last bar runs to the footer's stamp, or to its own; a bar that would
\* have no length gets a sliver of the run's.
Bar(events, stamp, ended, drawn, k) ==
  LET n == Len(drawn)
      from == stamp[drawn[k]]
      end == IF ended # NoStamp THEN ended ELSE stamp[drawn[n]]
      next == IF k < n THEN stamp[drawn[k + 1]] ELSE end
  IN [event |-> drawn[k],
      type  |-> events[drawn[k]],
      from  |-> from,
      to    |-> IF next > from THEN next ELSE from + (end - Started) \div (10 * n)]

Gantt(events, stamp, ended) ==
  LET drawn == Stamped(events, stamp)
      bar == [k \in 1..Len(drawn) |-> Bar(events, stamp, ended, drawn, k)]
      chart[k \in 0..Len(drawn)] ==
        IF k = 0 THEN [seen |-> {}, under |-> None, bars |-> <<>>]
        ELSE Place(chart[k - 1], bar[k])
  IN chart[Len(drawn)].bars

-----------------------------------------------------------------------------
\* The flowchart is the run: one path from the header through every event, the
\* decision on the edge into each resolution and on no other.
IsThePath(chart, events) ==
  chart.edges = {<<i - 1, i, events[i] = "resolved">> : i \in 1..Len(events)}

\* The bars leave out no stamped event and no moment between the first of them
\* and the end of the last.
IsTheTimeline(bars, events, stamp) ==
  /\ {bars[k].event : k \in DOMAIN bars} = {i \in 1..Len(events) : stamp[i] # NoStamp}
  /\ \A k \in DOMAIN bars :
       /\ bars[k].from <= bars[k].to
       /\ k < Len(bars) => bars[k].to >= bars[k + 1].from

\* Drawn at any moment of a run, whatever crashed or was cancelled, the
\* diagrams show what happened: the drawing pairs each decision with the pause
\* it ended though it only remembers the last request, colours success exactly
\* the runs that returned and are recorded in full, lets the user speak once
\* for each decision, and has a bar for all the time the stamps account for.
DiagramsTellTheRun ==
  /\ IsThePath(Flowchart(log), log)
  /\ Flowchart(log).colour = "ok" <=> body = "returned" /\ log = emitted
  /\ LET spoken == SequenceDiagram(log, footer)
     IN /\ spoken.note = "result" => Flowchart(log).colour = "ok"
        /\ \A i \in DOMAIN log : spoken.arrows[i][1] = "user" =>
             i > 1 /\ Flowchart(log).shapes[i - 1] = "diamond"
  /\ \A stamp \in Stampings :
       LET ended == IF footer = None THEN NoStamp ELSE 900
       IN IsTheTimeline(Gantt(log, stamp, ended), log, stamp)
=============================================================================
