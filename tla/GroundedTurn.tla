---------------------------- MODULE GroundedTurn ---------------------------
(***************************************************************************)
(* What a turn of run_agent carries from the model to the tools, back to   *)
(* the model, and into the answer that validation judges, with any of the  *)
(* four providers: ModelStream brings each reply into history chunk by     *)
(* chunk, ProviderMessages makes the next request of it, and Validation    *)
(* looks the citations of the answer up in the results.                    *)
(*                                                                         *)
(* The conversation store, the gate and the client are AgentTurn's, the    *)
(* other half of the same loop: the names here are other ones, so that     *)
(* both can be taken together.                                             *)
(***************************************************************************)
EXTENDS ModelStream, ProviderMessages, Validation

CONSTANTS
  ToolReplies,   \* replies with tool calls, without ids
  AnswerTexts,   \* texts of other replies, without citations
  Paths,         \* paths that a citation may have
  Shown,         \* texts that it may display
  Json,          \* the values that tools return, and their parts
  Outcomes,      \* what a tool may answer: [body, failed]
  Settings,      \* configurations: [caching, mode, strictness]
  MaxRevisions,  \* max_validation_retries
  MaxToolUses,   \* bound on the calls of a turn
  MaxAsks,       \* bound on the requests of a turn, max_tool_iterations aside
  MaxCitations   \* bound on the citations of a turn

IsList(s) == s \in Seq({s[i] : i \in DOMAIN s})
IsText(t) == IsList(t) /\ \A i \in DOMAIN t : ~Is("cite", t[i])

ASSUME RepliesAssumption ==
  /\ \A t \in AnswerTexts : IsText(t)
  /\ \A r \in ToolReplies :
       /\ IsText(r.text)
       /\ IsList(r.calls) /\ \A i \in DOMAIN r.calls : IsList(r.calls[i].input)
       /\ r.stop \in {"tool_use", "end_turn", "max_tokens", "content_filter"}

ASSUME PathsAssumption ==
  \A path \in Paths :
    /\ IsList(path.segments)
    /\ \A i \in DOMAIN path.segments :
         /\ path.segments[i].kind \in {"key", "quoted", "index", "star", "where"}
         /\ path.segments[i].kind = "index" => path.segments[i].at \in Int

\* Lists and objects are finite, and a list or a null is nothing else.
ASSUME JsonAssumption ==
  /\ \A o \in Outcomes : o.body \in Json
  /\ \A v \in Json :
       /\ Is("list", v) => v = ListOf(v.list) /\ v.list \in Seq(Json)
       /\ Is("obj", v) => IsFiniteSet(DOMAIN v.obj) /\ \A k \in DOMAIN v.obj : v.obj[k] \in Json
       /\ Is("null", v) => v = Null

VARIABLES
  settings,
  stage,      \* "ask", "stream", "tools", "judge", "done" or "raised"
  history,
  request,    \* the last request
  rounds,     \* requests so far
  cited,      \* citations so far
  revisions,  \* retries_remaining
  verdict     \* the last ValidationResult

chosen == <<provider, settings>>
stream == <<flow, adapter, collector>>
groundedVars ==
  <<chosen, stage, history, request, reply, stream, rounds, cited, revisions, verdict>>

NoVerdict == [passed |-> FALSE, issues |-> {}, audited |-> FALSE]

\* What the model may reply: calls, with ids that are the provider's, or a
\* text that may cite a result, or an id that there is none of.
Answer(text) == [text |-> text, calls |-> <<>>, stop |-> "end_turn"]

GroundedInit ==
  /\ provider \in Providers /\ settings \in Settings
  /\ stage = "ask"
  /\ history = <<HistoryMessage("user", <<TextBlock(<<>>)>>)>>
  /\ request = [messages |-> <<>>, cached |-> {}]
  /\ reply = Answer(<<>>)
  /\ flow = NewFlow(reply) /\ adapter = NewAdapter /\ collector = NewCollector
  /\ rounds = 0 /\ cited = 0 /\ revisions = MaxRevisions
  /\ verdict = NoVerdict

AllBlocks == Concat([i \in DOMAIN history |-> history[i].blocks])
Called == Only(AllBlocks, LAMBDA b : b.type = "tool_use")
ResultIds == {AllBlocks[i].id : i \in {i \in DOMAIN AllBlocks : AllBlocks[i].type = "tool_result"}}

-----------------------------------------------------------------------------
Calling(r) ==
  [text |-> r.text, stop |-> r.stop,
   calls |-> [i \in DOMAIN r.calls |->
     [id |-> <<"tu", rounds, i>>, name |-> r.calls[i].name,
      input |-> r.calls[i].input, whole |-> r.calls[i].whole]]]

Replies ==
  {Calling(r) : r \in {r \in ToolReplies :
     Len(Called) + Len(r.calls) <= MaxToolUses /\ rounds + 1 < MaxAsks}}
  \cup {Answer(text) : text \in AnswerTexts}

Citing ==
  /\ cited < MaxCitations /\ ResultIds # {}
  /\ \E id \in ResultIds \cup {<<"unknown">>}, path \in Paths, shown \in Shown :
       reply' = Answer(<<[cite |-> [tu |-> id, path |-> path]], [displays |-> shown]>>)
  /\ cited' = cited + 1

\* stream_turn: the request is made, and the stream opened.
Ask ==
  /\ stage = "ask" /\ rounds < MaxAsks
  /\ request' = Request(provider, settings.caching, history)
  /\ \/ reply' \in Replies /\ UNCHANGED cited
     \/ Citing
  /\ flow' = NewFlow(reply')
  /\ adapter' = NewAdapter /\ collector' = NewCollector
  /\ rounds' = rounds + 1
  /\ stage' = "stream"
  /\ UNCHANGED <<chosen, history, revisions, verdict>>

Chunk ==
  /\ stage = "stream"
  /\ \/ TextBegins \/ TextArrives \/ CallBegins \/ InputArrives \/ BlockEnds
     \/ PartArrives \/ StopArrives \/ AdapterEnds
  /\ UNCHANGED <<chosen, stage, history, request, reply, rounds, cited, revisions, verdict>>

\* The stream raises: the turn ends, and nothing of the reply is kept.
Break ==
  /\ stage = "stream"
  /\ stage' = "raised"
  /\ UNCHANGED <<chosen, history, request, reply, stream, rounds, cited, revisions, verdict>>

\* The message of what was heard.
Spoken(heard) ==
  HistoryMessage("assistant",
    (IF heard.text = <<>> THEN <<>> ELSE <<TextBlock(heard.text)>>)
    \o MapSeq(OrderedToolUses(heard), LAMBDA u : ToolUse(u.id, u.name, u.input)))

\* The assistant message, and whether its calls are dispatched.
StreamEnds ==
  /\ stage = "stream" /\ Drained
  /\ collector' = CollectAll(collector, Trailer(adapter))
  /\ history' = Append(history, Spoken(collector'))
  /\ stage' = IF collector'.stop = "tool_use" /\ OrderedToolUses(collector') # <<>>
              THEN "tools" ELSE "judge"
  /\ UNCHANGED <<chosen, request, reply, flow, adapter, rounds, cited, revisions, verdict>>

\* Every call of the message is answered, in their order.
ToolsAnswer ==
  /\ stage = "tools"
  /\ LET uses == OfType(history[Len(history)], "tool_use")
     IN \E outcomes \in [DOMAIN uses -> Outcomes] :
          history' = Append(history, HistoryMessage("user", [i \in DOMAIN uses |->
            ToolResult(uses[i].id, outcomes[i].body, outcomes[i].failed)]))
  /\ stage' = "ask"
  /\ UNCHANGED <<chosen, request, reply, stream, rounds, cited, revisions, verdict>>

Unvalidated ==
  /\ stage = "judge" /\ settings.mode = "off"
  /\ stage' = "done"
  /\ UNCHANGED <<chosen, history, request, reply, stream, rounds, cited, revisions, verdict>>

\* run_validation, and the feedback that asks for another answer.
Judge ==
  /\ stage = "judge" /\ settings.mode # "off"
  /\ \E auditor \in AuditorReplies :
       verdict' = Validate(settings.mode, settings.strictness, collector.text, AllBlocks, auditor)
  /\ IF verdict'.passed \/ revisions = 0
     THEN stage' = "done" /\ UNCHANGED <<history, revisions>>
     ELSE /\ stage' = "ask" /\ revisions' = revisions - 1
          /\ history' = Append(history, HistoryMessage("user", <<TextBlock(<<>>)>>))
  /\ UNCHANGED <<chosen, request, reply, stream, rounds, cited>>

GroundedNext == Ask \/ Chunk \/ Break \/ StreamEnds \/ ToolsAnswer \/ Unvalidated \/ Judge

GroundedSpec == GroundedInit /\ [][GroundedNext]_groundedVars

-----------------------------------------------------------------------------
\* When a reply is in history, it is what the provider sent: the whole text,
\* and each call under its index with its name, its input and an id of its
\* own.  Calls are handed to tools when, and only when, the reply ended as one
\* that calls tools; Gemini's always do.
RepliesArriveWhole ==
  stage \in {"tools", "judge"} =>
    LET message == history[Len(history)]
        uses == OfType(message, "tool_use")
        texts == OfType(message, "text")
    IN /\ reply.text = IF texts = <<>> THEN <<>> ELSE texts[1].text
       /\ Len(uses) = Len(Sent)
       /\ \A i \in DOMAIN uses :
            /\ uses[i].name = Sent[i].name /\ uses[i].input = Sent[i].input
            /\ uses[i].id = Sent[i].id \/ provider = "gemini"
            /\ \A k \in DOMAIN uses : uses[k].id = uses[i].id => k = i
       /\ stage = "tools" <=> uses # <<>> /\ (provider = "gemini" \/ reply.stop = "tool_use")

\* A reply that was cut off in its calls leaves them without results.
CutOff ==
  \E i \in 1..(Len(history) - 1) :
    /\ OfType(history[i], "tool_use") # <<>>
    /\ OfType(history[i + 1], "tool_result") = <<>>

\* A reply without text and calls is a message without blocks.
Silent == \E i \in DOMAIN history : history[i].blocks = <<>>

\* Every request is one that its provider accepts, unless a reply was cut off
\* in its calls, or empty: each call has its result, no message is empty, and
\* the cached prefix ends right before the message in flight.
RequestsAreAcceptable ==
  stage = "stream" /\ ~CutOff /\ ~Silent =>
    /\ \A i \in DOMAIN request.messages :
         /\ AreCalls(request.messages, i) => PairedAt(request.messages, i)
         /\ request.messages[i].parts # <<>>
    /\ request.cached =
         IF settings.caching /\ provider \in {"anthropic", "bedrock"} /\ Len(history) > 1
         THEN {Len(history) - 1} ELSE {}

\* An answer that passed by its citations says what the tools returned: each
\* citation of what the model sent names a result of this turn, and what it
\* displays is what its path means there.  Free text only warns, and nothing
\* is said of paths that are not straight, or of an id that two calls share.
PassedIsTrue ==
  stage = "done" /\ verdict.passed /\ settings.mode \in {"citation", "hybrid"} =>
    \A c \in ParseCitations(reply.text) :
      LET results == ResultsWith(AllBlocks, c.tu)
      IN /\ results # <<>>
         /\ Len(results) = 1 /\ ~Is("text", results[1].body) /\ Straight(results[1].body, c.path)
            => IsTrue(c, results[1].body)
=============================================================================
