----------------------------- MODULE AgentTurn -----------------------------
(***************************************************************************)
(* One user turn of run_agent: the messages it appends to history, their   *)
(* mirror in the conversation store, the rounds with the model, the tool   *)
(* calls of each round, and the validation retries around them.            *)
(*                                                                         *)
(* The client may leave at any yield or await.  A store call that is       *)
(* cancelled goes on in its thread and may still take effect.  What a      *)
(* gated call waits for is ConfirmationGate, what a workflow call does is  *)
(* WorkflowRun: here a call is declined, answered in place, or acts.       *)
(***************************************************************************)
EXTENDS Integers, Sequences

CONSTANTS
  MaxIterations,   \* config.max_tool_iterations
  MaxRetries,      \* config.max_validation_retries
  MaxCalls         \* bound on the tool calls of one assistant message

ASSUME BoundsAssumption ==
  MaxIterations \in Nat /\ MaxRetries \in Nat /\ MaxCalls \in Nat

VARIABLES
  persist,      \* a conversation store and an id are configured
  validating,   \* validation_mode is not "off"
  pc,           \* what the turn does or awaits, see Places
  said,         \* the messages this turn appended to history
  store,        \* those of them in the conversation store
  orphan,       \* an append whose caller was cancelled while a thread ran it
  iteration,    \* rounds behind it since the loop was last entered
  retries,      \* retries_remaining
  asked,        \* calls of provider.stream_turn
  at,           \* the call being handled
  answers,      \* tool_result_content: the calls answered so far
  acted,        \* calls handed to a tool, as <<message, call>>
  ending        \* None, "complete" (turn_complete sent), "raised" or "left"

vars == <<persist, validating, pc, said, store, orphan, iteration, retries,
          asked, at, answers, acted, ending>>

None == "none"

Places == {"record",      \* awaiting conversation_store.append
           "recorded",    \* in the store, or nothing to store
           "ask",         \* in provider.stream_turn
           "call",        \* about to handle call number at
           "tool",        \* awaiting a tool
           "judge",       \* the model is done: validate
           "exhausted",   \* max_tool_iterations reached
           "done"}

StopReasons == {"tool_use", "other"}
Kinds == {"user", "assistant", "results", "feedback"}
Messages == [kind : Kinds, calls : Seq(Nat), stop : StopReasons]

\* The calls of an assistant message, or the calls that a results message
\* answers; the stop reason is the provider's.
Message(kind, calls, stop) == [kind |-> kind, calls |-> calls, stop |-> stop]
Text(kind) == Message(kind, <<>>, "other")

Last == said[Len(said)]

TypeOK ==
  /\ persist \in BOOLEAN /\ validating \in BOOLEAN
  /\ pc \in Places
  /\ said \in Seq(Messages)
  /\ store \in Seq(Messages)
  /\ orphan \in BOOLEAN
  /\ iteration \in 0..MaxIterations
  /\ retries \in 0..MaxRetries
  /\ asked \in Nat
  /\ at \in Nat
  /\ answers \in Seq(Nat)
  /\ acted \in Seq(Nat \X Nat)
  /\ ending \in {None, "complete", "raised", "left"}

config == <<persist, validating>>
loop == <<iteration, retries, asked>>
calls == <<at, answers, acted>>

\* history.append(message), then await _record(message).
Say(message) ==
  /\ said' = Append(said, message)
  /\ pc' = IF persist THEN "record" ELSE "recorded"

Init ==
  /\ persist \in BOOLEAN /\ validating \in BOOLEAN
  /\ said = <<Text("user")>>
  /\ pc = IF persist THEN "record" ELSE "recorded"
  /\ store = <<>> /\ orphan = FALSE
  /\ iteration = 0 /\ retries = MaxRetries /\ asked = 0
  /\ at = 1 /\ answers = <<>> /\ acted = <<>>
  /\ ending = None

-----------------------------------------------------------------------------
\* The mirror.
RecordLands ==
  /\ pc = "record"
  /\ store' = Append(store, Last)
  /\ pc' = "recorded"
  /\ UNCHANGED <<config, said, orphan, loop, calls, ending>>

\* append raises, before it took effect or after: no handler around _record.
RecordFails ==
  /\ persist
  /\ pc \in {"record", "recorded"}
  /\ pc' = "done" /\ ending' = "raised"
  /\ UNCHANGED <<config, said, store, orphan, loop, calls>>

\* The orphaned thread's write lands, or fails unseen.
OrphanEnds ==
  /\ orphan
  /\ orphan' = FALSE
  /\ store' \in {store, Append(store, Last)}
  /\ UNCHANGED <<config, pc, said, loop, calls, ending>>

\* for iteration in range(max_tool_iterations)
Iterate(n) ==
  /\ iteration' = n
  /\ IF n < MaxIterations THEN pc' = "ask" /\ asked' = asked + 1
                          ELSE pc' = "exhausted" /\ asked' = asked

UserRecorded ==
  /\ pc = "recorded" /\ Last.kind = "user"
  /\ Iterate(0)
  /\ UNCHANGED <<config, said, store, orphan, retries, calls, ending>>

\* Faulty variant: the retry is not charged to the budget.
FeedbackIsFree ==
  /\ pc = "recorded" /\ Last.kind = "feedback"
  /\ Iterate(0)
  /\ UNCHANGED <<config, said, store, orphan, retries, calls, ending>>

FeedbackRecorded ==
  /\ pc = "recorded" /\ Last.kind = "feedback"
  /\ retries' = retries - 1
  /\ Iterate(0)
  /\ UNCHANGED <<config, said, store, orphan, calls, ending>>

ResultsRecorded ==
  /\ pc = "recorded" /\ Last.kind = "results"
  /\ Iterate(iteration + 1)
  /\ UNCHANGED <<config, said, store, orphan, retries, calls, ending>>

\* The model is done unless it stopped for its tool calls.
AssistantRecorded ==
  /\ pc = "recorded" /\ Last.kind = "assistant"
  /\ pc' = IF Last.stop = "tool_use" /\ Last.calls # <<>> THEN "call" ELSE "judge"
  /\ at' = 1 /\ answers' = <<>>
  /\ UNCHANGED <<config, said, store, orphan, loop, acted, ending>>

-----------------------------------------------------------------------------
\* Faulty variant: the message is stored with its results only.
AssistantSpeaksUnrecorded ==
  /\ pc = "ask"
  /\ \E n \in 0..MaxCalls, stop \in StopReasons :
       said' = Append(said, Message("assistant", [i \in 1..n |-> i], stop))
  /\ pc' = "recorded"
  /\ UNCHANGED <<config, store, orphan, loop, calls, ending>>

\* A round with the model: its message is rebuilt from the stream, the calls
\* in the order of their index.
AssistantSpeaks ==
  /\ pc = "ask"
  /\ \E n \in 0..MaxCalls, stop \in StopReasons :
       Say(Message("assistant", [i \in 1..n |-> i], stop))
  /\ UNCHANGED <<config, store, orphan, loop, calls, ending>>

\* The provider, the gate or the auditor raises: nothing in run_agent takes it.
Raises ==
  /\ pc \in {"ask", "call", "judge"}
  /\ pc = "call" => at <= Len(Last.calls)
  /\ pc = "judge" => validating
  /\ pc' = "done" /\ ending' = "raised"
  /\ UNCHANGED <<config, said, store, orphan, loop, calls>>

\* Faulty variant: a call that does not run leaves no tool_result.
PassOver ==
  /\ pc = "call" /\ at <= Len(Last.calls)
  /\ at' = at + 1
  /\ UNCHANGED <<config, pc, said, store, orphan, loop, answers, acted, ending>>

\* Call number at is declined at its gate, or it is no known tool's, or one
\* of the meta-tools that answer in place.
AnswerInPlace ==
  /\ pc = "call" /\ at <= Len(Last.calls)
  /\ answers' = Append(answers, Last.calls[at])
  /\ at' = at + 1
  /\ UNCHANGED <<config, pc, said, store, orphan, loop, acted, ending>>

\* The dispatcher, a workflow or a memory tool is entered.
Act ==
  /\ pc = "call" /\ at <= Len(Last.calls)
  /\ acted' = Append(acted, <<Len(said), at>>)
  /\ pc' = "tool"
  /\ UNCHANGED <<config, said, store, orphan, loop, at, answers, ending>>

\* Faulty variant: a tool that fails is tried again.
TryAgain ==
  /\ pc = "tool"
  /\ pc' = "call"
  /\ \/ at' = at + 1 /\ answers' = Append(answers, Last.calls[at])
     \/ UNCHANGED <<at, answers>>
  /\ UNCHANGED <<config, said, store, orphan, loop, acted, ending>>

\* It returns or raises: either way the call has its tool_result.
ToolAnswers ==
  /\ pc = "tool"
  /\ pc' = "call"
  /\ answers' = Append(answers, Last.calls[at])
  /\ at' = at + 1
  /\ UNCHANGED <<config, said, store, orphan, loop, acted, ending>>

SayResults ==
  /\ pc = "call" /\ at > Len(Last.calls)
  /\ Say(Message("results", answers, "other"))
  /\ UNCHANGED <<config, store, orphan, loop, calls, ending>>

-----------------------------------------------------------------------------
\* Validation found errors and the budget allows a retry.
SayFeedback ==
  /\ pc = "judge" /\ validating /\ retries > 0
  /\ Say(Text("feedback"))
  /\ UNCHANGED <<config, store, orphan, loop, calls, ending>>

\* Faulty variant: a turn that runs out of rounds just stops.
CompleteJudged ==
  /\ pc = "judge"
  /\ pc' = "done" /\ ending' = "complete"
  /\ UNCHANGED <<config, said, store, orphan, loop, calls>>

\* turn_complete, as the last event.
Complete ==
  /\ pc \in {"judge", "exhausted"}
  /\ pc' = "done" /\ ending' = "complete"
  /\ UNCHANGED <<config, said, store, orphan, loop, calls>>

\* The client leaves: the generator is closed or cancelled where it stands.
Leave ==
  /\ pc # "done"
  /\ pc' = "done" /\ ending' = "left"
  /\ orphan' = (pc = "record")
  /\ UNCHANGED <<config, said, store, loop, calls>>

Progress ==
  \/ RecordLands \/ RecordFails
  \/ UserRecorded \/ FeedbackRecorded \/ ResultsRecorded \/ AssistantRecorded
  \/ AssistantSpeaks \/ Raises
  \/ AnswerInPlace \/ Act \/ ToolAnswers \/ SayResults
  \/ SayFeedback \/ Complete

Next == Progress \/ Leave \/ OrphanEnds

Spec == Init /\ [][Next]_vars

\* The provider, the tools, the gate, the auditor and the store answer, or
\* raise, sometime; nobody has to leave.
FairSpec == Spec /\ WF_vars(Progress)

-----------------------------------------------------------------------------
IsPrefixOf(s, t) == Len(s) <= Len(t) /\ \A i \in 1..Len(s) : s[i] = t[i]

\* The conversation store follows history message by message, behind by the
\* one being written at most, and a turn that completes is stored in full:
\* a client that saw turn_complete can resume from the store.
Mirrored ==
  persist =>
    /\ IsPrefixOf(store, said)
    /\ Len(store) >= Len(said) - 1
    /\ ending = "complete" => store = said

\* A tool that acted is on record: its call stands in the store, in a message
\* that asked for it, and it acted once.  This is what a host that resumes
\* after a crash knows of the tools' side effects.
ActsAreOnRecord ==
  \A j \in 1..Len(acted) :
    LET k == acted[j][1] IN
    /\ persist => k <= Len(store)
    /\ said[k].kind = "assistant" /\ said[k].stop = "tool_use"
    /\ acted[j][2] \in 1..Len(said[k].calls)
    /\ \A i \in 1..Len(acted) : acted[i] = acted[j] => i = j

\* Calls and results pair: a results message answers all the calls of the
\* message before it in their order, a message that stopped for its calls is
\* followed by nothing else, and no completed turn ends on such a message.
Paired ==
  /\ \A k \in 1..Len(said) : said[k].kind = "results" =>
       k > 1 /\ said[k-1].kind = "assistant" /\ said[k-1].calls = said[k].calls
  /\ \A k \in 1..Len(said) :
       said[k].kind = "assistant" /\ said[k].stop = "tool_use" /\ said[k].calls # <<>> =>
         IF k < Len(said) THEN said[k+1].kind = "results" ELSE ending # "complete"

\* One turn costs max_tool_iterations calls of the model for each attempt at
\* an answer that validates, and no more.
CostIsBounded == asked <= MaxIterations * (MaxRetries + 1)

\* A turn whose partners answer comes to its end, however much the model
\* wants to call and however often validation fails.
EveryTurnEnds == <>(pc = "done")
=============================================================================
