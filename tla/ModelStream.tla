----------------------------- MODULE ModelStream ----------------------------
(***************************************************************************)
(* One reply of the model on its way into history: the chunks that each    *)
(* provider streams, the normalized events that its adapter makes of them, *)
(* and the message that run_agent collects from the events.                *)
(*                                                                         *)
(* A reply is [text, calls, stop]: the pieces of its text, its tool calls  *)
(* [id, name, input, whole] with the fragments of their inputs, which are  *)
(* not whole when they were cut off or are no JSON, and "tool_use",        *)
(* "end_turn", "max_tokens" or "content_filter".  A chunk has the          *)
(* provider's own index and stop reason.                                   *)
(***************************************************************************)
EXTENDS Listing

VARIABLES
  provider,
  reply,      \* the reply that the provider sends, or sent last
  flow,       \* how far it has sent it
  adapter,    \* what the adapter remembers of its stream
  collector   \* what run_agent has collected

Providers == {"anthropic", "openai", "gemini", "bedrock"}
NoId == <<>>

-----------------------------------------------------------------------------
\* The normalized events.
TextDelta(text) == [type |-> "text", text |-> text]
ToolUseStart(index, id, name) == [type |-> "start", index |-> index, id |-> id, name |-> name]
ToolInputDelta(index, json) == [type |-> "input", index |-> index, json |-> json]
ToolUseStop(index) == [type |-> "stop", index |-> index]
MessageStop(reason) == [type |-> "message", reason |-> reason]

\* The indices that the adapter announced and has not ended, how many calls it
\* numbered, and the reason it has read.
NewAdapter == [seen |-> {}, count |-> 0, finish |-> "none"]

AnthropicEvents(c) ==
  CASE c.kind = "call" -> <<ToolUseStart(c.index, c.call.id, c.call.name)>>
    [] c.kind = "text" -> <<TextDelta(c.text)>>
    [] c.kind = "input" -> <<ToolInputDelta(c.index, <<c.json>>)>>
    [] c.kind = "stop" -> <<ToolUseStop(c.index)>>
    [] c.kind = "finish" -> <<MessageStop(c.reason)>>
    [] OTHER -> <<>>

\* Only the end of a tool's block is announced.
BedrockEvents(a, c) ==
  CASE c.kind = "call" -> <<ToolUseStart(c.index, c.call.id, c.call.name)>>
    [] c.kind = "text" -> <<TextDelta(c.text)>>
    [] c.kind = "input" -> <<ToolInputDelta(c.index, <<c.json>>)>>
    [] c.kind = "stop" /\ c.index \in a.seen -> <<ToolUseStop(c.index)>>
    [] c.kind = "finish" ->
         <<MessageStop(IF c.reason = "stop_sequence" THEN "end_turn" ELSE c.reason)>>
    [] OTHER -> <<>>

OpenAIEvents(a, c) ==
  CASE c.kind = "text" -> <<TextDelta(c.text)>>
    [] c.kind = "call" /\ c.index \notin a.seen ->
         <<ToolUseStart(c.index, c.call.id, c.call.name)>>
    [] c.kind = "input" -> <<ToolInputDelta(c.index, <<c.json>>)>>
    [] OTHER -> <<>>

GeminiEvents(a, c) ==
  CASE c.kind = "text" -> <<TextDelta(c.text)>>
    [] c.kind = "function_call" ->
         <<ToolUseStart(a.count, IF c.id = NoId THEN <<"gemini-call", a.count>> ELSE c.id, c.name),
           ToolInputDelta(a.count, c.args), ToolUseStop(a.count)>>
    [] OTHER -> <<>>

Events(c) ==
  CASE provider = "anthropic" -> AnthropicEvents(c)
    [] provider = "bedrock" -> BedrockEvents(adapter, c)
    [] provider = "openai" -> OpenAIEvents(adapter, c)
    [] provider = "gemini" -> GeminiEvents(adapter, c)

Adapted(a, c) ==
  [seen |-> IF c.kind = "call" THEN a.seen \cup {c.index} ELSE a.seen,
   count |-> IF c.kind = "function_call" THEN a.count + 1 ELSE a.count,
   finish |-> IF c.kind = "finish" THEN c.reason ELSE a.finish]

OpenAIStop(reason) ==
  CASE reason = "tool_calls" -> "tool_use"
    [] reason = "length" -> "max_tokens"
    [] reason \in {"stop", "none"} -> "end_turn"
    [] OTHER -> reason

\* Any call makes it a tool_use, even at the limit.
GeminiStop(a) ==
  IF a.count > 0 THEN "tool_use" ELSE IF a.finish = "MAX_TOKENS" THEN "max_tokens" ELSE "end_turn"

\* The event that OpenAI's and Gemini's adapters end with.
Trailer(a) ==
  CASE provider = "openai" -> <<MessageStop(OpenAIStop(a.finish))>>
    [] provider = "gemini" -> <<MessageStop(GeminiStop(a))>>
    [] OTHER -> <<>>

-----------------------------------------------------------------------------
\* The collector of run_agent.
Nothing == [n \in {} |-> <<>>]
NewCollector == [text |-> <<>>, uses |-> Nothing, partial |-> Nothing, stop |-> "none"]

With(f, i, v) == [n \in DOMAIN f \cup {i} |-> IF n = i THEN v ELSE f[n]]
Partial(s, i) == IF i \in DOMAIN s.partial THEN s.partial[i] ELSE <<>>

\* Faulty variant: an input is what its last fragment says.
CollectLast(s, e) ==
  CASE e.type = "text" -> [s EXCEPT !.text = Append(@, e.text)]
    [] e.type = "start" ->
         [s EXCEPT !.uses = With(@, e.index, [id |-> e.id, name |-> e.name, input |-> <<>>]),
                   !.partial = With(@, e.index, Partial(s, e.index))]
    [] e.type = "input" -> [s EXCEPT !.partial = With(@, e.index, e.json)]
    [] e.type = "stop" /\ e.index \in DOMAIN s.uses ->
         [s EXCEPT !.uses[e.index].input = Partial(s, e.index)]
    [] e.type = "message" -> [s EXCEPT !.stop = e.reason]
    [] OTHER -> s

\* An input is its fragments, in the order of their events; what they say is
\* parsed when the call stops, and cannot be when a fragment is missing.
Collect(s, e) ==
  CASE e.type = "text" -> [s EXCEPT !.text = Append(@, e.text)]
    [] e.type = "start" ->
         [s EXCEPT !.uses = With(@, e.index, [id |-> e.id, name |-> e.name, input |-> <<>>]),
                   !.partial = With(@, e.index, Partial(s, e.index))]
    [] e.type = "input" -> [s EXCEPT !.partial = With(@, e.index, Partial(s, e.index) \o e.json)]
    [] e.type = "stop" /\ e.index \in DOMAIN s.uses ->
         [s EXCEPT !.uses[e.index].input = Partial(s, e.index)]
    [] e.type = "message" -> [s EXCEPT !.stop = e.reason]
    [] OTHER -> s

\* One event after the other.
CollectAll(s, events) ==
  LET heard[n \in 0..Len(events)] == IF n = 0 THEN s ELSE Collect(heard[n - 1], events[n])
  IN heard[Len(events)]

\* The calls in the order of their indices; an input that no stop event filled
\* in is parsed now.
OrderedToolUses(s) ==
  LET Use(i) == [s.uses[i] EXCEPT !.input = IF @ = <<>> THEN Partial(s, i) ELSE @]
  IN [k \in 1..Cardinality(DOMAIN s.uses) |-> Use(Nth(DOMAIN s.uses, k))]

-----------------------------------------------------------------------------
\* The providers' streams: the pieces of the text, then the calls.
NewFlow(r) ==
  [text |-> 0,                               \* the pieces sent
   calls |-> 0,                              \* the calls begun
   inputs |-> [i \in DOMAIN r.calls |-> 0],  \* the fragments of each sent
   open |-> FALSE,                           \* a block is being sent
   over |-> FALSE]                           \* the stop reason was sent

\* Gemini leaves out the calls that are not whole.
Sent == Only(reply.calls, LAMBDA c : c.whole \/ provider # "gemini")

\* Anthropic and Bedrock: blocks one after the other, numbered with the text.
InBlocks == provider \in {"anthropic", "bedrock"}
BlockIndex(i) == IF InBlocks /\ reply.text # <<>> THEN i ELSE i - 1

TextSent == flow.text = Len(reply.text)
InputSent(i) == flow.inputs[i] = Len(Sent[i].input)

Receive(c) ==
  /\ collector' = CollectAll(collector, Events(c))
  /\ adapter' = Adapted(adapter, c)

\* Anthropic announces its text block, Bedrock does not.
TextBegins ==
  /\ provider = "anthropic" /\ reply.text # <<>>
  /\ flow.text = 0 /\ ~flow.open
  /\ Receive([kind |-> "text block"])
  /\ flow' = [flow EXCEPT !.open = TRUE]

TextArrives ==
  /\ ~TextSent
  /\ provider = "anthropic" => flow.open
  /\ Receive([kind |-> "text", text |-> reply.text[flow.text + 1]])
  /\ flow' = [flow EXCEPT !.text = @ + 1, !.open = InBlocks]

CallBegins ==
  /\ provider # "gemini"
  /\ TextSent /\ ~flow.open
  /\ flow.calls < Len(Sent)
  /\ Receive([kind |-> "call", index |-> BlockIndex(flow.calls + 1), call |-> Sent[flow.calls + 1]])
  /\ flow' = [flow EXCEPT !.calls = @ + 1, !.open = InBlocks]

\* OpenAI's inputs may take turns.
InputArrives ==
  /\ provider # "gemini"
  /\ \E i \in 1..flow.calls :
       /\ ~InputSent(i)
       /\ InBlocks => i = flow.calls
       /\ Receive([kind |-> "input", index |-> BlockIndex(i), json |-> Sent[i].input[flow.inputs[i] + 1]])
       /\ flow' = [flow EXCEPT !.inputs[i] = @ + 1]

BlockEnds ==
  /\ flow.open
  /\ IF flow.calls = 0 THEN TextSent ELSE InputSent(flow.calls)
  /\ Receive([kind |-> "stop", index |-> BlockIndex(flow.calls)])
  /\ flow' = [flow EXCEPT !.open = FALSE]

\* Gemini's calls are parts that come whole, with or without an id.
PartArrives ==
  /\ provider = "gemini"
  /\ TextSent /\ flow.calls < Len(Sent)
  /\ LET c == Sent[flow.calls + 1]
     IN \E id \in {c.id, NoId} :
          Receive([kind |-> "function_call", id |-> id, name |-> c.name, args |-> c.input])
  /\ flow' = [flow EXCEPT !.calls = @ + 1]

Reason ==
  CASE provider = "openai" -> (CASE reply.stop = "tool_use" -> "tool_calls"
                                 [] reply.stop = "max_tokens" -> "length"
                                 [] reply.stop = "end_turn" -> "stop"
                                 [] OTHER -> reply.stop)
    [] provider = "gemini" -> IF reply.stop = "max_tokens" THEN "MAX_TOKENS" ELSE "STOP"
    [] OTHER -> reply.stop

StopArrives ==
  /\ ~flow.over /\ ~flow.open
  /\ TextSent /\ flow.calls = Len(Sent)
  /\ provider = "openai" => \A i \in 1..flow.calls : InputSent(i)
  /\ Receive([kind |-> "finish", reason |-> Reason])
  /\ flow' = [flow EXCEPT !.over = TRUE]

\* OpenAI does not end its calls: the adapter does, in their order.
AdapterEnds ==
  /\ provider = "openai" /\ flow.over /\ adapter.seen # {}
  /\ LET index == Nth(adapter.seen, 1)
     IN /\ collector' = Collect(collector, ToolUseStop(index))
        /\ adapter' = [adapter EXCEPT !.seen = @ \ {index}]
  /\ UNCHANGED flow

\* The stream has ended, and the adapter has one event left at most.
Drained == flow.over /\ (provider = "openai" => adapter.seen = {})
=============================================================================
