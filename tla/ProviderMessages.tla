-------------------------- MODULE ProviderMessages -------------------------
(***************************************************************************)
(* The requests that the adapters make of the provider-neutral history,    *)
(* and where they mark the prefix that is to be cached.                    *)
(*                                                                         *)
(* A message of the history is [role, blocks]; a block is a text, a        *)
(* tool_use or a tool_result.  A message of a request is [role, parts],    *)
(* where each part keeps what the provider gets of its block: the id that  *)
(* pairs a call with its result, or NoPair.                                *)
(***************************************************************************)
EXTENDS Listing

NoPair == <<>>

TextBlock(text) == [type |-> "text", text |-> text]
ToolUse(id, name, input) == [type |-> "tool_use", id |-> id, name |-> name, input |-> input]
ToolResult(id, body, failed) ==
  [type |-> "tool_result", id |-> id, body |-> body, is_error |-> failed]

HistoryMessage(role, blocks) == [role |-> role, blocks |-> blocks]
OfType(message, type) == Only(message.blocks, LAMBDA b : b.type = type)

Part(kind, pair) == [kind |-> kind, pair |-> pair]

\* Blocks go as they are.
AnthropicMessage(m) ==
  <<[role |-> m.role,
     parts |-> MapSeq(m.blocks, LAMBDA b :
       CASE b.type = "text" -> Part("text", NoPair)
         [] b.type = "tool_use" -> Part("call", b.id)
         [] b.type = "tool_result" -> Part("result", b.id))]>>

\* toolUse and toolResult blocks; a result that failed is marked so.
BedrockMessage(m) ==
  <<[role |-> m.role,
     parts |-> MapSeq(m.blocks, LAMBDA b :
       CASE b.type = "text" -> Part("text", NoPair)
         [] b.type = "tool_use" -> Part("call", b.id)
         [] b.type = "tool_result" ->
              Part(IF b.is_error THEN "failed result" ELSE "result", b.id))]>>

\* Each result is a message of its own, before the text of its message; an
\* assistant message is one text, or none, and its calls.
OpenAIMessage(m) ==
  LET texts == OfType(m, "text")
      spoken == IF texts = <<>> THEN <<>> ELSE <<Part("text", NoPair)>>
      results == OfType(m, "tool_result")
      calls == OfType(m, "tool_use")
  IN IF m.role = "assistant"
     THEN <<[role |-> "assistant", parts |-> spoken \o MapSeq(calls, LAMBDA b : Part("call", b.id))]>>
     ELSE MapSeq(results, LAMBDA b : [role |-> "tool", parts |-> <<Part("result", b.id)>>])
          \o (IF spoken = <<>> THEN <<>> ELSE <<[role |-> "user", parts |-> spoken]>>)

\* A function_call has a name and no id, and its response the id as its name.
GeminiMessage(m) ==
  <<[role |-> IF m.role = "assistant" THEN "model" ELSE "user",
     parts |-> MapSeq(m.blocks, LAMBDA b :
       CASE b.type = "text" -> Part("text", NoPair)
         [] b.type = "tool_use" -> Part("call", NoPair)
         [] b.type = "tool_result" -> Part("result", b.id))]>>

Translated(provider, history) ==
  Concat([i \in DOMAIN history |->
    CASE provider = "anthropic" -> AnthropicMessage(history[i])
      [] provider = "openai" -> OpenAIMessage(history[i])
      [] provider = "gemini" -> GeminiMessage(history[i])
      [] provider = "bedrock" -> BedrockMessage(history[i])])

-----------------------------------------------------------------------------
\* The cache hint counts messages from zero, and from the end when negative.
NoHint == -100
CacheHint(caching, history) == IF caching /\ Len(history) >= 2 THEN Len(history) - 2 ELSE NoHint

Target(hint, history) == IF hint >= 0 THEN hint ELSE Len(history) + hint

\* Faulty variant: the hint is read as counting from one.
MarkedFromOne(hint, history) ==
  IF hint # NoHint /\ Target(hint, history) + 2 \in DOMAIN history
  THEN {Target(hint, history) + 2} ELSE {}

\* Anthropic marks the last block of the message.
MarkedBlock(hint, history) ==
  IF /\ hint # NoHint
     /\ Target(hint, history) + 1 \in DOMAIN history
     /\ history[Target(hint, history) + 1].blocks # <<>>
  THEN {Target(hint, history) + 1} ELSE {}

\* Bedrock appends a cache point, to an empty message too.
MarkedPoint(hint, history) ==
  IF hint # NoHint /\ Target(hint, history) + 1 \in DOMAIN history
  THEN {Target(hint, history) + 1} ELSE {}

\* The messages that end a cached prefix; OpenAI and Gemini cache by themselves.
Marked(provider, hint, history) ==
  CASE provider = "anthropic" -> MarkedBlock(hint, history)
    [] provider = "bedrock" -> MarkedPoint(hint, history)
    [] OTHER -> {}

\* A request: its messages, and the last message of history that it caches.
Request(provider, caching, history) ==
  [messages |-> Translated(provider, history),
   cached |-> Marked(provider, CacheHint(caching, history), history)]

-----------------------------------------------------------------------------
\* What a provider demands of a request: the results behind a reply answer its
\* calls, one each and in their order, by their ids, or by their number where
\* a call has none.
Calls(m) == Only(m.parts, LAMBDA p : p.kind = "call")
Results(m) == Only(m.parts, LAMBDA p : p.kind \in {"result", "failed result"})

\* The results behind message i, up to the next message that has none.
Answers(messages, i) ==
  LET end == CHOOSE j \in i..Len(messages) :
        /\ \A k \in (i + 1)..j : Results(messages[k]) # <<>>
        /\ j = Len(messages) \/ Results(messages[j + 1]) = <<>>
  IN Concat([k \in 1..(end - i) |-> Results(messages[i + k])])

PairedAt(messages, i) ==
  LET calls == Calls(messages[i])
      answers == Answers(messages, i)
  IN /\ Len(calls) = Len(answers)
     /\ \A k \in DOMAIN calls : calls[k].pair \in {NoPair, answers[k].pair}

AreCalls(messages, i) == Calls(messages[i]) # <<>>
=============================================================================
