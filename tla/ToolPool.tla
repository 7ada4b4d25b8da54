----------------------------- MODULE ToolPool ------------------------------
(***************************************************************************)
(* The tools of the host: how lifespan opens the McpPool, lists the tools  *)
(* of its servers and builds the ProgressiveToolRegistry, what chats then  *)
(* search, load and call, and how lifespan closes the pool under them.     *)
(*                                                                         *)
(* Every request to a server may fail, and a server may publish other      *)
(* tools from one request to the next: its tools are listed twice while    *)
(* the host starts, once to route calls and once to describe the tools,    *)
(* and never again.                                                        *)
(*                                                                         *)
(* A name is the sequence of its parts around dots: the name that the pool *)
(* qualifies with the server s is <<s>> \o name.                           *)
(***************************************************************************)
EXTENDS Integers, Sequences, FiniteSets, Functions

CONSTANTS
  Servers,      \* names of MCP servers
  MCP_SERVERS,  \* the sequences of servers that may be configured
  Offers,       \* per server, what it may publish: from names to annotations
  Workflows,    \* names of the workflows the host has loaded
  Chats,        \* chats: each may search, then load, then call one tool
  MaxChanges,   \* bound on the changes of what servers publish
  MaxFaults     \* bound on what fails while the pool opens, is listed or closes

ASSUME ToolPoolAssumption ==
  /\ \A configs \in MCP_SERVERS : configs \in Seq(Servers)
  /\ DOMAIN Offers = Servers
  /\ \A s \in Servers : \A o \in Offers[s] : IsFiniteSet(DOMAIN o)
  /\ MaxChanges \in Nat /\ MaxFaults \in Nat

MetaTools == {<<"tool_search">>, <<"tool_load">>}
RenderVisual == <<"render_visual">>
Published == UNION {UNION {DOMAIN o : o \in Offers[s]} : s \in Servers}
Names == Published \cup Workflows \cup {RenderVisual}
NoName == <<>>
None == "none"

VARIABLES
  configs,    \* the servers of the pool, in the order of MCP_SERVERS
  published,  \* what each server publishes now
  changes,    \* servers that changed it since they were indexed
  phase,      \* of lifespan: see TypeOK
  at,         \* the server that is being opened, or listed
  open,       \* servers with a transport on the pool's exit stack
  index,      \* _tool_index: from names to servers
  tools,      \* what list_all_tools has collected
  catalog,    \* _catalog of the registry
  loaded,     \* _loaded of the registry
  pc,         \* per chat: "new", "searched", "loaded", "asked", "cleared", "sent", "done"
  found,      \* per chat, the names that its search showed
  called,     \* per chat, the name that it called, or NoName
  answer,     \* per chat, how the call ended
  consent,    \* chats whose user confirmed the call
  ran         \* what servers were asked to run: [chat, server, name]

world == <<configs, published, changes>>
pool == <<open, index>>
registry == <<catalog, loaded>>
chats == <<pc, found, called, answer, consent, ran>>
vars == <<world, phase, at, pool, tools, registry, chats>>

Nothing == [n \in {} |-> None]

Init ==
  /\ configs \in MCP_SERVERS
  /\ published \in {f \in [Servers -> UNION Range(Offers)] : \A s \in Servers : f[s] \in Offers[s]}
  /\ changes = {}
  /\ phase = "new" /\ at = 1
  /\ open = {} /\ index = Nothing /\ tools = {}
  /\ catalog = Nothing /\ loaded = {}
  /\ pc = [c \in Chats |-> "new"]
  /\ found = [c \in Chats |-> {}]
  /\ called = [c \in Chats |-> NoName]
  /\ answer = [c \in Chats |-> None]
  /\ consent = {} /\ ran = {}

-----------------------------------------------------------------------------
\* Startup.
Republish(s) ==
  /\ Cardinality(changes) < MaxChanges
  /\ \E o \in Offers[s] \ {published[s]} : published' = [published EXCEPT ![s] = o]
  /\ changes' = changes \cup {s}
  /\ UNCHANGED <<configs, phase, at, pool, tools, registry, chats>>

Descriptor(server, gated) == [server |-> server, hitl |-> gated]
WorkflowDescriptors == [n \in Workflows |-> Descriptor("workflow", FALSE)]

\* Two servers of one name are refused before anything is opened.
Start ==
  /\ phase = "new"
  /\ phase' = IF configs = <<>> THEN "built"
              ELSE IF IsInjective(configs) THEN "opening" ELSE "failed"
  /\ catalog' = IF configs = <<>> THEN WorkflowDescriptors ELSE catalog
  /\ UNCHANGED <<world, at, pool, tools, loaded, chats>>

Current == configs[at]

OpenTransport ==
  /\ phase = "opening" /\ Current \notin open
  /\ open' = open \cup {Current}
  /\ UNCHANGED <<world, phase, at, index, tools, registry, chats>>

\* Faulty variant: a server's names are qualified when it is not the first.
QualifiedAlways(s) ==
  LET names == DOMAIN published[s]
      mine == {n \in names : index = Nothing} \cup {<<s>> \o n : n \in {m \in names : index # Nothing}}
  IN [n \in DOMAIN index \cup mine |-> IF n \in mine THEN s ELSE index[n]]

\* _index_server: a name that is taken is qualified, one that is not is s's.
Indexed(s) ==
  LET names == DOMAIN published[s]
      mine == (names \ DOMAIN index) \cup {<<s>> \o n : n \in names \cap DOMAIN index}
  IN [n \in DOMAIN index \cup mine |-> IF n \in mine THEN s ELSE index[n]]

\* The next server, or the next phase after the last one.
Advance(next) ==
  IF at = Len(configs) THEN phase' = next /\ at' = 1
  ELSE at' = at + 1 /\ UNCHANGED phase

IndexServer ==
  /\ phase = "opening" /\ Current \in open
  /\ index' = Indexed(Current)
  /\ Advance("listing")
  /\ UNCHANGED <<world, open, tools, registry, chats>>

\* An exception inside __aenter__: nobody closes the stack.
OpenFails ==
  /\ phase = "opening" /\ MaxFaults > 0
  /\ phase' = "failed to open"
  /\ UNCHANGED <<world, at, pool, tools, registry, chats>>

\* Only an annotation that asks for confirmation is kept.
Hitl(s, n) == published[s][n] = "requires_confirmation"

ListServer ==
  /\ phase = "listing"
  /\ tools' = tools \cup {[server |-> Current, name |-> n, hitl |-> Hitl(Current, n)] :
                            n \in DOMAIN published[Current]}
  /\ Advance("listed")
  /\ UNCHANGED <<world, pool, registry, chats>>

\* pool.__aexit__ is called, then the exception goes on.
CloseAndFail ==
  /\ phase' = "unwinding"
  /\ UNCHANGED pool

ListFails ==
  /\ phase = "listing" /\ MaxFaults > 0
  /\ CloseAndFail
  /\ UNCHANGED <<world, at, tools, registry, chats>>

\* A startup that is cancelled meanwhile is ended by no Exception: nobody
\* closes the stack.
ListCancelled ==
  /\ phase = "listing" /\ MaxFaults > 0
  /\ phase' = "failed to list"
  /\ UNCHANGED <<world, at, pool, tools, registry, chats>>

\* Faulty variant: of two tools of one name, either is taken.
AnyOfEachName == {n \in Names : \E t \in tools : t.name = n}

\* The names that can be in a catalog: all of them, or none when two tools
\* share one, which the registry refuses.
Distinct ==
  LET names == {t.name : t \in tools}
  IN IF Cardinality(names) = Cardinality(tools) /\ names \cap Workflows = {} THEN names ELSE {}

BuildRegistry ==
  /\ phase = "listed" /\ (Distinct # {} \/ tools = {})
  /\ catalog' = [n \in Distinct \cup Workflows |->
       IF n \in Workflows THEN WorkflowDescriptors[n]
       ELSE LET t == CHOOSE t \in tools : t.name = n IN Descriptor(t.server, t.hitl)]
  /\ phase' = "built"
  /\ UNCHANGED <<world, at, pool, tools, loaded, chats>>

RefuseDuplicates ==
  /\ phase = "listed" /\ Distinct = {} /\ tools # {}
  /\ CloseAndFail
  /\ UNCHANGED <<world, at, tools, registry, chats>>

\* The stores and the provider: what fails here leaves the pool open.
FinishStart ==
  /\ phase = "built"
  /\ phase' \in {"serving"} \cup (IF MaxFaults > 0 THEN {"failed to finish"} ELSE {})
  /\ UNCHANGED <<world, at, pool, tools, registry, chats>>

\* The finally of lifespan, under the calls in flight.
Shutdown ==
  /\ phase = "serving"
  /\ phase' = "closing"
  /\ UNCHANGED <<world, at, pool, tools, registry, chats>>

\* __aexit__ ends one session after the other, the last first ...
EndSession ==
  /\ phase \in {"unwinding", "closing"} /\ open # {}
  /\ open' = open \ {configs[Cardinality(open)]}
  /\ UNCHANGED <<world, phase, at, index, tools, registry, chats>>

\* ... and drops the index, unless one of them raised.
Stop ==
  /\ phase \in {"unwinding", "closing"} /\ open = {}
  /\ phase' = IF phase = "closing" THEN "stopped" ELSE "failed"
  /\ index' \in {Nothing} \cup (IF MaxFaults > 0 THEN {index} ELSE {})
  /\ UNCHANGED <<world, at, open, tools, registry, chats>>

-----------------------------------------------------------------------------
\* Chats.  A chat that is under way when the host stops goes on.
Step(c, from, to) == pc[c] \in from /\ pc' = [pc EXCEPT ![c] = to]

Served(c) ==
  \/ phase = "serving"
  \/ phase \in {"closing", "stopped"} /\ pc[c] # "new"

\* _do_search shows the best of the tools that match; the empty query takes
\* them in alphabetical order.
Ranked(score, k) ==
  LET matches == {n \in DOMAIN score : score[n] > 0}
  IN {best \in SUBSET matches :
        /\ Cardinality(best) <= k
        /\ best # matches => Cardinality(best) = k
        /\ \A n \in best, m \in matches \ best : score[n] >= score[m]}

Search(c) ==
  /\ Served(c) /\ Step(c, {"new"}, "searched")
  /\ \E score \in [DOMAIN catalog -> 0..1], k \in {1, 25} :
       \E best \in Ranked(score, k) : found' = [found EXCEPT ![c] = best]
  /\ UNCHANGED <<world, phase, at, pool, tools, registry, called, answer, consent, ran>>

\* Unknown names are reported, known ones loaded.
Load(c) ==
  /\ Served(c) /\ Step(c, {"new", "searched"}, "loaded")
  /\ \E names \in SUBSET found[c] \cup {{n} : n \in Names} :
       loaded' = loaded \cup (names \cap DOMAIN catalog)
  /\ UNCHANGED <<world, phase, at, pool, tools, catalog, found, called, answer, consent, ran>>

\* The names that the next request to the model declares.
Offered == MetaTools \cup {RenderVisual} \cup loaded

Inline(n) == n \in MetaTools \cup {RenderVisual}

End(c, how) == answer' = [answer EXCEPT ![c] = how]

\* A tool_use of name n, for which a user may have to be asked.
Call(c, n) ==
  /\ Served(c) /\ pc[c] \in {"new", "searched", "loaded"}
  /\ called' = [called EXCEPT ![c] = n]
  /\ \/ /\ n \notin DOMAIN catalog \cup MetaTools \cup {RenderVisual}
        /\ Step(c, {pc[c]}, "done") /\ End(c, "not available")
     \/ /\ Inline(n) \/ n \in Workflows
        /\ Step(c, {pc[c]}, "done") /\ End(c, "in place")
     \/ /\ n \in DOMAIN catalog \ Workflows /\ ~Inline(n)
        /\ Step(c, {pc[c]}, IF catalog[n].hitl THEN "asked" ELSE "cleared")
        /\ UNCHANGED answer
  /\ UNCHANGED <<world, phase, at, pool, tools, registry, found, consent, ran>>

\* The gate: a user declines, or confirms.
Decline(c) ==
  /\ Step(c, {"asked"}, "done") /\ End(c, "declined")
  /\ UNCHANGED <<world, phase, at, pool, tools, registry, found, called, consent, ran>>

Confirm(c) ==
  /\ Step(c, {"asked"}, "cleared")
  /\ consent' = consent \cup {c}
  /\ UNCHANGED <<world, phase, at, pool, tools, registry, found, called, answer, ran>>

\* call_tool strips the server's name from any name that begins with it.
Upstream(s, n) == IF Len(n) > 1 /\ Head(n) = s THEN Tail(n) ELSE n

\* Faulty variant: the call that no server takes is never answered.
DispatchOrWait(c) ==
  /\ called[c] \in DOMAIN index /\ index[called[c]] \in open
  /\ Step(c, {"cleared"}, "sent") /\ UNCHANGED answer
  /\ ran' = ran \cup {[chat |-> c, server |-> index[called[c]],
                       name |-> Upstream(index[called[c]], called[c])]}
  /\ UNCHANGED <<world, phase, at, pool, tools, registry, found, called, consent>>

Dispatch(c) ==
  /\ \/ /\ called[c] \notin DOMAIN index
        /\ Step(c, {"cleared"}, "done") /\ End(c, "KeyError")
        /\ UNCHANGED ran
     \/ /\ called[c] \in DOMAIN index /\ index[called[c]] \notin open
        /\ Step(c, {"cleared"}, "done") /\ End(c, "tool_error")
        /\ UNCHANGED ran
     \/ /\ called[c] \in DOMAIN index /\ index[called[c]] \in open
        /\ Step(c, {"cleared"}, "sent") /\ UNCHANGED answer
        /\ ran' = ran \cup {[chat |-> c, server |-> index[called[c]],
                             name |-> Upstream(index[called[c]], called[c])]}
  /\ UNCHANGED <<world, phase, at, pool, tools, registry, found, called, consent>>

\* _result_to_text marks what the server failed; the session may raise, and
\* does when it has ended.
Answer(c) ==
  /\ Step(c, {"sent"}, "done")
  /\ \E r \in ran : r.chat = c /\
       \/ End(c, "tool_error")
       \/ /\ r.server \in open
          /\ End(c, IF r.name \in DOMAIN published[r.server] THEN "ok" ELSE "[upstream error]")
  /\ UNCHANGED <<world, phase, at, pool, tools, registry, found, called, consent, ran>>

Startup ==
  \/ Start \/ OpenTransport \/ IndexServer \/ OpenFails \/ ListServer
  \/ ListFails \/ ListCancelled \/ BuildRegistry \/ RefuseDuplicates \/ FinishStart

Closing == EndSession \/ Stop

Reply(c) == Dispatch(c) \/ Answer(c)

Next ==
  \/ Startup \/ Shutdown \/ Closing
  \/ \E s \in Servers : Republish(s)
  \/ \E c \in Chats :
       \/ Search(c) \/ Load(c)
       \/ \E n \in Names : Call(c, n)
       \/ Decline(c) \/ Confirm(c) \/ Reply(c)

Spec == Init /\ [][Next]_vars

\* Servers answer or fail; a user need never answer the gate.
FairSpec == Spec /\ WF_vars(Startup \/ Closing \/ \E c \in Chats : Reply(c))

-----------------------------------------------------------------------------
Failures == {"failed", "failed to open", "failed to list", "failed to finish"}

TypeOK ==
  /\ phase \in {"new", "opening", "listing", "listed", "built", "serving", "closing", "stopped",
                "unwinding"} \cup Failures
  /\ at \in Nat
  /\ open \subseteq Range(configs) /\ Range(index) \subseteq Range(configs)
  /\ tools \subseteq [server : Servers, name : Names, hitl : BOOLEAN]
  /\ Range(catalog) \subseteq [server : Servers \cup {"workflow"}, hitl : BOOLEAN]
  /\ loaded \subseteq DOMAIN catalog
  /\ pc \in [Chats -> {"new", "searched", "loaded", "asked", "cleared", "sent", "done"}]
  /\ found \in [Chats -> SUBSET Names] /\ called \in [Chats -> Names \cup {NoName}]
  /\ answer \in [Chats -> {None, "not available", "in place", "declined",
                          "KeyError", "tool_error", "ok", "[upstream error]"}]
  /\ consent \subseteq Chats
  /\ ran \subseteq [chat : Chats, server : Servers, name : Names \cup {Tail(n) : n \in Names}]

\* A tool that its server listed as one that needs a confirmation is not run
\* without one, even if what servers publish changed during the startup: save
\* when the call's name began with the server's own, which call_tool cuts off.
GatedRunsOnConsent ==
  \A r \in ran :
    /\ r.name = called[r.chat]
    /\ [server |-> r.server, name |-> r.name, hitl |-> TRUE] \in tools
    => r.chat \in consent

\* As long as servers publish what they did when they were indexed, a tool of
\* the catalog is routed to the server that described it, and a call of a tool
\* that a search showed or a request declared is not answered by a KeyError, an
\* unknown name or an unknown tool of the server while the host serves.
WhatIsShownCanBeCalled ==
  /\ phase = "serving" /\ changes = {} =>
       \A n \in DOMAIN catalog \ Workflows : n \in DOMAIN index /\ index[n] = catalog[n].server
  /\ \A c \in Chats : called[c] \in Offered \cup found[c] =>
       /\ answer[c] # "not available"
       /\ answer[c] = "KeyError" => changes # {} \/ phase = "stopped"
       /\ answer[c] = "[upstream error]" => changes # {} \/ Head(called[c]) \in Servers

\* A startup ends, and so does every call that waits for no user.
EveryCallEnds ==
  <>[](/\ phase \in {"serving", "stopped"} \cup Failures
       /\ \A c \in Chats : pc[c] \notin {"cleared", "sent"})
=============================================================================
