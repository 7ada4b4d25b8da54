# TLA+ models of ai-assistant-client

Specifications, model-checking runs and machine-checked proofs for the parts of
`ai_assistant_client` whose correctness depends on the order of things: a
human's confirmation racing a timer and a disconnect, recorders that are closed
while a write is in flight, appends that race each other in a database, a turn of
the agent that may stop anywhere, memories that two processes change between each
other's statements, tool servers that are asked twice, a reply that reaches history
through four different adapters. Every definition translates the source;
`PROJECT.json` maps it to the lines it stands for.

    cd tla
    tlc -workers 2 -config SeqAppend.cfg MCSeqAppend.tla    # one run
    tlapm SeqAppendProofs.tla                               # one module's proofs

A definition whose comment begins with "Faulty variant" is not part of any
specification. It is a plausible bug of the definition that follows it;
substituting it must break the property that `PROJECT.json` ("mutants") names,
which shows that the property depends on that line of the code.

## 1. Inventory

The program is one Starlette process (or several behind Redis and a SQL database).
All of its concurrency is asyncio: coroutines interleave at `await`s and `yield`s,
and `asyncio.to_thread` hands blocking store calls to threads that survive the
cancellation of whoever awaits them. Clients are SSE readers that may vanish at
any moment.

| Component (source) | State | Operations | Talks to | What is hard | Correct when |
|---|---|---|---|---|---|
| Agent loop (`agent.py`) | `history`, iteration, retries, pending calls | `run_agent`: record, ask the model, gate, dispatch, validate, retry | provider, registry, stores, gate, workflows | leaves at any yield; store failure between two appends; nested budgets | store mirrors history; calls and results pair; a tool that acted is on record; cost is bounded |
| Confirmation gate (`agent.py`, `app.py`, `workflows/runtime.py`) | the awaited future, `outstanding` ids, the stream | hook, `wait_for`, `event_iter`'s cleanup, `POST /chat/confirm` | a confirmation store | decision, timer, task cancellation and generator close race for one future | one decision at most; a tool runs on consent only; every pause ends |
| `InMemoryStore` (`confirmation_store.py`) | `_futures` | register, resolve, cancel | gate, HTTP endpoint | entries that outlive their pause | 200 means delivered, 404 means nobody waits, nothing leaks |
| `RedisStore` (same file) | `_futures`, `_tasks`, a channel per id | register + subscriber task, publish, cancel | Redis | SUBSCRIBE in flight, connection loss, several POSTs | first acknowledged decision wins, whatever is lost |
| Workflow runtime (`workflows/runtime.py`) | background task, event queue, a context variable | `run_workflow`, `pause_for_confirmation`, `emit_status` | handler, gate, recorder | reader waits on a queue only the task fills; abandonment | ends with a terminal event; an abandoned task stops |
| Recorder (`workflows/replay.py`, `persistence/transcript.py`) | outcome, header, events, footer | `run_workflow_recording`, `replay_workflow` | transcript store | closed during an append; failing store | footer and tool result never claim more than is recorded |
| SQL stores (`persistence/sql_*.py`, `asyncpg_*.py`, `aiomysql_*.py`) | tables, one connection or a pool, lock, `_initialized` | schema, append, read, header, footer, memory CRUD | database, other processes | MAX+1 races, snapshots, shared transactions, cancelled calls | dense, once, in order, acknowledged means committed |
| File stores (`persistence/file.py`, `conversation_file.py`, `user_memory_file.py`) | JSONL files, in-memory state | append, load, compact | file system | torn last line, crash in compaction, cancelled appends | acknowledged lines survive a reload |
| In-memory stores (`memory.py`, `conversation_memory.py`, `user_memory_local.py`) | dicts | the same protocols | agent | none | reference behaviour of the protocols |
| Memory tools (`memory_meta.py`, `memory_prompt.py`) | user memories | remember, recall, update, forget | memory store | statements of two processes between each other's, reads that leave a transaction open | what is listed, shown and kept is what the calls amount to |
| Tool registry and MCP pool (`discovery.py`, `mcp_pool.py`) | index, catalog, loaded set, sessions | open, index, list, search, load, call, close | MCP servers | two listings of one server, shared names, one loaded set for all chats, closing under calls | a gated tool runs on consent; what is shown can be called; sessions end |
| Providers (`llm/`) | none between calls | `stream_turn` | vendors | interleaved fragments, missing ids, regrouped messages | a reply arrives whole; a request is acceptable |
| Validation (`validation/`) | none | cite, resolve, compare, audit | auditor model | paths that mean nothing, ids shared by two calls | what passed is true of the tools' results |
| Visuals (`visuals/`) | none | parse, check | | data only | schemas |
| Workflow catalogue and graph (`workflows/decorator.py`, `registry.py`, `loader.py`, `graph.py`) | registry | register at import; draw a transcript | files | pairing of requests with resolutions in the drawing of a run that may stop anywhere | the drawings tell the run |
| Set-up (`persistence/factory.py`, `migrate.py`, rest of `app.py`) | environment | open stores, add columns | | none at run time | |

The hazards this leads to, with their lines and the properties that watch them,
are listed in `PROJECT.json` ("hazards"). Those with no property say why.

## 2. What models what

### 2.1 Confirmation: `Consent`, `ConfirmationGate`, `InMemoryConfirmation`, `RedisConfirmation`

`ConfirmationGate` is the asking side that both stores share, with the futures of the
store, the answers it gave to POSTs (`acks`, `refused`) and what both must keep: who
acknowledges what, and what follows from it. A step is one
uninterrupted run of a coroutine on the event loop, so everything that can happen
between a future's completion and the wake-up of the task behind it does happen.
Its actions take a pause from the yielded request event (`AskGate`), through the hook
(`EnterHook`: list the id, register, await), to a decision (`DecisionWakes`), a timer
(`TimerFires`, then `TimeoutWakes`) or a cancellation (`CancelWakes`), and on to the
guarded step (`Proceed`). A disconnect comes in two ways: during an await
(`DisconnectAtAwait`, the task is cancelled) and at a yield (`DisconnectAtYield`, the
generator is dropped and `CloseGenerators` closes the inner ones later). `wait_for` is
modelled as Python 3.12, the version of the image, builds it.

`InMemoryConfirmation` completes every action with `_futures`. `RedisConfirmation`
does the same with the subscriber task (`sub`), what Redis has delivered and nobody
read (`chan`), SUBSCRIBE taking effect late or failing, and connections lost. POSTs come
from any worker, so PUBLISH is modelled by who is subscribed and not by who waits.

`Consent` is the abstract promise of both: a pause ends once, by the first
acknowledged decision or by giving up, and the step behind it runs on consent only.
Both stores are checked (`KeepsThePromise`) and proved to implement it, in the one
module `ConfirmationProofs`, as both proofs rest on the same facts about the gate.

### 2.2 One turn: `AgentTurn`

`said` is what the turn appended to `history`, `store` is its copy in the conversation
store, and an append that a leaving client cancelled is an `orphan`: its thread goes
on and may still write. A message is its kind, its calls and its stop reason. The
actions are the turn's stations: record, ask (`AssistantSpeaks`), handle one call
(`AnswerInPlace` for declined, unknown, malformed and meta-tool calls; `Act` and
`ToolAnswers` for one that reaches a tool), send the results, validate (`SayFeedback`,
`Complete`), and the ways out: `RecordFails`, `Raises`, `Leave`. What the gate or a
workflow does inside one call is the business of the other modules.

### 2.3 One recorded workflow run: `RunRecord`, `WorkflowRun`

The background task (`body`), the queue (`emitted` minus the first `taken`), the two
nested generators (`reader` and `inner`), the transcript (`log`, `footer`, an `orphan`
append and a `late` footer, which their threads may still write when nobody awaits them any more) and what the agent saw (`delivered`, `reported`). The handler is taken as one
sequential task that emits, pauses, returns or raises as it likes; it may also catch
its cancellation and return or raise. A store call takes effect in one step
(`AppendLands`, `FooterLands`) and its await resumes in another (`YieldEvent`, `WriteFooter`); it may
raise, or be cancelled, before either, and then still take effect (`OrphanEnds`, `LateFooterEnds`). A generator that is abandoned is closed by a
task of its own, some time later, as the event loop's async-generator hook does.

`RunRecord` is what all this promises a reader of the transcript: events are recorded one
by one, each before it is shown and shown before the next is recorded; the record is marked at most
once (`Mark`), perhaps when its reader is gone, as a result if the whole of a run that returned was shown and
as an error if not; a result is told only when it is marked; and no late write, late event or second footer
changes what the mark says. `WorkflowRun` implements it (`IsARecord`, checked and proved).

### 2.4 SQL appends: `AppendLog`, `SeqAppend`, `SqlConnection`

`SeqAppend` is the loop `SELECT MAX(seq)+1`, `INSERT`, `COMMIT` that the sync, asyncpg
and aiomysql stores share, for conversations and for transcripts, one statement a
step, between processes: unique-key waits, collisions, retries, lost replies, process
death (`Abort`), and, when `Snapshots` is set, MySQL's REPEATABLE READ with a snapshot that an
earlier `read()` left open. The table implements `AppendLog` (`IsALog`): an
append-only sequence whose acknowledgements come after the fact. The check of a
transcript's header before its events is a read that only ever raises, and is part
of `Abort`.

`SqlConnection` opens up what `SeqAppend` takes as one writer: the calls of one process
on one DB-API connection. The transaction is the connection's, so a call's commit
keeps, and its rollback drops, whatever is pending. Each store has a lock; the schema set-up
runs outside it; a cancelled call releases it while its thread goes on. Semantics are
sqlite's: statements are atomic, a failed statement leaves the transaction open, an
open write transaction keeps other processes out. (In PostgreSQL a failed statement dooms
the transaction and so loses at least as much.)

### 2.5 The file memory store: `FileMemory`

One user's JSONL log (`user_memory_file.py`; `file.py` and `conversation_file.py` append
their lines the same way). The file is the `lines` that parse, in order, and the texts
on its last, unfinished line (`open`). A short line lands in one step (`WriteLine`), one beyond the
write buffer in two (`WriteStart`, `WriteEnd`); whatever lands behind another's
unfinished text does not parse, and a text cut inside a character (`Tear`) makes the file
one that no reader can decode (`garbled`, `Unreadable`), until it is unlinked or replaced. `update` and `remove` look up and append in two threads
(`Find`, `WriteLine`), `forget_all` counts and unlinks (`Count`, `Unlink`), `compact` copies what
`load_records`, a recursive function of the log, replays and renames (`Copy`, `Replace`). The user's lock is held
throughout, but a cancelled call (`Cancel`) gives it up while its thread goes on, also
on a file that was meanwhile replaced (`stray`). `WriteFails` is the full disk, `Crash` the end of
the process. `due` is what the calls amount to, whatever can be read of them;
`torn` are the lines left without their end; `mixed` says that a call was let in while
another's thread was still running, which voids the promises.

### 2.6 User memories in SQL: `UserMemory`, `SqlMemory`

`SqlMemory` is the table behind `SqlMemoryStore` (sync, one connection, a lock),
`AsyncpgMemoryStore` and `AiomysqlMemoryStore` (a pool), one statement a step, between
processes. A memory tool's request becomes a method (`Method`); every write is a SELECT
(`SelectMax`, `SelectOne`, `SelectCount`, `NotFound`), a statement (`Insert`, `UpdateRow`,
`DeleteRow`, `DeleteRows`) and `Commit`; a read is one statement (`Get`, `List`). The
dialect decides what a read of the sync store leaves behind, as it never ends its
transaction: on MySQL a snapshot (`view`), on PostgreSQL after a failed read a
transaction that refuses every statement (`aborted`). `Fail` and `LostReply` are the
database's faults. A written row is locked until its transaction ends (`RowsFree`).

`UserMemory` is what `persistence/user_memory.py` promises, in the words of
`LocalMemoryStore`: a map of memories that only its owner's calls change. `SqlMemory`
implements it (`IsAMemoryStore`, checked and proved). An add's memory is named by its call, since its id is
fresh, and so is the value a call writes.

### 2.7 Tools: `ToolPool`

`lifespan` opens the servers one by one (`OpenTransport`, `IndexServer`), lists them again
(`ListServer`), builds the registry (`BuildRegistry`, or `RefuseDuplicates`) and serves, until
`Shutdown`. The pool's exit ends one session after the other (`EndSession`, `Stop`), under the calls in flight. A server may publish something else between any two requests
(`Republish`), and each request may fail, with the pool being closed behind
it (`ListFails`) or not (`OpenFails`, `ListCancelled`, `FinishStart`). A chat may search, load, and call one tool, found
or not: `Call` is the agent's lookup, `Confirm` and `Decline` its gate, `Dispatch` and `Answer`
the pool's `call_tool`. Names are sequences of parts, so that the qualification `server.name`
and its removal in `call_tool` are what they are in the code.

### 2.8 Replies, requests and verdicts: `ModelStream`, `ProviderMessages`, `Validation`, `GroundedTurn`

`ModelStream` has the stream of each provider (external: one action per kind of chunk, and
`flow` says how far it has sent the reply), the events that the four adapters make of a
chunk, and `run_agent`'s collector. `ProviderMessages` has the requests
that the adapters make of history, the cache hint with its marker, and what a provider
demands of a request (external). `Validation` has JSON paths with their filters, the
comparison of a displayed value with a found one, citations, the auditor's verdicts, and the
four modes. `GroundedTurn` takes a turn through them chunk by chunk: `Ask`, `Chunk`,
`StreamEnds`, `ToolsAnswer`, `Judge` with its feedback, or a stream that breaks.

`Listing` has what these modules pick out of sequences and join to one. It stands for no code;
its operators are defined by positions, and not as folds, so that the proofs can count.
`GroundedTurn` and `AgentTurn` are two halves of one loop, of what its messages carry and of
when they are stored and acted on; their names differ, so that one module of proofs has both.

Text is a sequence of pieces and a displayed value is what its parsers would find in it
(numbers, percentages, dates), so regular expressions and number words are abstracted.
`IsTrue`, with which `PassedIsTrue` is stated, gives a path its meaning by the nodes that
its segments select and does not use the resolver's `Step`. It speaks of `Straight` paths: closed
ones that ask many nodes for nothing but a key, as only a key is asked of each item.

### 2.9 The drawings: `TranscriptGraph`

The three diagrams of `workflows/graph.py` as functions of a transcript, evaluated on the
transcript of every reachable state of `WorkflowRun`, which it extends, and on a few ways in
which the events may be stamped.

## 3. Runs

| Run | Question | Bounds |
|---|---|---|
| `in_memory_confirmation` | Do POSTs, timers and disconnects of two chats on one store end each pause once, by the acknowledged decision, on consent only, and always? | 2 streams; a gate and a workflow pause in one, a workflow pause in the other |
| `redis_confirmation` | The same over Redis, with lost subscriptions and repeated POSTs, and a timeout that counts as consent | 1 stream, a gate and a workflow pause, 2 acknowledged POSTs per pause |
| `agent_turn` | Does the store mirror history, do calls and results pair, is every act on record, do the budgets hold, does the turn end? | 2 rounds, 1 retry, 2 calls a message |
| `workflow_run` | Do transcript, footer, tool result and drawings tell the truth, whoever leaves or fails, is a footer the only one and right, also a late one, does an abandoned workflow stop, and does a reader get its last event? | 4 events, 4 ways of stamping them, one by a clock that steps back |
| `seq_append` | Is a message stored in order, and once when acknowledged, does a writer give up only under contention, does every call end, is the table a log? | 2 writers, the code's 3 attempts, 3 appends each, pinned snapshots |
| `sql_connection` | On one connection, with cancellations: is nothing acknowledged lost while threads stay apart, and nothing left behind? | 2 calls on one store, 1 on another, 2 attempts, 1 foreign row |
| `sql_shared_connection` (violation) | Are two stores on one connection safe? No: see findings | 1 call on each of 2 stores |
| `file_memory` | With torn lines, crashes and cancellations: what can a restart fail to read back of a file that decodes, does the erased stay out of the log, does every call end? | 2 adds, 1 update, 1 removal, 1 erasure, 1 compaction |
| `file_memory_erasure` (violation) | Does forget_all leave nothing behind? No: see findings | same |
| `user_memory` | Are memories listed in order, are reads current, does a write end its transaction, is the table a store of memories, does every call end? | of 2 adds, an update, a removal, an erasure, a list and a get of one user, any 4, on a sync and a pooled store, 1 fault, PostgreSQL and MySQL |
| `tool_pool` | Do gated tools run on consent, can what is shown be called, do sessions and calls end? | 2 servers with 3 offers, configured none, twice the same, or both; 1 chat, a workflow, 1 change, 1 fault a startup |
| `grounded_turn` | Does a reply arrive whole, is every request acceptable, is what passed true? | 4 providers, 5 settings; 3 requests, 2 calls, 1 retry and 1 citation a turn, of 13 paths and 6 displayed values, over 3 results |

Why the bounds are enough. A pause interacts with the pauses of its own stream (one
list of ids, one cleanup) and, through the store, with those of another stream: two and one cover both.
Redis channels are per request, so a second stream would add nothing there; two
acknowledged POSTs are the least that can disagree. In `AgentTurn` both budgets can run
out, a message can have none, one or several calls, and a retry can follow each. In `SeqAppend`
a writer can lose all its attempts to the other, and one to a stale snapshot. A run with
`Snapshots` shows what the databases without them do as well, when no `ReadAll` is taken. In `SqlConnection` a thread can meet a
cancelled sibling of its own store, a thread of another store and another process, and
lose both its attempts. In `FileMemory` every kind of call meets every other in any order, and each
line can be torn; one user is enough, as users share only the directory. In `SqlMemory` four calls are one
that adds, one that reads or leaves a transaction open, and two that overlap; users are kept apart by
the WHERE clause of each statement and one is enough to see what overlapping calls do. In `ToolPool` two servers are
the least that share a name; the offers hold a gated and an ungated tool of one name, a name that begins with
its server's, and one of the registry's own; chats share the registry and nothing else, and one that calls
what it did not search stands for those that use what another loaded. In `GroundedTurn` two calls can
interleave their fragments, two rounds can share an id, and the paths hold each kind of segment. The proofs below drop these bounds.

`CHECK_DEADLOCK FALSE` is set everywhere because everything modelled may really stop:
a turn, a run and a stream end, and a host need not start another append.

### Fairness

* Confirmation: only `Wake` and `Expire`, that is, the event loop resumes ready tasks and
  fires its timers. Clients, Redis and the human owe nothing.
* `WorkflowRun`: the loop resumes a cancelled task, and a reader whose queue is not empty, and
  closes a dropped generator; the store answers, and the recorder's `finally` completes. Handlers, hooks and readers may stall for ever.
* `AgentTurn`: the provider, tools, gate, auditor and store answer or raise. The code
  sets no timeout of its own around the dispatcher or the provider, so `EveryTurnEnds` holds only
  under that assumption; it says that the turn's own loops end.
* `SeqAppend`, `SqlConnection`: pool threads run and the database answers each statement; a free
  lock is given to a waiter. Nothing makes a host call, fail or cancel.
* `SqlMemory`: the same, once a call is begun. `ToolPool`: the host's startup and shutdown
  run on, and servers answer or fail; a user need not answer the gate, and nobody need
  stop the host. `GroundedTurn` states no liveness; `EveryTurnEnds` covers its loops.
* `FileMemory`: the same; here "new" covers waiting for the lock, so fairness
  of `Acquire` also means that every call of the run is made.

### Findings

Two runs end in a violation:

1. `sql_shared_connection`: the README builds both SQL stores on one connection and
   calls the lock sufficient within a process. The locks are per store: a failing
   append of one store rolls back the other's uncommitted row, whose commit then
   has nothing to commit and whose caller is told that all is well.
2. `file_memory_erasure`: `forget_all` is documented to delete the file outright, and a torn
   line to be dropped on read. A line cut inside a multi-byte character makes every read
   raise `UnicodeDecodeError`, and `forget_all` reads, to count, before it unlinks: nothing
   can be read or erased any more. A second way to break the property takes longer: a crash
   between the copy and the rename of a compaction leaves `<user_id>.*.jsonl.tmp` with the
   memories, and nothing ever deletes it.

Behaviours that the models contain, that differ from a comment or that a reader may not
expect, and that need no run to be seen:

* Confirmation. The cleanup of `event_iter` is there so that futures of a cancelled stream do
  not leak (`app.py:246-248`, `283-285`), but the hook's `finally` unlists an id before the
  cleanup looks at the list, so the future of each pause that a timer or a disconnect cut short
  stays in `_futures`; `OnlyCutShortStaysRegistered` says that nothing else does. A pause whose decision
  was answered 200 may still expire: between `set_result` and the next step of the waiting task
  `wait_for`'s timer may cancel that task (since Python 3.12), and the decision is lost. Over Redis a POST
  is answered 404 when the subscriber task has not subscribed yet
  (`confirmation_store.py:169`), although the agent waits.
* Workflow. `run_workflow`'s docstring says that the last event is always a result or an
  error. A handler task that ends by cancellation puts neither on the queue
  (`runtime.py:286`), and the reader waits for ever; `NeitherIsLeftBehind` excepts just this.
* Memories. The `seq` of overlapping adds may be the same, without an error. On MySQL
  the sync store's reads leave a snapshot open, in which later lists are outdated and
  later adds misnumbered, until a write (`sql_memory.py:171`), although `list()` is to return every
  memory of its user (`user_memory.py:117`); on PostgreSQL a read that
  failed makes the calls behind it fail until a write rolls back. Of two removals that
  overlap both may succeed (`user_memory.py:141-143`), an update succeeds on a row that was
  deleted meanwhile, and the number that `forget_all` returns may be off (`150-153`). The remember
  tool tells the model that a key overwrites (`memory_meta.py:157-158`); each add is a new record.
* Tools. The pool "owns the lifetime of the MCP sessions" (`mcp_pool.py:7-9`), and a test shows that a
  startup whose listing raises closes it. When a later server fails inside `__aenter__` (`mcp_pool.py:98`), when the startup is
  cancelled in the listing (`app.py:144` catches `Exception`), or when a store or the provider fails
  behind it (`app.py:155-182`), nobody closes the sessions: the phases "failed to open", "failed to list" and
  "failed to finish" are reached with sessions open and stay so. The registry refuses
  two tools of one name, so the pool's qualified names never come into use in this host.
  `call_tool` removes `server.` from a name also when the pool did not add it
  (`mcp_pool.py:172`). A server's tool named like a meta-tool is shadowed. The loaded set
  grows for the life of the process and for all its chats (`discovery.py:21`).
* Replies. Gemini's made-up ids start again with each reply, and any call makes its reply a
  `tool_use`, at the token limit too. A reply cut off in its calls, or an empty one, is
  recorded (`agent.py:337`) and makes the next request one that a provider may refuse:
  `RequestsAreAcceptable` excepts just these. OpenAI's and Gemini's requests drop `is_error`.
  `CacheHint` documents -1 as all but the last message; the adapters would mark the last.
  The agent never sends it.
* Validation. A path with an unclosed bracket is the whole document (`jsonpath.py:117`). An index
  or star behind a star applies to the projected list. Free text that does not show a value
  only warns, an auditor that fails has no objections, and a turn whose rounds are
  used up completes unvalidated.
* Drawings. A Gantt section line is written the first time only, so a later bar falls under
  whichever section was written last (`graph.py:299-302`), and a bar of no length stays so
  in a run of no length.

## 4. Proofs

The `*Proofs` modules hold theorems for every value of the constants, under the
modules' named `ASSUME`s only (budgets are naturals, attempts are positive, and the
like). Each has one inductive invariant, one lemma or step per action, and corollaries.

| Module | Inductive invariant | Why the property alone is not inductive |
|---|---|---|
| `ConfirmationProofs`, in memory | `InMemoryInv` = types, `GateInv` (how phase, future and verdict go together), `FuturesInv` (a decided future has exactly its one acknowledgement, an entry outlives only a pause that was cut short) | a verdict is copied from the future, so the future must match the acknowledgement first |
| `ConfirmationProofs`, over Redis | `RedisInv` = types, `GateInv`, `StoreInv`: what is queued for the subscriber is what was acknowledged, in order | the first message read must be the first acknowledged |
| `AgentTurnProofs`, first part | `TurnInv` = types, `Placed` (what the last message is at each station), `Answered`, `Budgeted` (rounds asked, against those the spent retries paid for), `Stored`, `Follows`, `Acts` | the cost bound needs the count per attempt; pairing needs that answers so far match the calls in order |
| `AgentTurnProofs`, second part | `GroundedInv` = `WholeInv` (while a reply streams, `Flowing`: how far the provider is, and `Hearing`: the collector has the prefix of the reply that was sent; behind it, the message is the reply), `IsHistory` (questions, replies, and answers to these), `Prompted` and `Dispatched` (which of them is last), `Requested` (the request is what history was turned to), `Judged` (the verdict is `Validate`'s of the reply's text) | a reply is whole at its end only if every prefix was; calls are answered behind a reply because every message of history is one of three kinds and each becomes such messages |
| `WorkflowRunProofs` | `RunInv` = types, `Progressed` (how far store and agent trail the queue, per station), `Faithful`, `TerminalIsLast` (nothing follows a result or an error), `OutcomeIsEarned`; on top of it `Drawable` (a decision directly follows the request it answers, a returned task put its result last) | an orphan append may write after the footer, and a late footer after its reader: `Progressed` and `OutcomeIsEarned` say what either will write; a drawing remembers only the last request it saw |
| `SeqAppendProofs` | `AppendInv` = types, `WriterInv` (what each program point knows of `MAX(seq)`), `OneCommits`, `Past`, and the properties | density needs that only one INSERT can hold the next key |
| `SqlConnectionProofs` | `ConnInv` = types, `Locked` (who is inside holds the lock or is cut loose), `Fresh` (a call has no row before its INSERT), `Owned` (an uncommitted row belongs to a call about to commit), `OncePerCall`, `Numbered` (a number to insert is at least 1), `Bounded` (so that `MAX(seq)` exists), and, while threads stay apart, `Apart` (one thread runs at most, rows have neither gaps nor doubles) | that the next number is `MAX(seq) + 1` stays true until the INSERT only if nobody else's row can arrive in between, which is what the lock gives and `Apart` states |
| `SqlMemoryProofs` | `MemoryInv` = types, `Shapes` (tables and snapshots are finite maps to rows), `OneAtATime` (a store without a pool serves one call), `Past` (a memory is committed once, and asked for only then), `Holding` (a call about to commit holds every row that it is to change and that is there, and shares none), `Numbered` (a row lies behind those its add came after), `Lasting` (what a call that returned did is not undone) | the refinement needs at COMMIT what the statement saw before it: that row locks kept the rows between the two is `Holding` |
| `ToolPoolProofs` | `PoolInv` = types, `Ordered` (what each phase of the host has built), `Routed` (while nothing is republished, a name leads to the server that publishes it), `Listed`, `Catalogued` (the catalog describes each tool as its server did), `Asked` for each chat, `Sent` for each request that a server ran | consent is asked by the catalog and the tool runs by the index: the two must agree on a name from startup on |
| `FileMemoryProofs` | `FileInv` = types, `Placed` and `Known` (what each program point has found and copied), `Locked`, and, while threads stay apart, `Gone` (nothing erased is in the log) and `Owed` (memories read wrongly, and the text that the next line is glued to, number no more than the torn lines) | a torn line costs nothing when it is written, only when the next line is glued to it: `Owed` counts both |

What they establish is listed in `PROJECT.json` ("theorems"): type correctness and every
safety property of the runs of these modules, `RefusedMeansNobodyWaits` and
`WritesLeaveNothingOpen` among them, which are about steps; and besides
`RunsOnlyOnConsent` and `OneAck` (implied by `KeepsThePromise`), `Dense`, `AckedIsStored` (implied by
`IsALog`), `RecordedInOrder` (implied by `IsARecord`) and `OncePerCall`, which the runs no longer check since the theorems do, `KeptApart` (the lock keeps a store's threads apart
but for those cut loose), and `AppendOnly`. Five refinements of four abstract specifications are proved step by step:
both confirmation stores implement `Consent`, the append loop implements `AppendLog`, the
recorded run implements `RunRecord`, and the memory table implements `UserMemory`. In the last one a COMMIT, also
one whose reply is lost, is the operation, or nothing when its row was gone; every other step stutters.

The three theorems about `GroundedTurn` hold for any replies, tool results, paths and settings.

* `RepliesArriveWholeHolds`. `Hearing` says what the collector has of the text and of each
  input after any number of chunks; one lemma for each event (`HeardStart`, `HeardInput`, ...)
  and one for each chunk (`HearCallBegins`, ...) keep it, and `EndOfStream` draws the reply
  from it. Fragments that take turns are told apart by the calls' indices, which are consecutive
  (`AnnouncedFacts`), so that their order is the reply's (`KeyOfItems`).
* `RequestsAreAcceptableHolds`. A faithful message has one part for each block
  (`FaithfulReply`, ...), and OpenAI's regrouped messages are proved apart (`OpenAIAnswer`, ...); a
  reply becomes one message with its calls and an answer becomes messages that hold its
  results in order. `ConcatFacts` says where each lies in the request, and `MessagesAcceptable`
  that the calls of one are answered by what lies right behind it.
* `PassedIsTrueHolds`. `ResolveIsMeant`: along a straight path each prefix reaches one value, or
  the list of the nodes that are selected (`Tracks`). A verdict that passed found no error with any citation
  (`PassingCitations`), so the displayed value is the resolved one, which is the meant one, or the
  result has a null there, which `NoneIsLegitimate` tells from nothing (`PathExists`).

The last proof did not go through at first, for a good reason: `Straight` used to let a key be asked
of a list that was reached by single segments, as in `$.rows.a|sum`, which `Selected` took for no
node and the resolver projects (`jsonpath.py:133`, a documented form). No path of the run had that form. `Selected` now
spreads such a list into its items (`Spread`), and the run has the path. The proofs also
made the streams actions, one per chunk, where whole sequences of chunks had been precomputed, which widens
what the run explores: any order of a provider's chunks that its format allows.

Several proofs are about recursive functions: what a log replays to (`FileMemoryProofs`),
what a chart holds when so many events, or bars, are drawn (`WorkflowRunProofs`), what is
joined of so many sequences, and what a path of so many segments reaches (`AgentTurnProofs`). The
library's induction takes an operator, so each defines the set of numbers up to which its claim
holds and closes it by the lemma `UpTo`, which is proved from the well-foundedness of
`<`. That the functions exist at all is proved the same way (`DrawingExists`,
`JoiningExists`, `ReachingExists`).

The assumptions are few and each is what the code, or its host, guarantees: budgets and bounds are
naturals and attempts are positive; a server publishes finitely many tools; a
request names one of the tools or methods. `GroundedTurn` assumes that replies and paths are sequences of the parts
that it names (`RepliesAssumption`, `PathsAssumption`), and that JSON values are finite, of one kind each, and made of JSON
values (`JsonAssumption`), as `json.loads` makes them. Two deserve a word. `StampingsAssumption` says
that no event is stamped before the run's `started_at`: both come from the same wall clock, later
and earlier, which may step back within a run but not behind its start, else the sliver that
`graph.py` gives to a bar of no length could be negative. And `FileInv` and `ConnInv` promise
the store's properties only while threads stay apart (`~mixed`, `KeptApart`), as the
properties of the runs do; when they do not is a listed hazard.

Only model-checked: every liveness property, as fairness and ENABLED are beyond the proof
system's reach, and the violations. Every invariant and every action property of the runs is a theorem. No module uses a
RECURSIVE operator.

## 5. Abstractions and what is left out

* Messages, events and arguments are their kind and what the properties compare; no text.
* A store call takes effect at one instant, or fails; cancelled, it may still do either.
* `RedisStore.aclose`, malformed pub/sub payloads and the growth of its two dicts with
  answered pauses are left out. The last is plain from the code: only `cancel` pops them.
* The gate without a hook (`agent.py:647-657`), which confirms at once, is left out: the host always
  installs one. A lost Redis connection stays lost for its pause: the store builds its client without
  a retry policy. One that subscribed again by itself could only let a later decision through.
* A workflow that returned is reported to the model as failed when its transcript store fails. The model
  contains it and no doc says otherwise, so it is a listed hazard without a property. So are the
  acknowledged decision that a timer overtakes, and the sessions of a failed startup: a property that holds would only
  repeat what the code does.
* In `FileMemory` a line is one unit of text, and half a line that is still being written
  counts as decodable. A whole text without its newline, readable until the next append is glued to it, counts as torn. A crash
  during the copy leaves the whole copy, of which any part is already a leftover.
* `KeyError` for events before a header is part of `Abort` in the SQL models and of a
  failing append in `WorkflowRun`, whose recorder always writes the header first.
* `SqlMemory` leaves out the schema set-up (the same as in `SqlConnection`), cancellation
  (there too), `list_users`, filters by tag and text, vector search, and the arguments that the tools refuse.
* `ToolPool` takes the opening of a transport and its session as one step, and gives each chat one
  call; the score of a search is any.
* `GroundedTurn` has no store, gate or client: `AgentTurn` has. Prompts, tool schemas, the
  wording of feedback, regular expressions, and the order of strings in filters are left out.
* Not modelled: visuals (schemas and their checks), the registration and loading of
  workflows at import, `persistence/factory.py` and `migrate.py` (environment variables, and
  idempotent statements run once), vector search, `list_users`, `list_runs` and the other
  listings, headers and footers of the SQL transcripts beyond their order (`WorkflowRun`),
  and static files, health checks and logging. They are reads, wiring or data without order.

## 6. Plan

Done, in this order: confirmation, SQL appends, recorded workflow, agent turn, shared
connection, file memory, SQL memories, tools, replies with requests and validation, drawings;
then the proofs of each.
Next:

1. `FileLog`: headers, footers and reads of the JSONL transcript and conversation stores.
2. Cancellation in `SqlMemory`, as `SqlConnection` has it.
3. `GroundedTurn` with `AgentTurn`'s rounds and budgets as a refinement: both describe one loop, and
   the proofs about each use nothing of the other.
