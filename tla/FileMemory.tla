----------------------------- MODULE FileMemory -----------------------------
(***************************************************************************)
(* One user's log of FileMemoryStore: add, update, remove, forget_all and  *)
(* compact over one JSONL file, with lines that are half written, threads  *)
(* that outlive their call, and crashes.                                   *)
(*                                                                         *)
(* A line longer than the write buffer reaches the file in two pieces, the *)
(* end of it with its newline.  Text that is left without its end stays on *)
(* the last line, and whatever is appended next is glued to it: the joint  *)
(* line does not parse and is skipped on read.  So the file is the lines   *)
(* that parse and the texts on the unfinished last line.  A text that is   *)
(* cut inside a character makes the file one that cannot be decoded.       *)
(*                                                                         *)
(* The memory that an add creates is named by the call, as every add has a *)
(* fresh id, and so is the value that a call gives to a memory.            *)
(***************************************************************************)
EXTENDS Integers, Sequences, FiniteSets

CONSTANTS
  Calls,   \* calls on the user's log, each made once
  Kind,    \* from a call to the method it calls
  None

Kinds == {"add", "update", "remove", "forget_all", "compact"}

ASSUME FileMemoryAssumption ==
  /\ Kind \in [Calls -> Kinds]
  /\ None \notin Calls

VARIABLES
  exists,   \* whether the user's file exists
  lines,    \* its lines that parse
  open,     \* calls whose text is on its last line, which has no newline yet
  garbled,  \* whether some text of it was cut inside a character
  temp,     \* per compaction, the lines in its temporary file
  lock,     \* the user's asyncio.Lock: its holder, or None
  pc,       \* where each call, or the thread it left behind, stands;
            \* "new" when it is still to be made, or waits for the lock
  target,   \* the memory that each call is about, None for a call about all
  cut,      \* cancelled calls whose thread runs on
  stray,    \* threads that write to a file that was unlinked or replaced
  due,      \* the memories that the calls so far amount to
  torn,     \* calls that left a line without its end
  erased,   \* memories with something on disk when forget_all deleted it
  refused,  \* memories on disk when a forget_all could not read its file
  mixed     \* a call was once let in while another's thread ran on

file == <<exists, lines, open, garbled>>
ghosts == <<due, torn, erased, refused>>
vars == <<file, temp, lock, pc, target, cut, stray, ghosts, mixed>>

Adds == {c \in Calls : Kind[c] = "add"}

\* Calls that append a line; "compact" writes to a file of its own.
Appends(c) == Kind[c] \in {"add", "update", "remove"}

Record(c) == [op |-> Kind[c], id |-> target[c], value |-> c]

\* What a line does to the live memories (None: not there).
Apply(live, r) ==
  CASE r.op = "add" -> [live EXCEPT ![r.id] = r.value]
    [] r.op = "update" /\ live[r.id] # None -> [live EXCEPT ![r.id] = r.value]
    [] r.op = "remove" -> [live EXCEPT ![r.id] = None]
    [] OTHER -> live

NoMemories == [m \in Adds |-> None]

\* What the first n lines of a log amount to, line by line.
load_records(log) ==
  LET live[n \in 0..Len(log)] ==
        IF n = 0 THEN NoMemories ELSE Apply(live[n - 1], log[n])
  IN  live[Len(log)]

Live == load_records(lines)

\* Faulty variant of the compaction: updates are forgotten.
CompactedAsAdded(log) ==
  LET live == load_records(log) IN
    SelectSeq(log, LAMBDA r : r.op = "add" /\ live[r.id] # None)

\* One add per live memory, with its value as updated, in the order of the log.
Compacted(log) ==
  LET live == load_records(log)
      IsKept(r) == r.op = "add" /\ live[r.id] # None
      copy[n \in 0..Len(log)] ==
        IF n = 0 THEN <<>>
        ELSE IF IsKept(log[n]) THEN Append(copy[n - 1], [log[n] EXCEPT !.value = live[log[n].id]])
        ELSE copy[n - 1]
  IN  copy[Len(log)]

Init ==
  /\ exists = FALSE /\ lines = <<>> /\ open = {} /\ garbled = FALSE
  /\ temp = [c \in Calls |-> <<>>]
  /\ lock = None
  /\ pc = [c \in Calls |-> "new"]
  /\ target \in {t \in [Calls -> Adds \cup {None}] :
       \A c \in Calls : /\ Kind[c] = "add" => t[c] = c
                        /\ t[c] = None <=> Kind[c] \in {"forget_all", "compact"}}
  /\ cut = {} /\ stray = {}
  /\ due = NoMemories /\ torn = {} /\ erased = {} /\ refused = {}
  /\ mixed = FALSE

-----------------------------------------------------------------------------
At(c, place) == pc' = [pc EXCEPT ![c] = place]

\* Faulty variant: the lock is not given back.
OverAndLocked(c) ==
  /\ At(c, "done")
  /\ cut' = cut \ {c}
  /\ stray' = stray \ {c}
  /\ lock' = lock

\* The call returned or raised, or nobody waits for its thread any more.
Over(c) ==
  /\ At(c, "done")
  /\ cut' = cut \ {c}
  /\ stray' = stray \ {c}
  /\ lock' = IF lock = c THEN None ELSE lock

\* The thread of the call is through.
Through(c) ==
  IF c \in cut THEN Over(c)
  ELSE At(c, "return") /\ stray' = stray \ {c} /\ UNCHANGED <<cut, lock>>

\* The call gets the lock.
Enter(c) ==
  /\ pc[c] = "new"
  /\ lock' = c
  /\ mixed' = (mixed \/ cut # {})
  /\ At(c, IF Kind[c] = "add" THEN "write" ELSE "load")
  /\ UNCHANGED <<file, temp, target, cut, stray, ghosts>>

\* Faulty variant: the lock is not waited for.
AcquireAtOnce(c) == Enter(c)

\* async with self._lock_for(user_id)
Acquire(c) == lock = None /\ Enter(c)

\* update and remove look the memory up before they append.
Find(c) ==
  /\ pc[c] = "load" /\ Appends(c) /\ ~garbled
  /\ Live[target[c]] # None
  /\ At(c, "write")
  /\ UNCHANGED <<file, temp, lock, target, cut, stray, ghosts, mixed>>

\* KeyError
NotFound(c) ==
  /\ pc[c] = "load" /\ Appends(c) /\ ~garbled
  /\ Live[target[c]] = None
  /\ Over(c)
  /\ UNCHANGED <<file, temp, target, ghosts, mixed>>

\* The memories that something is left of, on one file or the other.
InLines(log) == {log[i].id : i \in DOMAIN log}
InFile == InLines(lines) \cup {target[c] : c \in open}
InTemps == UNION {InLines(temp[c]) : c \in Calls}

\* UnicodeDecodeError is no JSONDecodeError: whatever reads the log raises.
Unreadable(c) ==
  /\ pc[c] = "load" /\ garbled
  /\ refused' = refused \cup IF Kind[c] = "forget_all" THEN InFile \cup InTemps ELSE {}
  /\ Over(c)
  /\ UNCHANGED <<file, temp, target, due, torn, erased, mixed>>

\* The line of c is complete; it parses if it is alone on its line.
Land(c, alone) ==
  /\ exists' = TRUE
  /\ lines' = IF alone THEN Append(lines, Record(c)) ELSE lines
  /\ open' = {}
  /\ due' = Apply(due, Record(c))
  /\ Through(c)
  /\ UNCHANGED <<garbled, temp, target, torn, erased, refused, mixed>>

\* _append_line of a short line: one write.
WriteLine(c) == pc[c] = "write" /\ Land(c, open = {})

\* _append_line of a long line: all but its end ...
WriteStart(c) ==
  /\ pc[c] = "write"
  /\ exists' = TRUE
  /\ open' = open \cup {c}
  /\ At(c, "end")
  /\ UNCHANGED <<lines, garbled, temp, lock, target, cut, stray, ghosts, mixed>>

\* ... and its end, with the newline, to the file that was opened.
WriteEnd(c) ==
  /\ pc[c] = "end"
  /\ \/ c \notin stray /\ Land(c, open = {c})
     \/ /\ c \in stray
        /\ Through(c)
        /\ UNCHANGED <<file, temp, target, ghosts, mixed>>

\* The texts of these calls get no end any more, wherever they were cut.
Tear(calls) ==
  /\ torn' = torn \cup calls
  /\ garbled' \in {garbled, garbled \/ calls # {}}

\* The disk is full, or the like: what was written stays, and the call raises.
WriteFails(c) ==
  /\ \/ pc[c] = "write" /\ exists' = TRUE /\ open' \in {open, open \cup {c}}
     \/ pc[c] = "end" /\ UNCHANGED <<exists, open>>
  /\ Tear(open' \cap {c})
  /\ Over(c)
  /\ UNCHANGED <<lines, temp, target, due, erased, refused, mixed>>

\* forget_all counts what it will delete.
Count(c) ==
  /\ pc[c] = "load" /\ Kind[c] = "forget_all" /\ ~garbled
  /\ At(c, IF exists THEN "unlink" ELSE "return")
  /\ UNCHANGED <<file, temp, lock, target, cut, stray, ghosts, mixed>>

\* The threads that still have the old file open.
Strays == {c \in Calls : pc[c] = "end"}

\* path.unlink()
Unlink(c) ==
  /\ pc[c] = "unlink" /\ exists
  /\ exists' = FALSE /\ lines' = <<>> /\ open' = {} /\ garbled' = FALSE
  /\ due' = NoMemories
  /\ erased' = erased \cup InFile \cup InTemps
  /\ stray' = stray \cup Strays
  /\ IF c \in cut THEN At(c, "done") ELSE At(c, "return")
  /\ cut' = cut \ {c}
  /\ UNCHANGED <<temp, lock, target, torn, refused, mixed>>

\* FileNotFoundError, or any other OSError.
UnlinkFails(c) ==
  /\ pc[c] = "unlink"
  /\ Over(c)
  /\ UNCHANGED <<file, temp, target, ghosts, mixed>>

\* compact() writes the live memories to a temporary file ...
Copy(c) ==
  /\ pc[c] = "load" /\ Kind[c] = "compact" /\ exists /\ ~garbled
  /\ temp' = [temp EXCEPT ![c] = Compacted(lines)]
  /\ At(c, "replace")
  /\ UNCHANGED <<file, lock, target, cut, stray, ghosts, mixed>>

NothingToCompact(c) ==
  /\ pc[c] = "load" /\ Kind[c] = "compact" /\ ~exists
  /\ Through(c)
  /\ UNCHANGED <<file, temp, target, ghosts, mixed>>

\* ... and puts it in the place of the log.
Replace(c) ==
  /\ pc[c] = "replace"
  /\ exists' = TRUE /\ lines' = temp[c] /\ open' = {} /\ garbled' = FALSE
  /\ temp' = [temp EXCEPT ![c] = <<>>]
  /\ stray' = stray \cup Strays
  /\ IF c \in cut THEN At(c, "done") ELSE At(c, "return")
  /\ cut' = cut \ {c}
  /\ UNCHANGED <<lock, target, ghosts, mixed>>

\* It fails, removes the temporary file and raises.
CompactFails(c) ==
  /\ pc[c] = "replace"
  /\ temp' = [temp EXCEPT ![c] = <<>>]
  /\ Over(c)
  /\ UNCHANGED <<file, target, ghosts, mixed>>

Return(c) ==
  /\ pc[c] = "return"
  /\ Over(c)
  /\ UNCHANGED <<file, temp, target, ghosts, mixed>>

\* The call is cancelled: it gives up the lock.  A thread that has begun to
\* write runs on; one that has not may, or is never started.
Cancel(c) ==
  /\ c \notin cut
  /\ \/ /\ \/ pc[c] \in {"new", "load", "write", "unlink", "return"}
        /\ Over(c)
     \/ /\ \/ pc[c] \in {"write", "end", "unlink", "replace"}
           \/ pc[c] = "load" /\ Kind[c] = "compact"
        /\ cut' = cut \cup {c}
        /\ lock' = None
        /\ UNCHANGED <<pc, stray>>
  /\ UNCHANGED <<file, temp, target, ghosts, mixed>>

\* The process dies, with its threads, and another takes over.
Crash ==
  /\ pc' = [c \in Calls |-> IF pc[c] = "new" THEN "new" ELSE "done"]
  /\ Tear({c \in open : pc[c] = "end"})
  /\ lock' = None /\ cut' = {} /\ stray' = {}
  /\ UNCHANGED <<exists, lines, open, temp, target, due, erased, refused, mixed>>

Step(c) ==
  \/ Acquire(c)
  \/ Find(c) \/ NotFound(c) \/ Unreadable(c)
  \/ WriteLine(c) \/ WriteStart(c) \/ WriteEnd(c) \/ WriteFails(c)
  \/ Count(c) \/ Unlink(c) \/ UnlinkFails(c)
  \/ Copy(c) \/ NothingToCompact(c) \/ Replace(c) \/ CompactFails(c)
  \/ Return(c)

Next == Crash \/ \E c \in Calls : Cancel(c) \/ Step(c)

Spec == Init /\ [][Next]_vars

\* The loop runs its tasks, the lock is fair and threads come to their end.
FairSpec == Spec /\ \A c \in Calls : WF_vars(Step(c))

-----------------------------------------------------------------------------
Records == [op : {"add", "update", "remove"}, id : Adds, value : Calls]

TypeOK ==
  /\ exists \in BOOLEAN /\ lines \in Seq(Records) /\ open \subseteq Calls
  /\ garbled \in BOOLEAN
  /\ temp \in [Calls -> Seq(Records)]
  /\ lock \in Calls \cup {None}
  /\ pc \in [Calls -> {"new", "load", "write", "end", "unlink",
                       "replace", "return", "done"}]
  /\ target \in [Calls -> Adds \cup {None}]
  /\ cut \subseteq Calls /\ stray \subseteq Calls
  /\ due \in [Adds -> Calls \cup {None}]
  /\ torn \subseteq Calls /\ erased \subseteq Adds /\ refused \subseteq Adds
  /\ mixed \in BOOLEAN

\* What a restart reads back is what the calls amount to, but for at most one
\* memory per line that was left without its end, as long as none was cut
\* inside a character and no thread that its call left behind met another call.
TornCostsOne ==
  ~mixed /\ ~garbled => Cardinality({m \in Adds : Live[m] # due[m]}) <= Cardinality(torn)

\* Memories that forget_all deleted do not come back to the log.
StaysForgotten == ~mixed => erased \cap InFile = {}

\* forget_all "deletes the user's file outright": no memory outlives it because
\* its file could not be read, and nothing of them is left in any file.
Erased == ~mixed => refused = {} /\ erased \cap (InFile \cup InTemps) = {}

\* Every call ends, and gives the lock back.
EveryCallEnds == <>[](\A c \in Calls : pc[c] = "done")
=============================================================================
