----------------------------- MODULE Validation ----------------------------
(***************************************************************************)
(* What run_validation makes of a reply: the citations that it parses, the *)
(* values that their paths resolve to in the tool results of the history,  *)
(* whether the cited text displays that value, and when an auditor is      *)
(* asked.                                                                  *)
(*                                                                         *)
(* A JSON value is a record with one of the fields num (in hundredths),    *)
(* str, bool, null, list and obj; free text is the set of what occurs in   *)
(* it.  A displayed text is the set of its readings: the number it begins  *)
(* with, a percentage, a date, a pasted JSON value, and its words.         *)
(***************************************************************************)
EXTENDS Listing

Null == [null |-> TRUE]
Num(n) == [num |-> n]
ListOf(items) == [list |-> items]
Is(kind, v) == kind \in DOMAIN v

-----------------------------------------------------------------------------
\* jsonpath.py.  A path has segments, a filter or none, and may lack the
\* bracket that closes its last segment.
Key(k) == [kind |-> "key", key |-> k]
Quoted(k) == [kind |-> "quoted", key |-> k]   \* ["k"]
Index(n) == [kind |-> "index", at |-> n]
Star == [kind |-> "star"]
Where(k, op, v) == [kind |-> "where", key |-> k, op |-> op, value |-> v]

\* A bracket that is not closed empties the path: it means the whole document.
Segments(path) == IF path.closed THEN path.segments ELSE <<>>

Holds(v, k) == Is("obj", v) /\ k \in DOMAIN v.obj
Get(v, k) == IF Holds(v, k) THEN v.obj[k] ELSE Null

\* A key is projected through the objects of a list that have it.
Project(items, k) ==
  ListOf(MapSeq(Only(items, LAMBDA v : Holds(v, k)), LAMBDA v : v.obj[k]))

\* items[n]; a negative number counts from the end.
Item(items, n) ==
  LET i == IF n < 0 THEN Len(items) + n + 1 ELSE n + 1
  IN IF i \in DOMAIN items THEN items[i] ELSE Null

\* To Python, True is 1 and False is 0.
AsNumber(v) == IF Is("bool", v) THEN Num(IF v.bool THEN 100 ELSE 0) ELSE v

\* A comparison of values of two types is false; strings are not ordered here.
Compare(left, op, right) ==
  \/ op = "==" /\ left = right
  \/ op = "!=" /\ left # right
  \/ /\ Is("num", left) /\ Is("num", right)
     /\ \/ op \in {"<", "<="} /\ left.num < right.num
        \/ op \in {">", ">="} /\ left.num > right.num
        \/ op \in {"<=", ">="} /\ left.num = right.num

Fits(item, s) == Is("obj", item) /\ Compare(AsNumber(Get(item, s.key)), s.op, s.value)

\* The values of an object, in the order that it has.
Values(f) ==
  LET size == Cardinality(DOMAIN f)
      order == CHOOSE o \in [1..size -> DOMAIN f] : \A k \in DOMAIN f : \E i \in 1..size : o[i] = k
  IN [i \in 1..size |-> f[order[i]]]

\* A key in brackets is not projected.
Step(v, s) ==
  CASE s.kind = "key" -> IF Is("list", v) THEN Project(v.list, s.key) ELSE Get(v, s.key)
    [] s.kind = "quoted" -> Get(v, s.key)
    [] s.kind = "star" -> IF Is("obj", v) THEN ListOf(Values(v.obj))
                          ELSE IF Is("list", v) THEN v ELSE Null
    [] s.kind = "index" -> IF Is("list", v) THEN Item(v.list, s.at) ELSE Null
    [] s.kind = "where" ->
         IF Is("list", v) THEN ListOf(Only(v.list, LAMBDA item : Fits(item, s))) ELSE Null

Sum(items) ==
  LET Value(v) == IF Is("num", AsNumber(v)) THEN AsNumber(v).num ELSE 0
      total[n \in 0..Len(items)] == IF n = 0 THEN 0 ELSE total[n - 1] + Value(items[n])
  IN Num(total[Len(items)])

\* length counts items, members or characters; sum skips what is no number.
Filter(v, f) ==
  CASE f \in {"length", "count"} /\ Is("list", v) -> Num(100 * Len(v.list))
    [] f \in {"length", "count"} /\ Is("obj", v) -> Num(100 * Len(Values(v.obj)))
    [] f \in {"length", "count"} /\ Is("str", v) -> Num(100 * Len(v.str))
    [] f = "sum" /\ Is("list", v) -> Sum(v.list)
    [] f = "" -> v
    [] OTHER -> Null

\* What each prefix of the segments reaches.
Reached(body, segments) ==
  LET reached[n \in 0..Len(segments)] ==
        IF n = 0 THEN body ELSE Step(reached[n - 1], segments[n])
  IN reached

Resolve(body, path) ==
  LET segments == Segments(path)
      v == Reached(body, segments)[Len(segments)]
  IN IF v = Null THEN Null ELSE Filter(v, path.filter)

\* Every prefix of the path exists: its end may be a real null, but none that a
\* key in brackets, a wildcard or a comparison reached.
Exists(v, s) ==
  \/ s.kind = "key" /\ Holds(v, s.key)
  \/ s.kind = "index" /\ Is("list", v) /\ s.at \in -Len(v.list)..(Len(v.list) - 1)

NoneIsLegitimate(body, path) ==
  LET segments == Segments(path)
      reached == Reached(body, segments)
  IN /\ \A i \in DOMAIN segments : Exists(reached[i - 1], segments[i])
     /\ reached[Len(segments)] = Null

-----------------------------------------------------------------------------
\* normalize.py.
NumericMatch(shown, n) ==
  IF shown.percent # {} THEN n \in shown.percent
  ELSE n \in {100 * k : k \in shown.number}

\* A date without a time, or at midnight, matches the whole day.
SameDate(shown, actual) ==
  /\ shown.day = actual.day
  /\ shown.time # 0 => shown.time = actual.time

StringOrDateMatch(shown, v) ==
  IF v.date # {} /\ shown.date # {}
  THEN \A s \in shown.date, a \in v.date : SameDate(s, a)
  ELSE shown.words = v.str

Truthy == {"true", "yes", "y", "on", "1"}
Falsy == {"false", "no", "n", "off", "0"}
BoolMatch(shown, b) == shown.words \in IF b THEN Truthy ELSE Falsy

ValuesMatch(shown, v) ==
  CASE Is("bool", v) -> BoolMatch(shown, v.bool)
    [] Is("num", v) -> NumericMatch(shown, v.num)
    [] Is("str", v) -> StringOrDateMatch(shown, v)
    [] Is("null", v) -> shown.words \in {"none", "null", "n/a", "-"}
    [] OTHER -> v \in shown.json

-----------------------------------------------------------------------------
\* citations.py and verify.py.  A citation is [tu, path, shown], and a reply is
\* the sequence of the pieces that were streamed: words, and the two halves of
\* a citation.
ParseCitations(text) ==
  LET closed == {i \in 1..(Len(text) - 1) :
        Is("cite", text[i]) /\ Is("displays", text[i + 1])}
  IN {[tu |-> text[i].cite.tu, path |-> text[i].cite.path, shown |-> text[i + 1].displays] :
        i \in closed}

\* index_tool_results: of two results with one id, the last one counts.
ResultsWith(blocks, id) == Only(blocks, LAMBDA b : b.type = "tool_result" /\ b.id = id)

ResultOf(blocks, id) ==
  LET results == ResultsWith(blocks, id)
  IN IF results = <<>> THEN {} ELSE {results[Len(results)].body}

\* The issue that verify_citations finds with a citation, or "none".
IssueIn(body, c) ==
  LET v == Resolve(body, c.path)
  IN IF Is("text", body)
     THEN IF c.shown.words \in body.text THEN "none" ELSE "non_json_substring_miss"
     ELSE IF v = Null /\ ~NoneIsLegitimate(body, c.path) THEN "broken_citation"
     ELSE IF ValuesMatch(c.shown, v) THEN "none" ELSE "value_mismatch"

Issue(blocks, c) ==
  IF ResultOf(blocks, c.tu) = {} THEN "unknown_tool_use_id"
  ELSE IssueIn(CHOOSE body \in ResultOf(blocks, c.tu) : TRUE, c)

Severity(issue) == IF issue \in {"non_json_substring_miss", "auditor_unavailable"}
                   THEN "warning" ELSE "error"

-----------------------------------------------------------------------------
\* auditor.py.  An audit that fails, or says nothing that parses, finds
\* nothing; a severity that is neither error nor warning is a warning.
AuditorReplies == {"raises", "garbled", "none", "error", "warning", "other"}
AuditSeverities(reply) ==
  CASE reply \in {"raises", "garbled", "none"} -> {}
    [] reply = "error" -> {"error"}
    [] OTHER -> {"warning"}

\* Faulty variant: an audit that is asked for has the last word.
AuditDecides(mode, found, asked, reply) ==
  IF asked THEN AuditSeverities(reply) ELSE found

\* An audit adds to what the citations showed, and takes nothing back.
Severities(mode, found, asked, reply) ==
  found \cup IF asked THEN AuditSeverities(reply) ELSE {}

\* run_validation: the mode and strictness say when the auditor is asked.
Validate(mode, strictness, text, blocks, reply) ==
  LET cites == IF mode = "audit" THEN {} ELSE ParseCitations(text)
      issues == {Issue(blocks, c) : c \in cites} \ {"none"}
      found == {Severity(i) : i \in issues}
      asked == \/ mode = "audit"
               \/ mode = "hybrid" /\ ("error" \in found \/ (strictness = "strict" /\ cites = {} /\ text # <<>>))
  IN [passed |-> "error" \notin Severities(mode, found, asked, reply),
      issues |-> issues, audited |-> asked]

-----------------------------------------------------------------------------
\* What a path means: the nodes that its segments select, one or none as long
\* as it is single, and many behind a segment that selects several.
Plural(s) == s.kind \in {"star", "where"}

Children(v, s) ==
  CASE s.kind \in {"key", "quoted"} /\ Holds(v, s.key) -> <<v.obj[s.key]>>
    [] s.kind = "index" /\ Is("list", v) /\ s.at \in 0..(Len(v.list) - 1) -> <<v.list[s.at + 1]>>
    [] s.kind = "index" /\ Is("list", v) /\ -s.at \in 1..Len(v.list) ->
         <<v.list[Len(v.list) + 1 + s.at]>>
    [] s.kind = "star" /\ Is("list", v) -> v.list
    [] s.kind = "star" /\ Is("obj", v) -> Values(v.obj)
    [] s.kind = "where" /\ Is("list", v) -> Only(v.list, LAMBDA item : Fits(item, s))
    [] OTHER -> <<>>

\* A key that is asked of a list is asked of its items.
Spread(sel, s) ==
  IF ~sel.many /\ s.kind = "key" /\ sel.nodes # <<>> /\ Is("list", sel.nodes[1])
  THEN [nodes |-> sel.nodes[1].list, many |-> TRUE] ELSE sel

Onward(sel, s) ==
  LET from == Spread(sel, s)
  IN [nodes |-> Concat([i \in DOMAIN from.nodes |-> Children(from.nodes[i], s)]),
      many |-> from.many \/ Plural(s)]

Selected(body, segments) ==
  LET selected[n \in 0..Len(segments)] ==
        IF n = 0 THEN [nodes |-> <<body>>, many |-> FALSE]
        ELSE Onward(selected[n - 1], segments[n])
  IN selected

\* The values that a path means: none, or one.
Meant(body, path) ==
  LET sel == Selected(body, path.segments)[Len(path.segments)]
      value == IF sel.many THEN {ListOf(sel.nodes)}
               ELSE {sel.nodes[i] : i \in DOMAIN sel.nodes}
  IN {Filter(v, path.filter) : v \in value}

\* The paths whose meaning that is: brackets closed, and only keys are asked of
\* many nodes.
Straight(body, path) ==
  /\ path.closed
  /\ \A i \in DOMAIN path.segments :
       Selected(body, path.segments)[i - 1].many => path.segments[i].kind = "key"

\* A citation of a structured result says what is there.
IsTrue(c, body) == \E v \in Meant(body, c.path) : ValuesMatch(c.shown, v)
=============================================================================
