--------------------------- MODULE MCGroundedTurn --------------------------
(***************************************************************************)
(* Replies with one or two calls, whole, cut off, filtered, or with an     *)
(* input that is no JSON; a structured result, a free text and a failure;  *)
(* and paths to what is there, to a null, through a list, and to nothing.  *)
(***************************************************************************)
EXTENDS GroundedTurn, TLC

ToolCall(input, whole) == [name |-> "t", input |-> input, whole |-> whole]
Word == [word |-> "w"]

SomeReplies == {
  [text |-> <<Word>>, calls |-> <<ToolCall(<<"p", "q">>, TRUE)>>, stop |-> "tool_use"],
  [text |-> <<>>, calls |-> <<ToolCall(<<"p", "q">>, TRUE), ToolCall(<<"r", "s">>, TRUE)>>, stop |-> "tool_use"],
  [text |-> <<>>, calls |-> <<ToolCall(<<"p", "q">>, TRUE), ToolCall(<<"r">>, FALSE)>>, stop |-> "max_tokens"],
  [text |-> <<>>, calls |-> <<ToolCall(<<"p">>, FALSE)>>, stop |-> "tool_use"],
  [text |-> <<>>, calls |-> <<ToolCall(<<"p">>, TRUE), ToolCall(<<"r">>, TRUE)>>, stop |-> "content_filter"]}
SomeTexts == {<<>>, <<Word, Word>>}

March15 == [day |-> 15, time |-> 0]
March15Noon == [day |-> 15, time |-> 12]
Str(w, dates) == [str |-> w, date |-> dates]
Row(a, k) == [obj |-> ("a" :> Num(a) @@ "k" :> Str(k, {}))]
Body == [obj |->
  ("rows" :> ListOf(<<Row(100, "x"), Row(200, "y")>>)
   @@ "flags" :> ListOf(<<[bool |-> TRUE], Num(100), Str("x", {})>>)
   @@ "none" :> Null
   @@ "due" :> Str("iso", {March15Noon}))]

FreeText == [text |-> {"x"}]
SomeOutcomes == {
  [body |-> Body, failed |-> FALSE],
  [body |-> Num(50), failed |-> FALSE],
  [body |-> FreeText, failed |-> TRUE]}

Fields(o) == {o.obj[k] : k \in DOMAIN o.obj}
SomeJson ==
  {FreeText, Num(50), Body} \cup Fields(Body) \cup Fields(Row(100, "x")) \cup Fields(Row(200, "y"))
  \cup {Row(100, "x"), Row(200, "y"), [bool |-> TRUE], Num(100), Str("x", {})}

Path(segments, filter) == [segments |-> segments, filter |-> filter, closed |-> TRUE]
SomePaths == {
  Path(<<>>, ""),
  Path(<<Key("rows"), Index(1), Key("a")>>, ""),
  Path(<<Key("rows"), Index(-1), Key("k")>>, ""),
  Path(<<Key("rows"), Where("k", "==", Str("x", {}))>>, "length"),
  Path(<<Key("rows"), Star, Key("a")>>, "length"),
  Path(<<Quoted("rows"), Key("a")>>, "length"),
  Path(<<Key("rows"), Quoted("a")>>, ""),
  Path(<<Key("flags")>>, "sum"),
  Path(<<Key("rows"), Star, Index(0), Key("a")>>, ""),
  Path(<<Key("none")>>, ""),
  Path(<<Key("due")>>, ""),
  Path(<<Key("missing")>>, "length"),
  [segments |-> <<Key("rows"), Index(0)>>, filter |-> "length", closed |-> FALSE]}

Shows(words, number, percent, date) ==
  [words |-> words, number |-> number, percent |-> percent, date |-> date, json |-> {}]
SomeShown == {
  Shows("1", {1}, {}, {}),
  Shows("2 rows", {2}, {}, {}),
  Shows("50%", {50}, {50}, {}),
  Shows("March 15", {}, {}, {March15}),
  Shows("x", {}, {}, {}),
  Shows("n/a", {}, {}, {})}

Setting(mode, strictness) == [caching |-> TRUE, mode |-> mode, strictness |-> strictness]
SomeSettings == {
  [caching |-> FALSE, mode |-> "off", strictness |-> "lenient"],
  Setting("citation", "lenient"), Setting("audit", "lenient"),
  Setting("hybrid", "lenient"), Setting("hybrid", "strict")}
=============================================================================
