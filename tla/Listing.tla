------------------------------- MODULE Listing ------------------------------
(***************************************************************************)
(* Sequences that are picked out of others, and sequences joined to one.   *)
(* They are defined by the positions of their elements, and not as folds:  *)
(* what is proved of the modules that use them counts positions.           *)
(***************************************************************************)
EXTENDS Integers, Sequences, FiniteSets

\* The k-th member of a finite set of integers, from its least.
Nth(S, k) == CHOOSE i \in S : Cardinality({j \in S : j <= i}) = k

\* The elements of s at the positions in I, in their order.
Pick(s, I) == [k \in 1..Cardinality(I) |-> s[Nth(I, k)]]

\* The elements of s that are as P says, in their order.
Only(s, P(_)) == Pick(s, {i \in DOMAIN s : P(s[i])})

\* The sequences of ss, one behind the other.
Concat(ss) ==
  LET joined[n \in 0..Len(ss)] == IF n = 0 THEN <<>> ELSE joined[n - 1] \o ss[n]
  IN joined[Len(ss)]

MapSeq(s, Op(_)) == [i \in DOMAIN s |-> Op(s[i])]
=============================================================================
