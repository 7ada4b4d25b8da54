-------------------------- MODULE MCSqlConnection --------------------------
(***************************************************************************)
(* Three appends: two on one store and one on another store of the same    *)
(* connection, or one on each of two stores.                               *)
(***************************************************************************)
EXTENDS SqlConnection, TLC

CONSTANTS c1, c2, c3, s1, s2

ThreeCalls == {c1, c2, c3}
TwoCalls == {c1, c2}
TwoStores == {s1, s2}
TwoAndOne == (c1 :> s1) @@ (c2 :> s1) @@ (c3 :> s2)
OneEach == (c1 :> s1) @@ (c2 :> s2)
=============================================================================
