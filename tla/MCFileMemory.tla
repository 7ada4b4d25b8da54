---------------------------- MODULE MCFileMemory ----------------------------
(***************************************************************************)
(* One call of each kind, and a second add: the update and the removal     *)
(* pick one of the two memories, and the erasure and the compaction fall   *)
(* before, between or after the others.                                    *)
(***************************************************************************)
EXTENDS FileMemory

CONSTANTS a1, a2, u, r, f, k

AllCalls == {a1, a2, u, r, f, k}
KindOf ==
  [c \in AllCalls |-> CASE c \in {a1, a2} -> "add"
                        [] c = u -> "update"
                        [] c = r -> "remove"
                        [] c = f -> "forget_all"
                        [] c = k -> "compact"]
=============================================================================
