---------------------------- MODULE MCSqlMemory ----------------------------
(***************************************************************************)
(* The memories of one user, in a synchronous store of one process and in  *)
(* the pooled store of another: two adds, one in each, and one call of     *)
(* every other kind.                                                       *)
(***************************************************************************)
EXTENDS SqlMemory

CONSTANTS a1, a2, u, r, f, l, g, alice, sync, pool

AllCalls == {a1, a2, u, r, f, l, g}

RequestOf == [c \in AllCalls |->
  CASE c \in {a1, a2} -> "memory_remember" [] c = u -> "memory_update" [] c = r -> "memory_forget"
    [] c = f -> "forget_all" [] c = l -> "memory_recall" [] c = g -> "get"]

UserOf == [c \in AllCalls |-> alice]

StoreOf == [c \in AllCalls |-> IF c \in {a2, r} THEN pool ELSE sync]
=============================================================================
