---------------------------- MODULE MCSeqAppend ----------------------------
(***************************************************************************)
(* Two writers and the code's three attempts: each can start as many       *)
(* appends as make the other lose all its attempts.                        *)
(***************************************************************************)
EXTENDS SeqAppend

CONSTANTS w1, w2

TwoWriters == {w1, w2}
=============================================================================
