---------------------------- MODULE ChatWindowMC ----------------------------
(* ChatWindow for TLC: a new session, and one with a past.                 *)
EXTENDS ChatWindow

CONSTANTS s1, s2, p1

HomeOfPast == [t \in Past |-> s2]
=============================================================================
