---------------------------- MODULE ChatStoreMC ----------------------------
(* ChatStore for TLC: one session, with chat turns, a report, and a request  *)
(* that creates it (POST /api/chat/sessions).                              *)
EXTENDS ChatStore

CONSTANTS s1, t1, t2, o1

OneSession == [t \in Turns |-> s1]
=============================================================================
