----------------------- MODULE ConversationHistoryMC -----------------------
(* ConversationHistory for TLC.                                            *)
EXTENDS ConversationHistory, TLC

Symmetry == Permutations(Processes) \cup Permutations(Exchanges \ Wordless)

\* Bound: the turn without a title is the first or the last of the three.
NotBetween == Len(order) >= 2 => order[2] \notin Wordless

\* Bound: a session that a chat turn opened, which differs from the endpoint's by
\* its title only, has two turns.
ShortIfGiven == opener = "chat" => Len(order) <= 2
=============================================================================
