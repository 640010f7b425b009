--------------------------- MODULE MCChatSession ---------------------------
(***************************************************************************)
(* Small instances of ChatSession.                                         *)
(***************************************************************************)
EXTENDS ChatSession, TLC

Symmetry == Permutations(Conn) \cup Permutations(Data)
============================================================================
