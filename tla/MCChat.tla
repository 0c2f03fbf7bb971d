------------------------------- MODULE MCChat -------------------------------
(* Small instances of the advisor page's conversation.                     *)
EXTENDS Chat

RunSymmetry == Permutations(Runs)
=============================================================================
