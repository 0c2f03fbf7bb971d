--------------------------- MODULE MCRunRecovery ---------------------------
(* Small instances of RunRecovery for TLC.                                  *)
EXTENDS RunRecovery, TLC

NoFaults == {}
Symmetry == Permutations(Runs) \cup Permutations(Turns \ Judges) \cup Permutations(Judges) \cup Permutations(Requests)
              \cup Permutations(Decisions) \cup Permutations(Sweepers)
=============================================================================
