----------------------------- MODULE MCRunSlot -----------------------------
(* Small instances of RunSlot for TLC.                                      *)
EXTENDS RunSlot, TLC

NoFaults == {}
AllFaults == Fault
Symmetry == Permutations(Runs) \cup Permutations(Turns) \cup Permutations(Requests) \cup Permutations(Decisions)
=============================================================================
