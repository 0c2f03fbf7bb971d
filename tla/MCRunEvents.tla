---------------------------- MODULE MCRunEvents ----------------------------
(* Small instances of RunEvents for TLC.                                    *)
EXTENDS RunEvents, TLC

Symmetry == Permutations(Turns) \cup Permutations(Followers)
=============================================================================
