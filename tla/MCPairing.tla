----------------------------- MODULE MCPairing -----------------------------
(* Small instances of the pairing of phones.                              *)
EXTENDS Pairing, TLC

PairingSymmetry ==
  Permutations(Devices) \cup Permutations(Codes) \cup Permutations(Phones) \cup Permutations(Calls)
=============================================================================
