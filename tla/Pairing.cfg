SPECIFICATION PairingSpec
CONSTANTS
  Devices = {d1, d2}
  Codes = {c1, c2}
  Phones = {p1, p2}
  Calls = {k1, k2}
  Attempts = 2
  Lives = 2
  Clients = 3
  None = None
SYMMETRY PairingSymmetry
INVARIANTS
  PairingTypeOK
  CodePairsOnce
  RevokedStaysOut
  
PROPERTIES
  RevokedRefused
