SPECIFICATION PairingSpec
CONSTANTS
  Devices = {d1}
  Codes = {c1}
  Phones = {p1}
  Calls = {k1, k2}
  Attempts = 2
  Lives = 2
  Clients = 2
  None = None
PROPERTIES
  PairedUntilRevoked
