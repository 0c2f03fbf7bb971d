SPECIFICATION ChatSpec
CONSTANTS
  Runs = {r1, r2}
  Outputs = {"delta", "tool"}
  Ends = {"partial"}
  NoRun = NoRun
  Latest = Latest
  MaxEvents = 6
  MaxRequests = 2
  MaxTurns = 2
  MaxFaults = 1
INVARIANTS
  
  QuietPageIsCurrent
SYMMETRY RunSymmetry
CHECK_DEADLOCK FALSE
