SPECIFICATION RecoverySpec
CONSTANTS
  Runs = {r1, r2}
  Turns = {t1, t2, t3}
  Requests = {}
  Decisions = {}
  KeepRuns = 1
  NoRun = NoRun
  NoTurn = NoTurn
  NoRecord = NoRecord
  Faults <- NoFaults
  Sweepers = {s1}
  Judges = {t3}
  MaxBoots = 2
  Eager = FALSE
SYMMETRY Symmetry
INVARIANTS
  RecoveryTypeOK
  
  

  
CHECK_DEADLOCK FALSE
