SPECIFICATION FairRecoverySpec
CONSTANTS
  Runs = {r1}
  Turns = {t1, t3}
  Requests = {q1}
  Decisions = {d1}
  KeepRuns = 1
  NoRun = NoRun
  NoTurn = NoTurn
  NoRecord = NoRecord
  Faults <- NoFaults
  Sweepers = {s1}
  Judges = {t3}
  MaxBoots = 2
  Eager = FALSE
PROPERTIES
  JudgedAfterRestart
CHECK_DEADLOCK FALSE
