\* One run resumed by two racing clients over three turns, without faults.
SPECIFICATION Spec
CONSTANTS
  Runs = {r1}
  Turns = {t1, t2, t3}
  Requests = {q1, q2}
  Decisions = {}
  KeepRuns = 1
  NoRun = NoRun
  NoTurn = NoTurn
  NoRecord = NoRecord
  Faults <- NoFaults
SYMMETRY Symmetry
INVARIANTS
  SettledWhenFree
PROPERTIES
  VerdictStands
CHECK_DEADLOCK FALSE
