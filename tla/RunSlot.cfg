\* Two runs, two turns, every fault: the slot, the stops and the pruning.
SPECIFICATION Spec
CONSTANTS
  Runs = {r1, r2}
  Turns = {t1, t2}
  Requests = {q1}
  Decisions = {d1}
  KeepRuns = 1
  NoRun = NoRun
  NoTurn = NoTurn
  NoRecord = NoRecord
  Faults <- AllFaults
SYMMETRY Symmetry
INVARIANTS
  TypeOK
  OneRun
  StopReaches
PROPERTIES
  PruneSparesNewest
  ExecutesOneAtATime
CHECK_DEADLOCK FALSE
