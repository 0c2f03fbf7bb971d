SPECIFICATION FairShellSpec
CONSTANTS
  OfficeStates = {"unconnected", "ready"}
  MaxStarts = 2
  MaxFailures = 1
  MaxAnswers = 1
INVARIANTS
  ShellTypeOK
PROPERTIES
  MovesOn
  LossIsSaid
CHECK_DEADLOCK FALSE
