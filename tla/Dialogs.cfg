SPECIFICATION DialogsSpec
CONSTANTS
  MaxOpens = 2
  MaxFaults = 1
INVARIANTS
  DialogsTypeOK
  WrittenOnce
  RefusalIsShown
CHECK_DEADLOCK FALSE
