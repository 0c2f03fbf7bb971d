SPECIFICATION EventsSpec
CONSTANTS
  Turns = {t1, t2, t3}
  Followers = {f1}
  MaxSeq = 4
  MaxBoots = 2
  Overtake = FALSE
  NoTurn = NoTurn
  NoRecord = NoRecord
SYMMETRY Symmetry
INVARIANTS
  EventsTypeOK
  LogGrows
  FollowerInOrder
  

  
CHECK_DEADLOCK FALSE
