SPECIFICATION FairSpec
CONSTANTS
  SignalPoints = {"loop", "select", "lock_queue"}
  MaxSignals = 1
  InitMayFail = TRUE
  ClientsRead = TRUE
INVARIANTS TypeOK StopsInOrder DeletedAfterUse NoThreadLeft
PROPERTIES StopCompletes FailedInitEnds
CHECK_DEADLOCK FALSE
