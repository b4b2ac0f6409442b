SPECIFICATION FairSpec
CONSTANTS
  SignalPoints = {"queue"}
  MaxSignals = 1
  InitMayFail = FALSE
  ClientsRead = TRUE
PROPERTY StopCompletes
CHECK_DEADLOCK FALSE
