CONSTANTS
  N = 3
  MaxTasks = 2
  MaxDeploys = 1
  MayLose = TRUE
  MayDuplicate = FALSE
  MayFail = TRUE
  MayGoSilent = TRUE
  SendMayThrow = TRUE
SPECIFICATION Spec
INVARIANTS
  TypeOK
  SingleToken
  AtMostOneWorking
  CompleteIsDone
  FtpUpWhileWorking
  RestartWhenIdle
  PendingInv
PROPERTIES
  NoResend
  Sequential
CHECK_DEADLOCK FALSE
