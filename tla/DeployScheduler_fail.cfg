CONSTANTS
  N = 2
  MaxTasks = 2
  MaxDeploys = 1
  MayLose = FALSE
  MayDuplicate = FALSE
  MayFail = TRUE
  MayGoSilent = FALSE
  SendMayThrow = FALSE
SPECIFICATION FairSpec
PROPERTIES
  AllStarted
CHECK_DEADLOCK FALSE
