CONSTANTS
  N = 2
  MaxTasks = 2
  MaxDeploys = 1
  MayLose = FALSE
  MayDuplicate = FALSE
  MayFail = FALSE
  MayGoSilent = FALSE
  SendMayThrow = FALSE
SPECIFICATION FairSpec
INVARIANTS
  RestartAfterAll
PROPERTIES
  DeploymentEnds
CHECK_DEADLOCK FALSE
