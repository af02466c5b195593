CONSTANTS
  FgWorkers = {f1}
  BgWorkers = {b1}
  Main = main
  Clients = {main}
  Tasks = {1, 2, 3}
  None = none
  PendingMod = 4
SPECIFICATION OrderedSpec
INVARIANTS TypeOK NoLostWakeup NoPoolDeadlock ShutdownDrains PendingAccounts
PROPERTIES EarlyWorkIsDone ShutdownReturns ImplementsLanes
CHECK_DEADLOCK FALSE
