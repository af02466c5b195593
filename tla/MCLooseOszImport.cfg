CONSTANTS
  loader = loader
  x1 = x1
  x2 = x2
  shot = shot
  bridge = bridge
  FgWorkers = {f1, f2}
  BgWorkers = {b1}
  Main = main
  Clients = {main}
  Tasks = {loader, x1, x2, shot, bridge}
  None = none
  PendingMod = 8
  Loader = loader
  Oszs <- MCTwoOszs
  Window = 1
  Bridge <- MCBridge
SPECIFICATION ImportSpec
INVARIANTS WindowBound
PROPERTIES ImportFinishes
CHECK_DEADLOCK FALSE
