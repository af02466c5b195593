CONSTANTS
  Resources = {r1, r2}
  MaxLoads = 3
  Batch = 2
SPECIFICATION FairSpec
INVARIANTS NoUseAfterFree OneLoadAtATime ClosedIsQuiet
PROPERTIES LoadingUndisturbed DestroyCancelsReload DoomedIsFreed DeferredReloadHappens
CHECK_DEADLOCK FALSE
