CONSTANTS
  Threads = {t1, t2, t3}
  Callbacks = {1, 2, 3}
  Null = 0
  NoThread = none
  MaxDepth = 3
SPECIFICATION OrderedSpec
INVARIANTS NoUseAfterDestroy NoneMissed
PROPERTIES DestroyReturns ImplementsToken
CHECK_DEADLOCK FALSE
