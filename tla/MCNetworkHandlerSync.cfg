CONSTANTS
  Async = {a1}
  Sync = {s}
  Sockets = {}
  MayFail = {}
  MaxWrites = 0
  MaxChunks = 0
  NoRequest = NoRequest
SPECIFICATION FairSpec
PROPERTY SyncReturns
CHECK_DEADLOCK FALSE
