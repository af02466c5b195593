CONSTANTS
 Async = {a1}
 Sync = {s}
 Sockets = {w}
 MayFail = {a1,s,w}
 MaxWrites = 2
 MaxChunks = 2
 NoRequest = NoRequest
SPECIFICATION Spec
INVARIANTS OnePlace NoMissedWakeup WebsocketStreams
PROPERTIES StoppedIsSilent
CHECK_DEADLOCK FALSE
