CONSTANTS
  Bodies <- MCBodies
  Pushes <- MCPushes
  PongTimeout = 2
  MaxInterval = 3
  RoomInterval = 1
  Rooms = FALSE
  MaxSessions = 2
  MaxSends = 1
SPECIFICATION Spec
INVARIANTS OnlineCanSend
CHECK_DEADLOCK FALSE
