CONSTANTS
  Bodies <- MCBodies
  Pushes <- MCPushes
  PongTimeout = 2
  MaxInterval = 3
  RoomInterval = 1
  Rooms = TRUE
  MaxSessions = 2
  MaxSends = 1
SPECIFICATION FairSpec
INVARIANTS LoginAccounted StatusMatchesUid PacketsStayInSession
PROPERTIES DeadServerNoticed
CHECK_DEADLOCK FALSE
