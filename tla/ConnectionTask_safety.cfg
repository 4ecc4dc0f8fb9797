SPECIFICATION Spec
CONSTANTS
  a1 = a1
  a2 = a2
  None = None
  Attempts <- MCAttempts
  UserOps <- Users
  MaxOpened = 2
  ChannelSize = 2
SYMMETRY Symmetry
INVARIANTS
  TypeOK
  EveryStreamAccountedFor
  BufferedIsAnnounced
  DisconnectedOnce
PROPERTIES
  ClosedStaysClosed
  HandoffSpec
CHECK_DEADLOCK FALSE
