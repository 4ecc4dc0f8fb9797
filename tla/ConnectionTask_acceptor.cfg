SPECIFICATION FairSpec
CONSTANTS
  a1 = a1
  a2 = a2
  None = None
  Attempts <- MCAttempts
  UserOps <- NoUser
  MaxOpened = 2
  ChannelSize = 1
PROPERTIES
  PeerStreamDelivered
  ShutdownNoticed
CHECK_DEADLOCK FALSE
