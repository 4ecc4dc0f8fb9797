SPECIFICATION FairSpec
CONSTANTS
  a1 = a1
  a2 = a2
  None = None
  Attempts <- MCAttempts
  UserOps <- Askers
  MaxOpened = 1
  ChannelSize = 1
PROPERTIES
  AttemptsSettle
CHECK_DEADLOCK FALSE
