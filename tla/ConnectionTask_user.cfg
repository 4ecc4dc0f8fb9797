SPECIFICATION FairSpec
CONSTANTS
  a1 = a1
  a2 = a2
  None = None
  Attempts <- MCAttempts
  UserOps <- Closers
  MaxOpened = 1
  ChannelSize = 1
PROPERTIES
  CloseTakesEffect
  DropEndsTask
  AttemptsAnswered
CHECK_DEADLOCK FALSE
