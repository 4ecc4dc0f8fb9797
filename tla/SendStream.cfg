SPECIFICATION FairSpec
CONSTANTS
  MaxPackets = 4
  OutboundSize = 3
  ControlSize = 1
  BatchSize = 2
INVARIANTS
  TypeOK
  ReasonIsTrue
  NoSendAfterFinish
PROPERTIES
  PipeSpec
  
  CloseEndsTask
  CallReturns
  DespawnEndsTask
  PushedIsWritten
CHECK_DEADLOCK FALSE
