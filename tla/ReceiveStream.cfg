SPECIFICATION FairSpec
CONSTANTS
  MaxPackets = 4
  InboundSize = 2
  ControlSize = 1
  BatchSize = 2
  TransferLimit = 1
  UserOps <- Everything
INVARIANTS
  TypeOK
  PacketsConserved
  ReasonIsTrue
PROPERTIES
  PipeSpec
  EndNoticed
  FrameReleased
  StopEndsTask
  DespawnEndsTask
  PacketsArrive
CHECK_DEADLOCK FALSE
