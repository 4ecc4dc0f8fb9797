SPECIFICATION Spec
CONSTANTS
  MaxPackets = 3
  InboundSize = 2
  ControlSize = 1
  BatchSize = 2
  TransferLimit = 2
  UserOps <- Nothing
INVARIANTS
  DroppedOnlyWhenFull
CHECK_DEADLOCK FALSE
