SPECIFICATION FairSpec
CONSTANTS
  MaxPackets = 3
  OutboundSize = 1
  ControlSize = 1
  BatchSize = 1
PROPERTIES
  EndsWithStream
CHECK_DEADLOCK FALSE
