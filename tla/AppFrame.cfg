SPECIFICATION Spec
CONSTANTS
  e1 = e1
  e2 = e2
  r1 = r1
  r2 = r2
  a1 = a1
  a2 = a2
  Elsewhere = Elsewhere
  Apps <- OneApp
  Ends <- FourEnds
  Home <- FourHomes
  Peer <- FourPeers
  Openers <- FourOpeners
  MaxPackets <- FourMax
  OutboundSize = 1
  InboundSize = 1
  TransferLimit = 1
  Failing <- FirstFails
  From = r1
  UserOps <- Nothing
INVARIANTS
  TypeOK
PROPERTIES
  EveryPipe
CHECK_DEADLOCK FALSE
