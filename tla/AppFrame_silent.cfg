SPECIFICATION FairSpec
CONSTANTS
  e1 = e1
  e2 = e2
  r1 = r1
  r2 = r2
  a1 = a1
  a2 = a2
  Elsewhere = Elsewhere
  Apps <- TwoApps
  Ends <- TwoEnds
  Home <- TwoHomes
  Peer <- TwoPeers
  Openers <- OneOpeners
  MaxPackets <- TwoMax
  OutboundSize = 1
  InboundSize = 1
  TransferLimit = 1
  Failing <- Nothing
  From = e1
  UserOps <- Nothing
PROPERTIES
  SessionDrained
CHECK_DEADLOCK FALSE
