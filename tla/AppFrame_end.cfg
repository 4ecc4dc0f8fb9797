SPECIFICATION FairSpec
CONSTANTS
  e1 = e1
  e2 = e2
  r1 = r1
  r2 = r2
  a1 = a1
  a2 = a2
  Elsewhere = Elsewhere
  Apps <- OneApp
  Ends <- OneEnds
  Home <- OneHomes
  Peer <- OnePeers
  Openers <- OneOpeners
  MaxPackets <- OneMax
  OutboundSize = 1
  InboundSize = 1
  TransferLimit = 1
  Failing <- OneEnds
  From = r1
  UserOps <- Everything
INVARIANTS
  AnnouncedOnce
PROPERTIES
  EndedGoes
  EndToEnd
CHECK_DEADLOCK FALSE
