SPECIFICATION FairSpec
CONSTANTS
  NumDE = 3
  MaxPacket = 7
  MaxPosted = 2
  CountModulus = 65536
INVARIANTS
  TypeOK
  QueueInv
  UnreadIsWindow
  TakesWholeInOrder
  NeverDeaf
PROPERTIES FreesOnlyCopied ImplementsFrameBuffer
CHECK_DEADLOCK FALSE
