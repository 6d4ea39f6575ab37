CONSTANTS
  MSS = 12
  KEEP_SIZE = 2
  Ids = {257, 258, 513}
  Lens = {0, 3}
  ReplyLen <- TwoPackets
  MaxMessages = 3
  Cuts = "message"
SPECIFICATION FairSpec
INVARIANTS
  TypeOK
  RepliesExact
  EndsForAReason
PROPERTIES
  ImplementsService
  MessageAnswered
