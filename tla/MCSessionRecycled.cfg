CONSTANTS
  MSS = 20
  KEEP_SIZE = 2
  Ids = {257}
  Lens = {0}
  ReplyLen <- OnePacket
  MaxMessages = 3
  Cuts = "message"
SPECIFICATION Spec
INVARIANTS
  ConnectionKept
