CONSTANTS
  MSS = 20
  KEEP_SIZE = 2
  Ids = {257}
  Lens = {0}
  ReplyLen <- OverOnePacket
  MaxMessages = 1
  Cuts = "message"
SPECIFICATION Spec
INVARIANTS
  MessagesSplit
