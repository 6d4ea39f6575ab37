CONSTANTS
  MSS = 20
  KEEP_SIZE = 8
  Ids = {257}
  Lens = {2}
  ReplyLen <- OnePacket
  MaxMessages = 1
  Cuts = "anywhere"
SPECIFICATION Spec
INVARIANTS
  CutsHarmless
