CONSTANTS
  p1 = p1
  p2 = p2
  p3 = p3
  w1 = w1
  w2 = w2
  Writer = {w1, w2}
  Package = {p1, p2, p3}
  Size <- SizeOf
  HeaderLen = 2
  MaxChunk = 4
  MayBeShort = TRUE
  MaxConn = 2
  NoWriter = NoWriter
SPECIFICATION FairSpec
CHECK_DEADLOCK FALSE
INVARIANT TypeOK
INVARIANT InOrder
INVARIANT NothingKept
PROPERTY Delivered
