SPECIFICATION FairSpec
CONSTANTS
  Stream = {s1, s2}
  Acceptor = acceptor
  Listener = {x1, x2}
  MaxOps = 6
  None = None
INVARIANTS
  TypeOK
  PointersAgree
  
  
PROPERTIES
  MainEnds
CHECK_DEADLOCK FALSE
