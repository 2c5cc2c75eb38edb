CONSTANTS
  n1 = n1
  n2 = n2
  n3 = n3
  n4 = n4
  Root = Root
  NoThread = NoThread
  Node = {n1, n2, n3, n4}
  Programs <- Ordinary
  MaxOps = 3
SPECIFICATION FairSpec
CHECK_DEADLOCK FALSE
INVARIANT TypeOK
INVARIANT NidsAgree
INVARIANT WokenByOwnReply
INVARIANT TreeShowsTracked
PROPERTY NidsAreKept
PROPERTY CallsEnd
PROPERTY ChildrenArrive
