CONSTANTS
  n1 = n1
  n2 = n2
  n3 = n3
  n4 = n4
  Root = Root
  NoThread = NoThread
  Node = {n1, n2, n3, n4}
  Programs <- BothRead
  MaxOps = 2
SPECIFICATION FairSpec
CHECK_DEADLOCK FALSE
PROPERTY CallsEnd
