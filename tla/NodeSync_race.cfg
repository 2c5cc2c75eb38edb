CONSTANTS
  n1 = n1
  n2 = n2
  n3 = n3
  n4 = n4
  Root = Root
  NoThread = NoThread
  Node = {n1, n2, n3, n4}
  Programs <- BothCreate
  MaxOps = 2
SPECIFICATION Spec
CHECK_DEADLOCK FALSE
INVARIANT NidsAgree
