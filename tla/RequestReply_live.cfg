CONSTANTS
  a1 = a1
  a2 = a2
  b1 = b1
  NoCall = NoCall
  Sender = {a1, a2, b1}
  Home <- HomeOf
  MaxConn = 1
  MaxCalls = 2
  MaxNotes = 1
  CanClose = FALSE
  reply_flag = 4
SPECIFICATION FairSpec
CHECK_DEADLOCK FALSE
PROPERTIES
  ImplementsCalls
