CONSTANTS
  a1 = a1
  a2 = a2
  b1 = b1
  NoCall = NoCall
  Sender = {a1, a2, b1}
  Home <- HomeOf
  MaxConn = 2
  MaxCalls = 2
  MaxNotes = 0
  CanClose = TRUE
  reply_flag = 4
SPECIFICATION Spec
CHECK_DEADLOCK FALSE
INVARIANT TypeOK
INVARIANT IdHasOneOwner
INVARIANT IdsConserved
INVARIANT NoLostWakeup
INVARIANT CallIsSomewhereOnce
INVARIANT OwnResponse
PROPERTY AnsweredBeforeReturn
