SPECIFICATION FairSpec
CONSTANTS
  MaxConn = 2
  MaxNid = 2
  MaxOps = 2
  Nobody = Nobody
INVARIANTS
  TypeOK
  KnowsItIsUp
  NidsAreCurrent
PROPERTIES
  Reconnects
CHECK_DEADLOCK FALSE
