SPECIFICATION FairSpec
CONSTANTS
  Programs = {{"change", "set", "listen", "unlisten"}, {"change", "set", "get"}, {"change", "get", "listen", "set"}}
  OwnerOps = 2
  ProxyOps = 3
  Nobody = Nobody
INVARIANTS
  TypeOK
  AgreeWhenQuiet
  GetIsFresh
PROPERTIES
  ComesToRest
  GetEnds
CHECK_DEADLOCK FALSE
