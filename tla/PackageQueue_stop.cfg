CONSTANTS
  MaxPackages = 4
  nullptr = nullptr
SPECIFICATION FairSpec
CHECK_DEADLOCK FALSE
INVARIANT TypeOK
INVARIANT InOrder
 
PROPERTY JoinEnds
PROPERTY PackagesAreServed
