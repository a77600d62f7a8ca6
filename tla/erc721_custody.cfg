SPECIFICATION SpecOneWay
CONSTANTS
  alice = alice
  bob = bob
  t1 = t1
  t2 = t2
  TokenId <- MCTokenId
  User <- MCUser
  Predicate = "predicate"
  NoOne = "noOne"
  Batch = "batch"
  BatchLimit = 2
  MaxReceipts = 5
  MaxSyncs = 2
SYMMETRY Sym
INVARIANTS
  TypeOK
  OneClaimEach
  BurnsReleasable
PROPERTIES
  DeliveryMints
  ImplementsCustody
CHECK_DEADLOCK FALSE
