SPECIFICATION Spec
CONSTANTS
  alice = alice
  bob = bob
  t1 = t1
  t2 = t2
  TokenId <- MCTokenId
  User <- MCUser
  Predicate = "predicate"
  NoOne = "noOne"
  Batch = "batch"
  BatchLimit = 2
  MaxReceipts = 4
  MaxSyncs = 2
PROPERTY BurnReleasesOnce
CHECK_DEADLOCK FALSE
