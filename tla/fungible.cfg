SPECIFICATION FairSpec
CONSTANTS
  alice = alice
  bob = bob
  i1 = i1
  i2 = i2
  Id <- MCId
  User <- MCUser
  Predicate = "predicate"
  NoOne = "noOne"
  MaxUint <- MCMaxUint
  MaxLogs <- MCMaxLogs
  MaxSyncs <- MCMaxSyncs
INVARIANTS
  TypeOK
  Backed
PROPERTIES
  ImplementsWallets
  WithdrawalsRelease
CHECK_DEADLOCK FALSE
