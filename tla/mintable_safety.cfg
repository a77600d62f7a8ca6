SPECIFICATION FairSpec
CONSTANTS
  alice = alice
  bob = bob
  t1 = t1
  t2 = t2
  TokenId <- TwoTokens
  User <- MCUser
  Predicate = "predicate"
  NoOne = "noOne"
  MaxLogs = 5
  MaxSyncs = 2
INVARIANTS
  TypeOK
  OneClaimEach
  WithdrawnMeansAway
PROPERTIES
  DeliveryMints
  ImplementsCustody
  WithdrawalsRelease
CHECK_DEADLOCK FALSE
