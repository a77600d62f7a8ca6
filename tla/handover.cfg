SPECIFICATION HandoverSpec
CONSTANTS
  maDAI = maDAI
  Token = {maDAI}
  Listed <- MCListed
  Deployer = "deployer"
  Multisig = "multisig"
  NoOwner = "none"
  MaxPending = 2
  MaxVersions = 2
  MaxRunning = 2
INVARIANTS
  HandoverTypeOK
  HandedOverInOrder
  SuccessIsComplete
PROPERTIES
  SplitStays
  NeverDowngraded
CHECK_DEADLOCK FALSE
