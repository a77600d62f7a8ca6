SPECIFICATION Spec
CONSTANTS
  u1 = u1
  u2 = u2
  This = This
  User <- MCUser
  Call <- MCCall
  Signed <- MCSignedAliases
  MaxUint = 2
  MaxNonce = 2
PROPERTY RelayedAsDirect
CHECK_DEADLOCK FALSE
