SPECIFICATION Spec
CONSTANTS
  u1 = u1
  u2 = u2
  This = This
  User <- MCUser
  Call <- MCCall
  Signed <- MCSigned
  MaxUint = 2
  MaxNonce = 2
SYMMETRY Sym
INVARIANTS
  DAITypeOK
  SignaturesOnce
PROPERTIES
  RelayedAsDirect
  SpentByConsent
CHECK_DEADLOCK FALSE
