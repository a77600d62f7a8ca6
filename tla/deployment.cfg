SPECIFICATION FairSpec
CONSTANTS
  MaxCrashes = 1
INVARIANTS
  TypeOK
  ReadyIsWired
  MappedCanDeposit
  NoneOrphaned
PROPERTY Completes
CHECK_DEADLOCK FALSE
