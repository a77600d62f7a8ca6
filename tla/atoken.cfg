SPECIFICATION Spec
CONSTANTS
  a1 = a1
  a2 = a2
  h1 = h1
  h2 = h2
  RootToken <- MCRootToken
  Code <- MCCode
  Manager = {"childManager", "otherManager"}
  ChildManager = "childManager"
  Zero = Zero
  P27 = 4
  Word = 128
  MaxIndex = 6
  MaxValue = 2
  MaxLogs = 2
  MaxSyncs = 3
SYMMETRY Sym
INVARIANTS
  TypeOK
  OneToOne
  Backed
  ConversionsExact
PROPERTY CreditedAsPromised
CHECK_DEADLOCK FALSE
