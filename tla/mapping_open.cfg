SPECIFICATION OpenSpec
CONSTANTS
  r1 = r1
  r2 = r2
  c1 = c1
  c2 = c2
  RootToken <- MCRootToken
  ChildToken <- MCChildToken
  TokenType = {"ERC20"}
  Predicate = {"predicate"}
  Manager = {"childManager", "otherManager"}
  Sender = {"stateSender"}
  ChildManager = "childManager"
  StateSender = "stateSender"
  Zero = "zero"
  NoType = "noType"
  MaxSyncs = 3
SYMMETRY Tokens
INVARIANTS
  BothOneToOne
