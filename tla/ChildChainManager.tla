-------------------------- MODULE ChildChainManager --------------------------
(***************************************************************************)
(* The token registry of the child chain's bridge contract,                *)
(* contracts/child/ChildChainManager/ChildChainManager.sol.  It is written *)
(* by the syncs the chain delivers to onStateReceive and, by hand, by the  *)
(* holders of MAPPER_ROLE.                                                  *)
(***************************************************************************)
EXTENDS Naturals, Sequences

CONSTANTS RootToken, ChildToken, Zero

VARIABLES
  rootToChildToken,
  childToRootToken,
  credited        \* credited[i]: the child token whose deposit was called for
                  \* the i-th sync delivered; Zero if none was (history)

childVars == <<rootToChildToken, childToRootToken, credited>>

RootAddress  == RootToken \cup {Zero}
ChildAddress == ChildToken \cup {Zero}

ChildTypeOK ==
  /\ rootToChildToken \in [RootAddress -> ChildAddress]
  /\ childToRootToken \in [ChildAddress -> RootAddress]
  /\ credited \in Seq(ChildAddress)

ChildInit ==
  /\ rootToChildToken = [r \in RootAddress |-> Zero]
  /\ childToRootToken = [c \in ChildAddress |-> Zero]
  /\ credited = << >>

-----------------------------------------------------------------------------
\* Plausible bugs, not the code: the old pair of c stays, the old pair of r stays.
MappedRootsKeepsOld(r2c, c2r, r, c) == [r2c EXCEPT ![r] = c]

MappedChildrenKeepsOld(r2c, c2r, r, c) == [c2r EXCEPT ![c] = r]

\* The private _mapToken.  The old partners are read first, unmapped if they
\* were mapped, and the new pair is written over the result.
MappedRoots(r2c, c2r, r, c) ==
  LET oldRoot == c2r[c]
      cleaned == IF r2c[oldRoot] # Zero THEN [r2c EXCEPT ![oldRoot] = Zero] ELSE r2c
  IN  [cleaned EXCEPT ![r] = c]

MappedChildren(r2c, c2r, r, c) ==
  LET oldChild == r2c[r]
      cleaned  == IF c2r[oldChild] # Zero THEN [c2r EXCEPT ![oldChild] = Zero] ELSE c2r
  IN  [cleaned EXCEPT ![c] = r]

SetMapping(r, c) ==
  /\ rootToChildToken' = MappedRoots(rootToChildToken, childToRootToken, r, c)
  /\ childToRootToken' = MappedChildren(rootToChildToken, childToRootToken, r, c)

\* The external mapToken, for mappers.
MapToken(r, c) ==
  /\ SetMapping(r, c)
  /\ UNCHANGED credited

\* _syncDeposit: the child token is looked up now, not when the deposit was
\* made.  If there is none the call reverts and the sync has no effect.
SyncDeposit(r) ==
  /\ credited' = Append(credited, rootToChildToken[r])
  /\ UNCHANGED <<rootToChildToken, childToRootToken>>

SyncMapping(r, c) ==
  /\ SetMapping(r, c)
  /\ credited' = Append(credited, Zero)

\* onStateReceive ignores the state id: the order is the deliverer's.
OnStateReceive(sync) ==
  \/ /\ sync.kind = "DEPOSIT"
     /\ SyncDeposit(sync.root)
  \/ /\ sync.kind = "MAP_TOKEN"
     /\ SyncMapping(sync.root, sync.child)

\* A sync addressed to another contract, or sent through a sender the chain
\* does not listen to, never calls onStateReceive.
Missed ==
  /\ credited' = Append(credited, Zero)
  /\ UNCHANGED <<rootToChildToken, childToRootToken>>

-----------------------------------------------------------------------------
\* The two directions of the child registry are inverse to each other,
\* whatever mixture of syncs and manual mappings wrote them.
ChildOneToOne ==
  /\ \A r \in RootToken : rootToChildToken[r] # Zero
                            => childToRootToken[rootToChildToken[r]] = r
  /\ \A c \in ChildToken : childToRootToken[c] # Zero
                            => rootToChildToken[childToRootToken[c]] = c
=============================================================================
