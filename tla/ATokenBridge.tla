----------------------------- MODULE ATokenBridge -----------------------------
(***************************************************************************)
(* The aToken bridge: ATokenRootChainManager, ATokenChildChainManager, the *)
(* maTokens that it creates and the aTokens it holds.  It is a bridge of   *)
(* its own, with its registry on each chain and no predicates.             *)
(*                                                                         *)
(* The address of a child token is computed on the root chain, from what   *)
(* its owner says the child chain will create, and is created there by     *)
(* CREATE2, from what the child manager's code is.  The owner changes the  *)
(* one, an upgrade the other, with syncs on their way.                     *)
(*                                                                         *)
(* Who owns maTokens is left out (see FungibleBridge): a child token is    *)
(* its supply, and its logs are the burns.                                 *)
(***************************************************************************)
EXTENDS ATokenMath, Sequences, FiniteSetsExt

CONSTANTS
  RootToken,        \* aTokens
  Code,             \* bytecode hashes of maToken proxies
  Manager,          \* addresses that the owner may set as the child manager
  ChildManager,     \* the one at which the ATokenChildChainManager is
  Zero,             \* address(0)
  MaxIndex,         \* bound of the model: a pool's index grows up to it
  MaxValue,         \* bound of the model: aTokens in a deposit
  MaxLogs,          \* bound of the model: burns
  MaxSyncs          \* bound of the model: syncs

ASSUME ATokenAssumption ==
  /\ ChildManager \in Manager
  /\ Zero \notin RootToken \cup (Manager \X RootToken \X Code)
  /\ MaxIndex \in Uint /\ P27 <= MaxIndex      \* an index is a word
  /\ MaxValue \in Nat /\ MaxLogs \in Nat /\ MaxSyncs \in Nat

\* CREATE2 addresses: the hash of the creator, the salt and the bytecode hash.
Address == Manager \X RootToken \X Code

VARIABLES
  rootToChildToken, childToRootToken,   \* the registry on the root chain
  childChainManagerAddress,             \* where the root chain sends syncs to
  childTokenBytecodeHash,               \* what it computes addresses from
  processedExits,                       \* the burns that were exited
  held,         \* units of each aToken that the root manager holds
  index,        \* the liquidity index of each aToken's pool
  syncs,        \* syncs[i]: the i-th sync sent to the child chain
  onChild,      \* the child manager's registry, as a record of both directions
  code,         \* bytecode hash of the proxies the child manager creates
  supply,       \* supply of each child token; of those in its domain, which exist
  delivered,    \* how many of the syncs the child chain consumed
  burns,        \* the child tokens' burn logs, in block order
  checkpointed, \* how many of them are in checkpointed blocks
  kept          \* whether every delivered mapping created the token that was
                \* announced (history)

registry  == <<rootToChildToken, childToRootToken>>
config    == <<childChainManagerAddress, childTokenBytecodeHash>>
childVars == <<onChild, supply, delivered, kept>>
vars == <<registry, config, processedExits, held, index, syncs,
          childVars, code, burns, checkpointed>>

\* child is history: the child token that the root chain has for the root token
\* when it sends the sync.
Sync == [kind : {"DEPOSIT", "MAP_TOKEN"}, to : Manager, root : RootToken,
         units : Nat, child : Address]

Forward  == [RootToken \cup {Zero} -> Address \cup {Zero}]
Backward == [Address \cup {Zero} -> RootToken \cup {Zero}]

TypeOK ==
  /\ rootToChildToken \in Forward /\ childToRootToken \in Backward
  /\ childChainManagerAddress \in Manager
  /\ childTokenBytecodeHash \in Code
  /\ processedExits \subseteq 1..Len(burns)
  /\ held \in [RootToken -> Nat]
  /\ index \in [RootToken -> P27..MaxIndex]
  /\ syncs \in Seq(Sync)
  /\ onChild.rootToChildToken \in Forward /\ onChild.childToRootToken \in Backward
  /\ code \in Code
  /\ DOMAIN supply \subseteq Address /\ \A c \in DOMAIN supply : supply[c] \in Nat
  /\ delivered \in 0..Len(syncs)
  /\ burns \in Seq([token : Address, units : Nat])
  /\ checkpointed \in 0..Len(burns)
  /\ kept \in BOOLEAN

NoForward  == [r \in RootToken \cup {Zero} |-> Zero]
NoBackward == [c \in Address \cup {Zero} |-> Zero]

Init ==
  /\ rootToChildToken = NoForward /\ childToRootToken = NoBackward
  /\ childChainManagerAddress \in Manager
  /\ childTokenBytecodeHash \in Code
  /\ processedExits = {}
  /\ held = [r \in RootToken |-> 0]
  /\ index = [r \in RootToken |-> P27]
  /\ syncs = << >>
  /\ onChild = [rootToChildToken |-> NoForward, childToRootToken |-> NoBackward]
  /\ code \in Code
  /\ supply = [c \in {} |-> 0]
  /\ delivered = 0
  /\ burns = << >>
  /\ checkpointed = 0
  /\ kept = TRUE

-----------------------------------------------------------------------------
\* The root chain: registry and configuration.

childTokenAddress(r) == <<childChainManagerAddress, r, childTokenBytecodeHash>>

SendSync(kind, r, units, child) ==
  /\ Len(syncs) < MaxSyncs
  /\ syncs' = Append(syncs, [kind |-> kind, to |-> childChainManagerAddress,
                             root |-> r, units |-> units, child |-> child])

\* Reads old partners and clears what still points at or from them.
Cleaned(forward, backward, oldRoot, oldChild) ==
  [rootToChildToken |-> IF forward[oldRoot] # Zero
                        THEN [forward EXCEPT ![oldRoot] = Zero] ELSE forward,
   childToRootToken |-> IF backward[oldChild] # Zero
                        THEN [backward EXCEPT ![oldChild] = Zero] ELSE backward]

MapToken(r) ==
  /\ rootToChildToken[r] = Zero
  /\ LET c == childTokenAddress(r)
     IN  /\ rootToChildToken' = [rootToChildToken EXCEPT ![r] = c]
         /\ childToRootToken' = [childToRootToken EXCEPT ![c] = r]
         /\ SendSync("MAP_TOKEN", r, 0, c)
  /\ UNCHANGED <<config, processedExits, held, index, childVars, code, burns, checkpointed>>

\* A plausible bug, not the code: the old child token keeps its root token.
RemapTokenKeepsChild(r) ==
  /\ LET c == childTokenAddress(r)
     IN  /\ c # rootToChildToken[r]
         /\ rootToChildToken' = [rootToChildToken EXCEPT ![r] = c]
         /\ childToRootToken' = [childToRootToken EXCEPT ![c] = r]
         /\ SendSync("MAP_TOKEN", r, 0, c)
  /\ UNCHANGED <<config, processedExits, held, index, childVars, code, burns, checkpointed>>

RemapToken(r) ==
  /\ LET c == childTokenAddress(r)
         old == Cleaned(rootToChildToken, childToRootToken,
                        childToRootToken[c], rootToChildToken[r])
     IN  /\ c # rootToChildToken[r]
         /\ rootToChildToken' = [old.rootToChildToken EXCEPT ![r] = c]
         /\ childToRootToken' = [old.childToRootToken EXCEPT ![c] = r]
         /\ SendSync("MAP_TOKEN", r, 0, c)
  /\ UNCHANGED <<config, processedExits, held, index, childVars, code, burns, checkpointed>>

\* The three setters of the address and the hash, together or one by one.
SetChildChainManagerAddressAndHash(m, h) ==
  /\ childChainManagerAddress' = m
  /\ childTokenBytecodeHash' = h
  /\ UNCHANGED <<registry, processedExits, held, index, syncs, childVars, code, burns, checkpointed>>

-----------------------------------------------------------------------------
\* The root chain: values.

\* What a transfer of a value moves in the aToken's own books, which count
\* units too and round as p27Div does.
TransferUnits(value, r) == p27Div(value, index[r])

\* The pool earns interest.
Accrue(r) ==
  /\ index' \in [RootToken -> P27..MaxIndex]
  /\ index'[r] > index[r]
  /\ \A t \in RootToken \ {r} : index'[t] = index[t]
  /\ UNCHANGED <<registry, config, processedExits, held, syncs, childVars, code, burns, checkpointed>>

DepositFor(r, value) ==
  /\ rootToChildToken[r] # Zero
  /\ \E moved \in TransferUnits(value, r) : held' = [held EXCEPT ![r] = @ + moved]
  /\ \E units \in p27Div(value, index[r]) : SendSync("DEPOSIT", r, units, rootToChildToken[r])
  /\ UNCHANGED <<registry, config, processedExits, index, childVars, code, burns, checkpointed>>

\* exit, for anybody who proves that the burn is in a checkpointed block, and
\* exitTokens.
Exit(i) ==
  /\ i \notin processedExits
  /\ processedExits' = processedExits \cup {i}
  /\ i <= checkpointed
  /\ LET r == childToRootToken[burns[i].token]
     IN  /\ r # Zero
         /\ \E value \in p27Mul(burns[i].units, index[r]) :
              \E moved \in TransferUnits(value, r) :
                /\ held[r] >= moved
                /\ held' = [held EXCEPT ![r] = @ - moved]
  /\ UNCHANGED <<registry, config, index, syncs, childVars, code, burns, checkpointed>>

-----------------------------------------------------------------------------
\* The child chain.

\* _syncDeposit.
Credit(s) ==
  LET c == onChild.rootToChildToken[s.root]
  IN  /\ s.kind = "DEPOSIT"
      /\ c # Zero
      /\ supply' = [supply EXCEPT ![c] = @ + s.units]
      /\ UNCHANGED <<onChild, kept>>

\* A plausible bug, not the code: a token that is mapped stays as it is.
CreateTokenOnce(s) ==
  LET c == <<ChildManager, s.root, code>>
  IN  /\ s.kind = "MAP_TOKEN"
      /\ c \notin DOMAIN supply
      /\ supply' = [d \in DOMAIN supply \cup {c} |-> IF d = c THEN 0 ELSE supply[d]]
      /\ IF onChild.rootToChildToken[s.root] = Zero
         THEN onChild' = [rootToChildToken |-> [onChild.rootToChildToken EXCEPT ![s.root] = c],
                          childToRootToken |-> [onChild.childToRootToken EXCEPT ![c] = s.root]]
         ELSE UNCHANGED onChild
      /\ kept' = (kept /\ c = s.child)

\* _mapToken: CREATE2 makes the proxy, unless there is a contract already.
CreateToken(s) ==
  LET c == <<ChildManager, s.root, code>>
      old == Cleaned(onChild.rootToChildToken, onChild.childToRootToken,
                     onChild.childToRootToken[c], onChild.rootToChildToken[s.root])
  IN  /\ s.kind = "MAP_TOKEN"
      /\ c \notin DOMAIN supply
      /\ supply' = [d \in DOMAIN supply \cup {c} |-> IF d = c THEN 0 ELSE supply[d]]
      /\ c # onChild.rootToChildToken[s.root]
      /\ onChild' = [rootToChildToken |-> [old.rootToChildToken EXCEPT ![s.root] = c],
                     childToRootToken |-> [old.childToRootToken EXCEPT ![c] = s.root]]
      /\ kept' = (kept /\ c = s.child)

\* The next sync, if it is for the child manager, which may revert; the sync is
\* consumed in any case.
Deliver ==
  /\ delivered < Len(syncs)
  /\ LET s == syncs[delivered + 1]
     IN  \/ s.to = ChildManager /\ (Credit(s) \/ CreateToken(s))
         \/ /\ \/ s.to # ChildManager
               \/ s.kind = "DEPOSIT" /\ onChild.rootToChildToken[s.root] = Zero
               \/ s.kind = "MAP_TOKEN" /\ <<ChildManager, s.root, code>> \in DOMAIN supply
            /\ kept' = (kept /\ s.kind = "DEPOSIT")
            /\ UNCHANGED <<onChild, supply>>
  /\ delivered' = delivered + 1
  /\ UNCHANGED <<registry, config, processedExits, held, index, syncs, code, burns, checkpointed>>

\* The child manager's proxy gets an implementation that creates other proxies.
UpgradeChildManager(h) ==
  /\ code' = h
  /\ UNCHANGED <<registry, config, processedExits, held, index, syncs, childVars, burns, checkpointed>>

\* Holders burn units, of a token that is mapped or no longer is.
Withdraw(c, units) ==
  /\ Len(burns) < MaxLogs
  /\ units <= supply[c]
  /\ supply' = [supply EXCEPT ![c] = @ - units]
  /\ burns' = Append(burns, [token |-> c, units |-> units])
  /\ UNCHANGED <<registry, config, processedExits, held, index, syncs, onChild, delivered, kept, code, checkpointed>>

\* A plausible bug, not the code: the end of the range is taken as exclusive.
SubmitCheckpointPastEnd ==
  /\ checkpointed' \in (checkpointed + 1)..(Len(burns) + 1)
  /\ UNCHANGED <<registry, config, processedExits, held, index, syncs, childVars, code, burns>>

\* A checkpoint covers the blocks since the one before it.
SubmitCheckpoint ==
  /\ checkpointed' \in (checkpointed + 1)..Len(burns)
  /\ UNCHANGED <<registry, config, processedExits, held, index, syncs, childVars, code, burns>>

-----------------------------------------------------------------------------
Next ==
  \/ \E r \in RootToken : MapToken(r) \/ RemapToken(r) \/ Accrue(r)
  \/ \E m \in Manager, h \in Code : SetChildChainManagerAddressAndHash(m, h)
  \/ \E r \in RootToken, value \in 1..MaxValue : DepositFor(r, value)
  \/ \E i \in 1..Len(burns) : Exit(i)
  \/ Deliver
  \/ \E h \in Code : UpgradeChildManager(h)
  \/ \E c \in DOMAIN supply, units \in 1..(MaxValue * MaxSyncs) : Withdraw(c, units)
  \/ SubmitCheckpoint

Spec == Init /\ [][Next]_vars

-----------------------------------------------------------------------------
OneToOneIn(forward, backward) ==
  /\ \A r \in RootToken : forward[r] # Zero => backward[forward[r]] = r
  /\ \A c \in Address : backward[c] # Zero => forward[backward[c]] = c

\* Whatever the owner sets and whatever code the child chain has, each registry
\* stays one-to-one.
OneToOne ==
  /\ OneToOneIn(rootToChildToken, childToRootToken)
  /\ OneToOneIn(onChild.rootToChildToken, onChild.childToRootToken)

Units(entries, S) == SumFunction([i \in S |-> entries[i].units])

ChildTokens(r) == {c \in DOMAIN supply : c[2] = r}
OnItsWay(r)    == {i \in (delivered + 1)..Len(syncs) : syncs[i].root = r}
OpenBurns(r)   == {i \in (1..Len(burns)) \ processedExits : burns[i].token[2] = r}

Outstanding(r) ==
  SumFunctionOnSet(supply, ChildTokens(r)) + Units(syncs, OnItsWay(r)) + Units(burns, OpenBurns(r))

\* The root manager holds every unit that exists on the child chain or is on its
\* way, at any index and through any number of conversions: no rounding in
\* anybody's favour eats into what the others are owed.
Backed == \A r \in RootToken : held[r] >= Outstanding(r)

\* At the index of every reserve, for every word: p27Div and p27Mul are the
\* quotient and the product of their doc comments, rounded half up, or revert,
\* or wrap to zero where p27Mul lets them; and what an exit pays is worth the
\* units that were burned if their product is a word.
ConversionsExact ==
  \A r \in RootToken, x \in Uint :
    DivIsHalfUp(x, index[r]) /\ MulIsHalfUp(x, index[r]) /\ RoundTrip(x, index[r])

\* As long as every mapping that was delivered created the token that had been
\* announced, a deposit is credited in the token that it was made for, though
\* the token be remapped with the deposit on its way.
CreditedAsPromised ==
  [][delivered' # delivered
       => LET s == syncs[delivered + 1]
          IN kept /\ s.kind = "DEPOSIT" /\ s.to = ChildManager
               => s.child \in DOMAIN supply /\ supply'[s.child] = supply[s.child] + s.units]_vars
=============================================================================
