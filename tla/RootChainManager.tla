-------------------------- MODULE RootChainManager --------------------------
(***************************************************************************)
(* The token registry of the root chain's bridge contract,                 *)
(* contracts/root/RootChainManager/RootChainManager.sol, and the log of    *)
(* state syncs it sends to the child chain through the StateSender.        *)
(*                                                                         *)
(* One action per external function that writes the registry or sends a    *)
(* sync: registerPredicate, mapToken, remapToken, the two setters that     *)
(* route a sync, and deposit (depositFor and depositEtherFor, which share  *)
(* _depositFor).  A call whose require fails reverts, so it changes        *)
(* nothing and is the absence of a step.  Callers are the role holders the *)
(* `only` modifiers admit.                                                 *)
(***************************************************************************)
EXTENDS Naturals, Sequences

CONSTANTS
  RootToken,      \* token addresses on the root chain (ETHER_ADDRESS is one)
  ChildToken,     \* token addresses on the child chain
  TokenType,      \* token types, such as keccak256("ERC20"), but for bytes32(0)
  Predicate,      \* predicate contracts on the root chain
  Manager,        \* addresses that may be set as the child chain manager
  Sender,         \* contracts that may be set as the state sender
  Zero,           \* address(0)
  NoType,         \* bytes32(0)
  MaxSyncs        \* bound of the model: syncs sent in a behaviour

ASSUME AddressAssumption ==
  /\ Zero \notin RootToken \cup ChildToken \cup Predicate \cup Manager \cup Sender
  /\ NoType \notin TokenType
  /\ MaxSyncs \in Nat

VARIABLES
  typeToPredicate,
  rootToChildToken,
  childToRootToken,
  tokenToType,
  stateSender,
  childChainManagerAddress,
  syncs           \* syncs[i]: the sync the StateSender gave state id i

registry   == <<rootToChildToken, childToRootToken, tokenToType>>
wiring     == <<typeToPredicate, stateSender, childChainManagerAddress>>
rootVars   == <<registry, wiring, syncs>>

\* A Solidity mapping is total: reading it at address(0) is legal, and
\* remapToken does so whenever a side of the new pair was free.
RootAddress  == RootToken \cup {Zero}
ChildAddress == ChildToken \cup {Zero}

\* What syncState carries to the child chain.  The token type in the payload
\* of MAP_TOKEN is dropped by the receiver, the user and the depositData of
\* DEPOSIT are passed on to the child token: none of them is read by the
\* registries.
Sync == [kind : {"MAP_TOKEN"}, root : RootToken, child : ChildToken,
         sender : Sender, receiver : Manager \cup {Zero}]
        \cup
        [kind : {"DEPOSIT"}, root : RootToken,
         sender : Sender, receiver : Manager \cup {Zero}]

RootTypeOK ==
  /\ typeToPredicate \in [TokenType -> Predicate \cup {Zero}]
  /\ rootToChildToken \in [RootAddress -> ChildAddress]
  /\ childToRootToken \in [ChildAddress -> RootAddress]
  /\ tokenToType \in [RootAddress -> TokenType \cup {NoType}]
  /\ stateSender \in Sender \cup {Zero}
  /\ childChainManagerAddress \in Manager \cup {Zero}
  /\ syncs \in Seq(Sync)

-----------------------------------------------------------------------------
\* A freshly deployed contract: every mapping reads as zero.
RootInit ==
  /\ typeToPredicate = [t \in TokenType |-> Zero]
  /\ rootToChildToken = [r \in RootAddress |-> Zero]
  /\ childToRootToken = [c \in ChildAddress |-> Zero]
  /\ tokenToType = [r \in RootAddress |-> NoType]
  /\ stateSender = Zero
  /\ childChainManagerAddress = Zero
  /\ syncs = << >>

\* IStateSender.syncState: the sync gets the next state id.  Calling a state
\* sender that was never set reverts, as address(0) has no code.
SyncState(data) ==
  /\ stateSender # Zero
  /\ Len(syncs) < MaxSyncs
  /\ syncs' = Append(syncs, data)

MapSync(r, c) == [kind |-> "MAP_TOKEN", root |-> r, child |-> c,
                  sender |-> stateSender, receiver |-> childChainManagerAddress]
DepositSync(r) == [kind |-> "DEPOSIT", root |-> r,
                   sender |-> stateSender, receiver |-> childChainManagerAddress]

RegisterPredicate(t, p) ==
  /\ typeToPredicate' = [typeToPredicate EXCEPT ![t] = p]
  /\ UNCHANGED <<registry, stateSender, childChainManagerAddress, syncs>>

SetStateSender(s) ==
  /\ stateSender' = s
  /\ UNCHANGED <<registry, typeToPredicate, childChainManagerAddress, syncs>>

SetChildChainManagerAddress(m) ==
  /\ m # Zero
  /\ childChainManagerAddress' = m
  /\ UNCHANGED <<registry, typeToPredicate, stateSender, syncs>>

\* A plausible bug, not the code: the child token is recorded as its own root.
MapTokenOverMistyped(r2c, c2r, types, r, c, t) ==
  /\ typeToPredicate[t] # Zero
  /\ rootToChildToken' = [r2c EXCEPT ![r] = c]
  /\ childToRootToken' = [c2r EXCEPT ![c] = c]
  /\ tokenToType' = [types EXCEPT ![r] = t]
  /\ SyncState(MapSync(r, c))
  /\ UNCHANGED wiring

\* _mapToken, given the registry as the caller's clean-up left it.
MapTokenOver(r2c, c2r, types, r, c, t) ==
  /\ typeToPredicate[t] # Zero
  /\ rootToChildToken' = [r2c EXCEPT ![r] = c]
  /\ childToRootToken' = [c2r EXCEPT ![c] = r]
  /\ tokenToType' = [types EXCEPT ![r] = t]
  /\ SyncState(MapSync(r, c))
  /\ UNCHANGED wiring

MapToken(r, c, t) ==
  /\ rootToChildToken[r] = Zero
  /\ childToRootToken[c] = Zero
  /\ MapTokenOver(rootToChildToken, childToRootToken, tokenToType, r, c, t)

\* Plausible bugs, not the code: remapToken forgets the type of the token it
\* unmaps, forgets the root side of the clean-up.
UnmapRootKeepsType(c) ==
  LET oldRoot == childToRootToken[c]
  IN  [r2c |-> [rootToChildToken EXCEPT ![oldRoot] = Zero], types |-> tokenToType]

UnmapRootForgotten(c) == [r2c |-> rootToChildToken, types |-> tokenToType]

\* The clean-up of remapToken: the root token that held c is unmapped with its
\* type, and the child token that r held is unmapped.  Both old partners are
\* read before anything is written.
UnmapRoot(c) ==
  LET oldRoot == childToRootToken[c]
  IN  IF rootToChildToken[oldRoot] # Zero
      THEN [r2c   |-> [rootToChildToken EXCEPT ![oldRoot] = Zero],
            types |-> [tokenToType EXCEPT ![oldRoot] = NoType]]
      ELSE [r2c |-> rootToChildToken, types |-> tokenToType]

UnmapChild(r) ==
  LET oldChild == rootToChildToken[r]
  IN  IF childToRootToken[oldChild] # Zero
      THEN [childToRootToken EXCEPT ![oldChild] = Zero]
      ELSE childToRootToken

RemapToken(r, c, t) ==
  MapTokenOver(UnmapRoot(c).r2c, UnmapChild(r), UnmapRoot(c).types, r, c, t)

\* A plausible bug, not the code: a deposit of a token that is not mapped.
DepositForUnmapped(r) ==
  /\ SyncState(DepositSync(r))
  /\ UNCHANGED <<registry, wiring>>

\* _depositFor: the predicate locks the tokens, then the sync is sent.
DepositFor(r) ==
  /\ rootToChildToken[r] # Zero
  /\ tokenToType[r] # NoType
  /\ typeToPredicate[tokenToType[r]] # Zero
  /\ SyncState(DepositSync(r))
  /\ UNCHANGED <<registry, wiring>>

-----------------------------------------------------------------------------
\* What mappers and users do once the bridge is set up.  Tokens are mapped to
\* deployed contracts, so the addresses passed in are not zero.
Operate ==
  \/ \E r \in RootToken, c \in ChildToken, t \in TokenType : MapToken(r, c, t)
  \/ \E r \in RootToken, c \in ChildToken, t \in TokenType : RemapToken(r, c, t)
  \/ \E r \in RootToken : DepositFor(r)
  \/ \E t \in TokenType, p \in Predicate \cup {Zero} : RegisterPredicate(t, p)

\* What the admin does to wire the contract to the rest of the bridge.
Configure ==
  \/ \E s \in Sender \cup {Zero} : SetStateSender(s)
  \/ \E m \in Manager : SetChildChainManagerAddress(m)

RootNext == Operate \/ Configure

\* mapToken and remapToken check neither address: what a mapper can do who
\* passes no child token.
OperateAnyChild ==
  \/ Operate
  \/ \E r \in RootToken, t \in TokenType : MapToken(r, Zero, t) \/ RemapToken(r, Zero, t)

-----------------------------------------------------------------------------
\* The two directions of the registry are inverse to each other: a token on
\* one chain has at most one partner on the other, and both sides name each
\* other.  mapToken's require and remapToken's clean-up keep it; depositFor
\* reads one direction and exit reads the other.
RootOneToOne ==
  /\ \A r \in RootToken : rootToChildToken[r] # Zero
                            => childToRootToken[rootToChildToken[r]] = r
  /\ \A c \in ChildToken : childToRootToken[c] # Zero
                            => rootToChildToken[childToRootToken[c]] = c

\* A root token has a type exactly while it is mapped, so the two conditions
\* of depositFor's require agree and an unmapped token keeps no old type.  It
\* rests on mappers never registering a predicate for bytes32(0), which
\* registerPredicate would accept: a token mapped with that type is mapped and
\* has none.
TypedIffMapped ==
  \A r \in RootToken : tokenToType[r] # NoType <=> rootToChildToken[r] # Zero

\* Reads at address(0) find nothing: the clean-ups that read through a free
\* side of the pair are harmless only because of this.
ZeroUnmapped ==
  /\ rootToChildToken[Zero] = Zero
  /\ childToRootToken[Zero] = Zero
  /\ tokenToType[Zero] = NoType

\* "explicit check if token is already mapped to avoid accidental remaps":
\* mapToken only ever adds a pair; what was mapped on either side stays.
KeepsMappings ==
  /\ \A r \in RootToken : rootToChildToken[r] # Zero
       => /\ rootToChildToken'[r] = rootToChildToken[r]
          /\ tokenToType'[r] = tokenToType[r]
  /\ \A c \in ChildToken : childToRootToken[c] # Zero
       => childToRootToken'[c] = childToRootToken[c]

MapTokenAdds ==
  (\E r \in RootToken, c \in ChildToken, t \in TokenType : MapToken(r, c, t))
    => KeepsMappings

MapTokenOnlyAdds == [][MapTokenAdds]_rootVars
=============================================================================
