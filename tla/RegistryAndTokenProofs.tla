------------------------ MODULE RegistryAndTokenProofs ------------------------
(***************************************************************************)
(* Two sets of proofs, of models that share no variable.  First of         *)
(* MappingSync in normal operation (SyncedSpec), for every set of tokens,  *)
(* types and predicates and every number of syncs; then of UChildDAI, for  *)
(* all users, calls and bounds.                                            *)
(***************************************************************************)
EXTENDS MappingSync, UChildDAI, SequenceTheorems, TLAPS

-----------------------------------------------------------------------------
\* The registry part of a root step that maps a pair, from any clean-up.
LEMMA SyncStateType ==
  ASSUME RootTypeOK, NEW m \in Sync, SyncState(m)
  PROVE  syncs' \in Seq(Sync)
BY DEF RootTypeOK, SyncState

LEMMA UnmapTypes ==
  ASSUME RootTypeOK, NEW r \in RootToken, NEW c \in ChildToken
  PROVE  /\ UnmapRoot(c).r2c \in [RootAddress -> ChildAddress]
         /\ UnmapRoot(c).types \in [RootAddress -> TokenType \cup {NoType}]
         /\ UnmapChild(r) \in [ChildAddress -> RootAddress]
BY DEF RootTypeOK, UnmapRoot, UnmapChild, RootAddress, ChildAddress

LEMMA MapTokenOverType ==
  ASSUME RootTypeOK,
         NEW r2c \in [RootAddress -> ChildAddress],
         NEW c2r \in [ChildAddress -> RootAddress],
         NEW types \in [RootAddress -> TokenType \cup {NoType}],
         NEW r \in RootToken, NEW c \in ChildToken, NEW t \in TokenType,
         MapTokenOver(r2c, c2r, types, r, c, t)
  PROVE  RootTypeOK'
<1>1. stateSender \in Sender
  BY DEF MapTokenOver, SyncState, RootTypeOK
<1>2. MapSync(r, c) \in Sync
  BY <1>1 DEF MapSync, Sync, RootTypeOK, RootAddress, ChildAddress
<1>3. syncs' \in Seq(Sync)
  BY <1>2, SyncStateType DEF MapTokenOver
<1>4. QED
  BY <1>3 DEF MapTokenOver, RootTypeOK, wiring, RootAddress, ChildAddress

LEMMA RootTypePreserved == RootTypeOK /\ RootNext => RootTypeOK'
<1> SUFFICES ASSUME RootTypeOK, RootNext PROVE RootTypeOK'
  OBVIOUS
<1>1. CASE \E r \in RootToken, c \in ChildToken, t \in TokenType : MapToken(r, c, t)
  <2> PICK r \in RootToken, c \in ChildToken, t \in TokenType : MapToken(r, c, t)
    BY <1>1
  <2> QED
    BY MapTokenOverType DEF MapToken, RootTypeOK
<1>2. CASE \E r \in RootToken, c \in ChildToken, t \in TokenType : RemapToken(r, c, t)
  <2> PICK r \in RootToken, c \in ChildToken, t \in TokenType : RemapToken(r, c, t)
    BY <1>2
  <2> QED
    BY MapTokenOverType, UnmapTypes DEF RemapToken
<1>3. CASE \E r \in RootToken : DepositFor(r)
  <2>1. PICK r \in RootToken : DepositFor(r)
    BY <1>3
  <2>2. DepositSync(r) \in Sync
    BY <2>1 DEF DepositFor, SyncState, DepositSync, Sync, RootTypeOK, RootAddress
  <2>3. syncs' \in Seq(Sync)
    BY <2>1, <2>2, SyncStateType DEF DepositFor
  <2> QED
    BY <2>1, <2>3 DEF DepositFor, RootTypeOK, registry, wiring
<1>4. CASE \E t \in TokenType, p \in Predicate \cup {Zero} : RegisterPredicate(t, p)
  BY <1>4 DEF RegisterPredicate, RootTypeOK, registry
<1>5. CASE Configure
  BY <1>5 DEF Configure, SetStateSender, SetChildChainManagerAddress, RootTypeOK, registry
<1> QED
  BY <1>1, <1>2, <1>3, <1>4, <1>5 DEF RootNext, Operate

-----------------------------------------------------------------------------
\* The child's _mapToken, as a function of a pair of mappings, keeps the two
\* directions inverse to each other, and address(0) unmapped.
InverseMaps(f, g) ==
  /\ f[Zero] = Zero
  /\ g[Zero] = Zero
  /\ \A r \in RootToken : f[r] # Zero => g[f[r]] = r
  /\ \A c \in ChildToken : g[c] # Zero => f[g[c]] = c

LEMMA MappedType ==
  ASSUME NEW f \in [RootAddress -> ChildAddress], NEW g \in [ChildAddress -> RootAddress],
         NEW r \in RootToken, NEW c \in ChildToken
  PROVE  /\ Child!MappedRoots(f, g, r, c) \in [RootAddress -> ChildAddress]
         /\ Child!MappedChildren(f, g, r, c) \in [ChildAddress -> RootAddress]
BY DEF Child!MappedRoots, Child!MappedChildren, RootAddress, ChildAddress

LEMMA MappedInverse ==
  ASSUME NEW f \in [RootAddress -> ChildAddress], NEW g \in [ChildAddress -> RootAddress],
         NEW r \in RootToken, NEW c \in ChildToken,
         InverseMaps(f, g)
  PROVE  InverseMaps(Child!MappedRoots(f, g, r, c), Child!MappedChildren(f, g, r, c))
<1> DEFINE F == Child!MappedRoots(f, g, r, c)
           G == Child!MappedChildren(f, g, r, c)
<1> USE AddressAssumption DEF RootAddress, ChildAddress
<1>1. \A x \in RootAddress : F[x] = IF x = r THEN c ELSE IF f[x] = c THEN Zero ELSE f[x]
  BY DEF Child!MappedRoots, InverseMaps
<1>2. \A y \in ChildAddress : G[y] = IF y = c THEN r ELSE IF g[y] = r THEN Zero ELSE g[y]
  BY DEF Child!MappedChildren, InverseMaps
<1>3. F[Zero] = Zero /\ G[Zero] = Zero
  BY <1>1, <1>2 DEF InverseMaps
<1>4. \A x \in RootToken : F[x] # Zero => G[F[x]] = x
  BY <1>1, <1>2 DEF InverseMaps
<1>5. \A y \in ChildToken : G[y] # Zero => F[G[y]] = y
  BY <1>1, <1>2 DEF InverseMaps
<1> HIDE DEF F, G
<1>6. InverseMaps(F, G)
  BY <1>3, <1>4, <1>5 DEF InverseMaps
<1> QED
  BY <1>6 DEF F, G

\* The registry invariant of the root chain.
RegistryOK == ZeroUnmapped /\ RootOneToOne /\ TypedIffMapped

LEMMA RegistryIsInverse ==
  RegistryOK => InverseMaps(rootToChildToken, childToRootToken)
BY DEF RegistryOK, ZeroUnmapped, RootOneToOne, InverseMaps

\* Both external functions of the root contract write what the child's
\* _mapToken would: mapToken because there is nothing to clean up.
LEMMA RemapIsMapped ==
  ASSUME RootTypeOK, RegistryOK,
         NEW r \in RootToken, NEW c \in ChildToken, NEW t \in TokenType,
         MapToken(r, c, t) \/ RemapToken(r, c, t)
  PROVE  /\ rootToChildToken' = Child!MappedRoots(rootToChildToken, childToRootToken, r, c)
         /\ childToRootToken' = Child!MappedChildren(rootToChildToken, childToRootToken, r, c)
<1>1. CASE MapToken(r, c, t)
  BY <1>1 DEF MapToken, MapTokenOver, RegistryOK, ZeroUnmapped,
              Child!MappedRoots, Child!MappedChildren
<1>2. CASE RemapToken(r, c, t)
  BY <1>2 DEF RemapToken, MapTokenOver, UnmapRoot, UnmapChild,
              Child!MappedRoots, Child!MappedChildren
<1> QED
  BY <1>1, <1>2

LEMMA MappingKeepsRegistry ==
  ASSUME RootTypeOK, RegistryOK,
         NEW r \in RootToken, NEW c \in ChildToken, NEW t \in TokenType,
         MapToken(r, c, t) \/ RemapToken(r, c, t)
  PROVE  RegistryOK'
<1>1. InverseMaps(rootToChildToken', childToRootToken')
  <2>1. InverseMaps(rootToChildToken, childToRootToken)
    BY RegistryIsInverse
  <2>2. /\ rootToChildToken \in [RootAddress -> ChildAddress]
        /\ childToRootToken \in [ChildAddress -> RootAddress]
    BY DEF RootTypeOK
  <2>3. InverseMaps(Child!MappedRoots(rootToChildToken, childToRootToken, r, c),
                Child!MappedChildren(rootToChildToken, childToRootToken, r, c))
    BY <2>1, <2>2, MappedInverse
  <2> QED
    BY <2>3, RemapIsMapped
<1> USE AddressAssumption DEF RootAddress, ChildAddress
<1>2. ZeroUnmapped' /\ TypedIffMapped'
  <2>1. CASE MapToken(r, c, t)
    BY <1>1, <2>1 DEF InverseMaps, RegistryOK, ZeroUnmapped, TypedIffMapped, RootTypeOK,
                      MapToken, MapTokenOver
  <2>2. CASE RemapToken(r, c, t)
    BY <1>1, <2>2 DEF InverseMaps, RegistryOK, ZeroUnmapped, TypedIffMapped, RootTypeOK,
                      RemapToken, MapTokenOver, UnmapRoot, UnmapChild
  <2> QED
    BY <2>1, <2>2
<1> QED
  BY <1>1, <1>2 DEF RegistryOK, RootOneToOne, InverseMaps

LEMMA RegistryPreserved == RootTypeOK /\ RegistryOK /\ RootNext => RegistryOK'
<1> SUFFICES ASSUME RootTypeOK, RegistryOK, RootNext PROVE RegistryOK'
  OBVIOUS
<1>1. CASE \E r \in RootToken, c \in ChildToken, t \in TokenType :
             MapToken(r, c, t) \/ RemapToken(r, c, t)
  BY <1>1, MappingKeepsRegistry
<1>2. CASE UNCHANGED registry
  BY <1>2 DEF registry, RegistryOK, ZeroUnmapped, RootOneToOne, TypedIffMapped
<1> QED
  BY <1>1, <1>2 DEF RootNext, Operate, Configure, DepositFor, RegisterPredicate,
                    SetStateSender, SetChildChainManagerAddress

-----------------------------------------------------------------------------
\* The inductive invariant of normal operation.  The history of the root
\* registry is what the child's code computes from the syncs, one by one, and
\* it ends with the registry of now.
After(sync, reg) ==
  IF sync.kind = "MAP_TOKEN"
  THEN [r2c |-> Child!MappedRoots(reg.r2c, reg.c2r, sync.root, sync.child),
        c2r |-> Child!MappedChildren(reg.r2c, reg.c2r, sync.root, sync.child)]
  ELSE reg

Wired ==
  /\ stateSender = StateSender
  /\ childChainManagerAddress = ChildManager
  /\ \A i \in 1..Len(syncs) : Reaches(syncs[i])

HistoryReplays ==
  /\ \A i \in 1..Len(syncs) : versions[i + 1] = After(syncs[i], versions[i])
  /\ versions[Len(versions)] = RootRegistry

SyncedInv ==
  /\ TypeOK
  /\ RegistryOK
  /\ Wired
  /\ HistoryReplays
  /\ ChildIsPastRoot
  /\ DepositsCreditedAsPromised

LEMMA SyncedInit == WiredInit => SyncedInv
<1> SUFFICES ASSUME WiredInit PROVE SyncedInv
  OBVIOUS
<1> USE AddressAssumption, WiringAssumption
<1>1. RootTypeOK /\ Child!ChildTypeOK
  BY DEF WiredInit, RootTypeOK, Child!ChildInit, Child!ChildTypeOK, RootAddress,
         ChildAddress, Child!RootAddress, Child!ChildAddress
<1>2. RootRegistry \in Registry
  BY <1>1 DEF RootTypeOK, RootRegistry, Registry
<1>3. versions \in Seq(Registry) /\ Len(versions) = 1 /\ versions[1] = RootRegistry
  BY <1>2 DEF WiredInit
<1>4. syncs = << >> /\ credited = << >>
  BY DEF WiredInit, Child!ChildInit
<1>5. TypeOK
  BY <1>1, <1>3, <1>4 DEF TypeOK
<1>6. RegistryOK
  BY DEF WiredInit, RegistryOK, ZeroUnmapped, RootOneToOne, TypedIffMapped, RootAddress,
         ChildAddress
<1>7. ChildIsPastRoot
  BY <1>3, <1>4 DEF ChildIsPastRoot, RootRegistry, ChildRegistry, WiredInit, Child!ChildInit,
         RootAddress, ChildAddress, Child!RootAddress, Child!ChildAddress
<1>8. Wired /\ HistoryReplays /\ DepositsCreditedAsPromised
  BY <1>3, <1>4 DEF WiredInit, Wired, HistoryReplays, DepositsCreditedAsPromised
<1> QED
  BY <1>5, <1>6, <1>7, <1>8 DEF SyncedInv

\* A root step either leaves the registry alone and sends nothing, or sends
\* one sync from which the child's code computes the new registry.
Sends(m) ==
  /\ m \in Sync
  /\ m.sender = stateSender /\ m.receiver = childChainManagerAddress
  /\ syncs' = Append(syncs, m)
  /\ RootRegistry' = After(m, RootRegistry)
  /\ m.kind = "DEPOSIT" => rootToChildToken[m.root] # Zero

LEMMA OperateSends ==
  ASSUME RootTypeOK, RegistryOK, Operate
  PROVE  /\ UNCHANGED <<stateSender, childChainManagerAddress>>
         /\ UNCHANGED <<registry, syncs>> \/ \E m : Sends(m)
<1>1. CASE \E r \in RootToken, c \in ChildToken, t \in TokenType :
             MapToken(r, c, t) \/ RemapToken(r, c, t)
  <2>1. PICK r \in RootToken, c \in ChildToken, t \in TokenType :
               MapToken(r, c, t) \/ RemapToken(r, c, t)
    BY <1>1
  <2>2. /\ syncs' = Append(syncs, MapSync(r, c))
        /\ stateSender # Zero
        /\ UNCHANGED <<stateSender, childChainManagerAddress>>
    BY <2>1 DEF MapToken, RemapToken, MapTokenOver, SyncState, wiring
  <2>3. MapSync(r, c) \in Sync
    BY <2>2 DEF MapSync, Sync, RootTypeOK, RootAddress, ChildAddress
  <2>4. RootRegistry' = After(MapSync(r, c), RootRegistry)
    BY <2>1, RemapIsMapped DEF RootRegistry, After, MapSync
  <2>5. Sends(MapSync(r, c))
    BY <2>2, <2>3, <2>4 DEF Sends, MapSync
  <2> QED
    BY <2>2, <2>5
<1>2. CASE \E r \in RootToken : DepositFor(r)
  <2>1. PICK r \in RootToken : DepositFor(r)
    BY <1>2
  <2>2. DepositSync(r) \in Sync
    BY <2>1 DEF DepositFor, SyncState, DepositSync, Sync, RootTypeOK, RootAddress
  <2>3. RootRegistry' = After(DepositSync(r), RootRegistry)
    BY <2>1 DEF DepositFor, registry, RootRegistry, After, DepositSync
  <2>4. Sends(DepositSync(r))
    BY <2>1, <2>2, <2>3 DEF Sends, DepositSync, DepositFor, SyncState
  <2> QED
    BY <2>1, <2>4 DEF DepositFor, wiring
<1>3. CASE \E t \in TokenType, p \in Predicate \cup {Zero} : RegisterPredicate(t, p)
  BY <1>3 DEF RegisterPredicate
<1> QED
  BY <1>1, <1>2, <1>3 DEF Operate

LEMMA SendPreserves ==
  ASSUME SyncedInv, RootStep(Operate)
  PROVE  SyncedInv'
<1>1. RootTypeOK /\ RegistryOK /\ Operate
  BY DEF SyncedInv, TypeOK, RootStep
<1>2. RootTypeOK' /\ RegistryOK'
  BY <1>1, RootTypePreserved, RegistryPreserved DEF RootNext
<1>3. CASE UNCHANGED <<registry, syncs>>
  <2>1. /\ UNCHANGED <<registry, syncs, versions, childVars>>
        /\ UNCHANGED <<stateSender, childChainManagerAddress>>
    BY <1>1, <1>3, OperateSends DEF RootStep
  <2>2. TypeOK'
    BY <1>2, <2>1 DEF SyncedInv, TypeOK, Child!ChildTypeOK, childVars
  <2>3. Wired' /\ HistoryReplays'
    BY <2>1 DEF SyncedInv, Wired, HistoryReplays, RootRegistry, registry
  <2>4. ChildIsPastRoot' /\ DepositsCreditedAsPromised'
    BY <2>1 DEF SyncedInv, ChildIsPastRoot, ChildRegistry, DepositsCreditedAsPromised, promised,
                childVars
  <2> QED
    BY <1>2, <2>2, <2>3, <2>4 DEF SyncedInv
<1>4. CASE \E m : Sends(m)
  <2>1. PICK m : Sends(m)
    BY <1>4
  <2>2. /\ syncs \in Seq(Sync) /\ versions \in Seq(Registry) /\ credited \in Seq(ChildAddress)
        /\ Len(versions) = Len(syncs) + 1 /\ Len(credited) \in Nat /\ Len(credited) <= Len(syncs)
    BY DEF SyncedInv, TypeOK, RootTypeOK, Child!ChildTypeOK, ChildAddress, Child!ChildAddress
  <2>3. RootRegistry' \in Registry
    BY <1>2 DEF RootTypeOK, RootRegistry, Registry
  <2>4. /\ syncs' = Append(syncs, m) /\ m \in Sync
        /\ versions' = Append(versions, RootRegistry')
        /\ UNCHANGED childVars
    BY <2>1, <2>2 DEF Sends, RootStep
  <2>5. /\ Len(syncs') = Len(syncs) + 1 /\ Len(versions') = Len(syncs') + 1
        /\ \A i \in 1..Len(syncs) : syncs'[i] = syncs[i]
        /\ syncs'[Len(syncs')] = m
        /\ \A i \in 1..Len(versions) : versions'[i] = versions[i]
        /\ versions'[Len(versions')] = RootRegistry'
        /\ versions' \in Seq(Registry)
    BY <2>2, <2>3, <2>4
  <2>6. TypeOK'
    BY <1>2, <2>2, <2>4, <2>5 DEF SyncedInv, TypeOK, Child!ChildTypeOK, childVars
  <2>7. Wired'
    <3>1. UNCHANGED <<stateSender, childChainManagerAddress>>
      BY <1>1, OperateSends
    <3>2. Reaches(m)
      BY <2>1 DEF Sends, SyncedInv, Wired, Reaches
    <3>3. \A i \in 1..Len(syncs') : Reaches(syncs'[i])
      BY <2>2, <2>5, <3>2 DEF SyncedInv, Wired, Reaches
    <3> QED
      BY <3>1, <3>3 DEF SyncedInv, Wired, Reaches
  <2>8. HistoryReplays'
    <3>1. \A i \in 1..Len(syncs) : versions'[i + 1] = After(syncs'[i], versions'[i])
      BY <2>2, <2>5 DEF SyncedInv, HistoryReplays
    <3>2. versions'[Len(syncs') + 1] = After(syncs'[Len(syncs')], versions'[Len(syncs')])
      BY <2>1, <2>2, <2>5 DEF SyncedInv, HistoryReplays, Sends
    <3>3. ASSUME NEW i \in 1..Len(syncs')
          PROVE  versions'[i + 1] = After(syncs'[i], versions'[i])
      <4>1. i \in 1..Len(syncs) \/ i = Len(syncs')
        BY <2>2, <2>5
      <4> QED
        BY <3>1, <3>2, <4>1
    <3> QED
      BY <2>5, <3>3 DEF HistoryReplays, After
  <2>9. ChildIsPastRoot'
    BY <2>2, <2>4, <2>5 DEF SyncedInv, ChildIsPastRoot, ChildRegistry, childVars
  <2>10. DepositsCreditedAsPromised'
    <3>1. credited' = credited
      BY <2>4 DEF childVars
    <3>2. \A i \in 1..Len(syncs) : promised'[i] = promised[i]
      BY <2>2, <2>5 DEF promised
    <3> QED
      BY <2>2, <3>1, <3>2 DEF SyncedInv, DepositsCreditedAsPromised
  <2> QED
    BY <1>2, <2>6, <2>7, <2>8, <2>9, <2>10 DEF SyncedInv
<1> QED
  BY <1>1, <1>3, <1>4, OperateSends

\* A delivery moves the child registry to the next version and credits what
\* was promised.
LEMMA DeliverEffect ==
  ASSUME SyncedInv, Deliver
  PROVE  /\ Len(credited) + 1 \in 1..Len(syncs)
         /\ ChildRegistry' = versions[Len(credited) + 2]
         /\ credited' = Append(credited, promised[Len(credited) + 1])
         /\ promised[Len(credited) + 1] \in ChildAddress
<1> DEFINE n == Len(credited) + 1
           m == syncs[n]
<1>1. n \in 1..Len(syncs) /\ Len(versions) = Len(syncs) + 1 /\ n + 1 \in 1..Len(versions)
  BY DEF SyncedInv, TypeOK, RootTypeOK, Child!ChildTypeOK, Deliver
<1>2. m \in Sync /\ versions[n] \in Registry /\ versions[n + 1] \in Registry
  BY <1>1 DEF SyncedInv, TypeOK, RootTypeOK
<1>3. Child!OnStateReceive(m)
  BY <1>1 DEF SyncedInv, Wired, Deliver
<1>4. versions[n + 1] = After(m, versions[n]) /\ ChildRegistry = versions[n]
  BY <1>1 DEF SyncedInv, HistoryReplays, ChildIsPastRoot
<1>5. promised[n] = IF m.kind = "DEPOSIT" THEN versions[n + 1].r2c[m.root] ELSE Zero
  BY <1>1 DEF promised
<1>6. m.root \in RootAddress
  BY <1>2 DEF Sync, RootAddress
<1> HIDE DEF n, m
<1>7. promised[n] \in ChildAddress
  BY <1>2, <1>5, <1>6 DEF Registry, ChildAddress
<1>8. ChildRegistry' = versions[n + 1] /\ credited' = Append(credited, promised[n])
  <2>1. CASE m.kind = "DEPOSIT"
    BY <1>3, <1>4, <1>5, <2>1 DEF Child!OnStateReceive, Child!SyncDeposit, After, ChildRegistry
  <2>2. CASE m.kind = "MAP_TOKEN"
    BY <1>3, <1>4, <1>5, <2>2 DEF Child!OnStateReceive, Child!SyncMapping, Child!SetMapping,
                                  After, ChildRegistry
  <2> QED
    BY <1>3, <2>1, <2>2 DEF Child!OnStateReceive
<1> QED
  BY <1>1, <1>7, <1>8 DEF n

LEMMA DeliverPreserves ==
  ASSUME SyncedInv, Deliver
  PROVE  SyncedInv'
<1>1. UNCHANGED <<rootVars, versions>>
  BY DEF Deliver
<1>2. /\ credited \in Seq(ChildAddress) /\ versions \in Seq(Registry)
      /\ Len(versions) = Len(syncs) + 1
  BY DEF SyncedInv, TypeOK, Child!ChildTypeOK, ChildAddress, Child!ChildAddress
<1>3. /\ credited' \in Seq(ChildAddress)
      /\ Len(credited') = Len(credited) + 1 /\ Len(credited') <= Len(syncs)
      /\ \A i \in 1..Len(credited) : credited'[i] = credited[i]
      /\ credited'[Len(credited')] = promised[Len(credited')]
  <2>1. /\ Len(credited) + 1 \in 1..Len(syncs)
        /\ credited' = Append(credited, promised[Len(credited) + 1])
        /\ promised[Len(credited) + 1] \in ChildAddress
    BY DeliverEffect
  <2> DEFINE p == promised[Len(credited) + 1]
  <2>2. credited' = Append(credited, p) /\ p \in ChildAddress
    BY <2>1
  <2> HIDE DEF p
  <2>3. /\ credited' \in Seq(ChildAddress)
        /\ Len(credited') = Len(credited) + 1
        /\ \A i \in 1..Len(credited) : credited'[i] = credited[i]
        /\ credited'[Len(credited) + 1] = p
    BY <1>2, <2>2
  <2> QED
    BY <2>1, <2>3 DEF p
<1>4. ChildRegistry' = versions[Len(credited') + 1] /\ ChildRegistry' \in Registry
  BY <1>2, <1>3, DeliverEffect
<1>5. RootTypeOK' /\ RegistryOK' /\ Wired' /\ HistoryReplays' /\ promised' = promised
  BY <1>1 DEF SyncedInv, TypeOK, rootVars, registry, wiring, RootTypeOK, RegistryOK, ZeroUnmapped,
              RootOneToOne, TypedIffMapped, Wired, HistoryReplays, RootRegistry, promised
<1>6. TypeOK'
  <2>1. /\ childRootToChildToken' \in [RootAddress -> ChildAddress]
        /\ childChildToRootToken' \in [ChildAddress -> RootAddress]
    BY <1>4 DEF ChildRegistry, Registry
  <2> QED
    BY <1>1, <1>3, <1>5, <2>1 DEF SyncedInv, TypeOK, Child!ChildTypeOK, rootVars, RootAddress,
              ChildAddress, Child!RootAddress, Child!ChildAddress
<1>7. ChildIsPastRoot'
  BY <1>1, <1>4 DEF ChildIsPastRoot
<1>8. DepositsCreditedAsPromised'
  BY <1>2, <1>3, <1>5 DEF SyncedInv, DepositsCreditedAsPromised
<1> QED
  BY <1>5, <1>6, <1>7, <1>8 DEF SyncedInv

LEMMA SyncedInvNext == SyncedInv /\ [SyncedNext]_vars => SyncedInv'
<1> SUFFICES ASSUME SyncedInv, [SyncedNext]_vars PROVE SyncedInv'
  OBVIOUS
<1>1. CASE RootStep(Operate)
  BY <1>1, SendPreserves
<1>2. CASE Deliver
  BY <1>2, DeliverPreserves
<1>3. CASE UNCHANGED vars
  BY <1>3 DEF vars, rootVars, childVars, registry, wiring, SyncedInv, TypeOK, RootTypeOK,
              Child!ChildTypeOK, RegistryOK, ZeroUnmapped, RootOneToOne, TypedIffMapped, Wired,
              HistoryReplays, RootRegistry, ChildIsPastRoot, ChildRegistry,
              DepositsCreditedAsPromised, promised
<1> QED
  BY <1>1, <1>2, <1>3 DEF SyncedNext

THEOREM SyncedInvariant == SyncedSpec => []SyncedInv
<1> QED
  BY SyncedInit, SyncedInvNext, PTL DEF SyncedSpec

\* Type correctness of both contracts and of the syncs between them.
THEOREM SyncedTypeOK == SyncedSpec => []TypeOK
<1>1. SyncedInv => TypeOK
  BY DEF SyncedInv
<1> QED
  BY <1>1, SyncedInvariant, PTL

\* The root registry pairs tokens one to one, and types exactly the mapped
\* ones, through any sequence of mapToken, remapToken and registerPredicate.
THEOREM SyncedRegistry == SyncedSpec => [](RootOneToOne /\ TypedIffMapped)
<1>1. SyncedInv => RootOneToOne /\ TypedIffMapped
  BY DEF SyncedInv, RegistryOK
<1> QED
  BY <1>1, SyncedInvariant, PTL

\* The child registry is an exact past state of the root registry, although
\* the two contracts run different code.
THEOREM ChildLagsRoot == SyncedSpec => []ChildIsPastRoot
<1>1. SyncedInv => ChildIsPastRoot
  BY DEF SyncedInv
<1> QED
  BY <1>1, SyncedInvariant, PTL

\* Every deposit delivered was credited to the child token mapped when it was
\* made, however the token was remapped in between.
THEOREM DepositsKept == SyncedSpec => []DepositsCreditedAsPromised
<1>1. SyncedInv => DepositsCreditedAsPromised
  BY DEF SyncedInv
<1> QED
  BY <1>1, SyncedInvariant, PTL

\* mapToken never changes a mapping that exists, nor the type of a mapped
\* token.
THEOREM MapTokenSafe == SyncedSpec => MapTokenOnlyAdds
<1>1. ASSUME SyncedInv, NEW r \in RootToken, NEW c \in ChildToken, NEW t \in TokenType,
             MapToken(r, c, t)
      PROVE  KeepsMappings
  BY <1>1 DEF KeepsMappings, SyncedInv, TypeOK, RootTypeOK, MapToken, MapTokenOver, RootAddress,
              ChildAddress
<1>2. SyncedInv => MapTokenAdds
  BY <1>1 DEF MapTokenAdds
<1> QED
  BY <1>2, SyncedInvariant, PTL DEF SyncedSpec, MapTokenOnlyAdds

-----------------------------------------------------------------------------
\* The refinement of DepositPromise.
LEMMA PromiseInit == WiredInit => Promise!Init
BY AddressAssumption DEF WiredInit, Child!ChildInit, Promise!Init, promised, RootAddress

LEMMA PromiseDeliver == SyncedInv /\ Deliver => Promise!Honour
<1> SUFFICES ASSUME SyncedInv, Deliver PROVE Promise!Honour
  OBVIOUS
<1>1. promised' = promised /\ rootToChildToken' = rootToChildToken
  BY DEF Deliver, rootVars, registry, promised
<1>2. Len(promised) = Len(syncs)
  BY DEF promised, SyncedInv, TypeOK, RootTypeOK
<1> QED
  BY <1>1, <1>2, DeliverEffect DEF Promise!Honour, Deliver

LEMMA PromisedType == SyncedInv => promised \in Seq(ChildAddress) /\ Len(promised) = Len(syncs)
<1> SUFFICES ASSUME SyncedInv PROVE promised \in Seq(ChildAddress) /\ Len(promised) = Len(syncs)
  OBVIOUS
<1>1. /\ Len(syncs) \in Nat /\ Len(versions) = Len(syncs) + 1
      /\ syncs \in Seq(Sync) /\ versions \in Seq(Registry)
  BY DEF SyncedInv, TypeOK, RootTypeOK
<1>2. ASSUME NEW i \in 1..Len(syncs) PROVE promised[i] \in ChildAddress
  <2>1. i + 1 \in 1..Len(versions)
    BY <1>1
  <2>2. syncs[i].root \in RootAddress
    BY <1>1 DEF Sync, RootAddress
  <2>3. versions[i + 1] \in Registry
    BY <1>1, <2>1
  <2> QED
    BY <2>2, <2>3 DEF promised, Registry, ChildAddress
<1>3. promised \in [1..Len(syncs) -> ChildAddress]
  BY <1>2 DEF promised
<1> QED
  BY <1>1, <1>3, SeqDef DEF promised

\* Sending a sync appends one promise: to credit the child token mapped now, if
\* the sync is a deposit.
LEMMA PromisedGrows ==
  ASSUME SyncedInv, RootStep(Operate), NEW m, Sends(m)
  PROVE  promised' = Append(promised,
                       IF m.kind = "DEPOSIT" THEN rootToChildToken'[m.root] ELSE Zero)
<1> DEFINE p == IF m.kind = "DEPOSIT" THEN rootToChildToken'[m.root] ELSE Zero
<1>1. SyncedInv'
  BY SendPreserves
<1>2. promised \in Seq(ChildAddress) /\ Len(promised) = Len(syncs)
  BY PromisedType
<1>3. promised' \in Seq(ChildAddress) /\ Len(promised') = Len(syncs')
  <2>1. (promised \in Seq(ChildAddress) /\ Len(promised) = Len(syncs))'
    BY <1>1, PromisedType, PTL
  <2> QED
    BY <2>1
<1>4. /\ syncs \in Seq(Sync) /\ versions \in Seq(Registry) /\ Len(versions) = Len(syncs) + 1
      /\ RootRegistry' \in Registry
  BY <1>1 DEF SyncedInv, TypeOK, RootTypeOK, RootRegistry, Registry
<1>5. /\ syncs' = Append(syncs, m) /\ m \in Sync
      /\ versions' = Append(versions, RootRegistry')
  BY <1>4 DEF Sends, RootStep
<1>6. /\ Len(syncs') = Len(syncs) + 1
      /\ \A i \in 1..Len(syncs) : syncs'[i] = syncs[i]
      /\ syncs'[Len(syncs) + 1] = m
      /\ \A i \in 1..(Len(syncs) + 1) : versions'[i] = versions[i]
      /\ versions'[Len(syncs) + 2] = RootRegistry'
  BY <1>4, <1>5
<1>7. promised'[Len(syncs) + 1] = p
  BY <1>4, <1>6 DEF promised, RootRegistry
<1>8. \A i \in 1..Len(syncs) : promised'[i] = promised[i]
  BY <1>4, <1>6 DEF promised
<1>9. p \in ChildAddress
  BY <1>1, <1>5 DEF SyncedInv, TypeOK, RootTypeOK, Sync, RootAddress, ChildAddress
<1> HIDE DEF p
<1>10. promised' = Append(promised, p)
  BY <1>2, <1>3, <1>4, <1>6, <1>7, <1>8, <1>9, SeqEqual
<1> QED
  BY <1>10 DEF p

LEMMA PromiseSend ==
  ASSUME SyncedInv, RootStep(Operate)
  PROVE  [Promise!Next]_(Promise!vars)
<1>1. RootTypeOK /\ RegistryOK /\ Operate /\ UNCHANGED credited
  BY DEF SyncedInv, TypeOK, RootStep, childVars
<1>2. CASE UNCHANGED <<registry, syncs>>
  BY <1>1, <1>2 DEF Promise!vars, promised, RootStep, registry
<1>3. CASE \E m : Sends(m)
  <2>1. PICK m : Sends(m)
    BY <1>3
  <2>2. CASE m.kind = "DEPOSIT"
    <3>1. rootToChildToken' = rootToChildToken
      BY <2>1, <2>2 DEF Sends, After, RootRegistry
    <3>2. m.root \in RootToken
      BY <2>1 DEF Sends, Sync
    <3> QED
      BY <1>1, <2>1, <2>2, <3>1, <3>2, PromisedGrows DEF Promise!Next, Promise!Deposit, Sends
  <2>3. CASE m.kind = "MAP_TOKEN"
    <3>1. RootTypeOK' /\ RegistryOK'
      BY SendPreserves DEF SyncedInv, TypeOK
    <3>2. \A r \in RootToken : rootToChildToken'[r] \in ChildToken \cup {Zero}
      BY <3>1 DEF RootTypeOK, RootAddress, ChildAddress
    <3>3. \A r, s \in RootToken :
            rootToChildToken'[r] = rootToChildToken'[s] /\ rootToChildToken'[r] # Zero => r = s
      BY <3>1 DEF RegistryOK, RootOneToOne
    <3> QED
      BY <1>1, <2>1, <2>3, <3>2, <3>3, PromisedGrows
         DEF Promise!Next, Promise!Pair, Promise!OneToOne
  <2> QED
    BY <2>1, <2>2, <2>3 DEF Sends, Sync
<1> QED
  BY <1>1, <1>2, <1>3, OperateSends

\* The mappings and deposits implement DepositPromise.
THEOREM PromiseKept == SyncedSpec => ImplementsPromise
<1>1. SyncedInv /\ [SyncedNext]_vars => [Promise!Next]_(Promise!vars)
  <2> SUFFICES ASSUME SyncedInv, [SyncedNext]_vars PROVE [Promise!Next]_(Promise!vars)
    OBVIOUS
  <2>1. CASE RootStep(Operate)
    BY <2>1, PromiseSend
  <2>2. CASE Deliver
    BY <2>2, PromiseDeliver DEF Promise!Next
  <2>3. CASE UNCHANGED vars
    BY <2>3 DEF vars, rootVars, childVars, registry, Promise!vars, promised
  <2> QED
    BY <2>1, <2>2, <2>3 DEF SyncedNext
<1> QED
  BY <1>1, PromiseInit, SyncedInvariant, PTL DEF SyncedSpec, ImplementsPromise, Promise!Spec

-----------------------------------------------------------------------------
\* Any operation at all: rewiring the root contract, syncs that miss the child
\* and mappings made by hand on it.
OpenInv ==
  /\ RootTypeOK /\ RegistryOK
  /\ Child!ChildTypeOK
  /\ InverseMaps(childRootToChildToken, childChildToRootToken)

LEMMA OpenInit == FreshInit => OpenInv
<1> SUFFICES ASSUME FreshInit PROVE OpenInv
  OBVIOUS
<1> USE AddressAssumption
<1>1. RootTypeOK /\ RegistryOK
  BY DEF FreshInit, RootInit, RootTypeOK, RegistryOK, ZeroUnmapped, RootOneToOne,
         TypedIffMapped, RootAddress, ChildAddress
<1>2. Child!ChildTypeOK /\ InverseMaps(childRootToChildToken, childChildToRootToken)
  BY DEF FreshInit, Child!ChildInit, Child!ChildTypeOK, Child!RootAddress,
         Child!ChildAddress, InverseMaps
<1> QED
  BY <1>1, <1>2 DEF OpenInv

LEMMA SetMappingKeepsInverse ==
  ASSUME OpenInv, NEW r \in RootToken, NEW c \in ChildToken, Child!SetMapping(r, c)
  PROVE  /\ childRootToChildToken' \in [RootAddress -> ChildAddress]
         /\ childChildToRootToken' \in [ChildAddress -> RootAddress]
         /\ InverseMaps(childRootToChildToken', childChildToRootToken')
<1>1. /\ childRootToChildToken \in [RootAddress -> ChildAddress]
      /\ childChildToRootToken \in [ChildAddress -> RootAddress]
  BY DEF OpenInv, Child!ChildTypeOK, RootAddress, ChildAddress, Child!RootAddress,
         Child!ChildAddress
<1>2. InverseMaps(childRootToChildToken, childChildToRootToken)
  BY DEF OpenInv
<1> DEFINE f == Child!MappedRoots(childRootToChildToken, childChildToRootToken, r, c)
           g == Child!MappedChildren(childRootToChildToken, childChildToRootToken, r, c)
<1>3. f \in [RootAddress -> ChildAddress] /\ g \in [ChildAddress -> RootAddress]
  BY <1>1, MappedType
<1>4. InverseMaps(f, g)
  BY <1>1, <1>2, MappedInverse
<1>5. childRootToChildToken' = f /\ childChildToRootToken' = g
  BY DEF Child!SetMapping
<1> HIDE DEF f, g
<1> QED
  BY <1>3, <1>4, <1>5

LEMMA OpenDeliver == ASSUME OpenInv, Deliver PROVE OpenInv'
<1>1. RootTypeOK' /\ RegistryOK'
  BY DEF Deliver, OpenInv, rootVars, registry, wiring, RootTypeOK, RegistryOK, ZeroUnmapped,
         RootOneToOne, TypedIffMapped
<1> DEFINE m == syncs[Len(credited) + 1]
<1>2. credited \in Seq(ChildAddress) /\ m \in Sync
  BY DEF OpenInv, RootTypeOK, Child!ChildTypeOK, ChildAddress, Child!ChildAddress, Deliver
<1>3. Child!OnStateReceive(m) \/ Child!Missed
  BY DEF Deliver
<1> HIDE DEF m
<1>4. CASE \E x \in ChildAddress : /\ credited' = Append(credited, x)
                                   /\ UNCHANGED <<childRootToChildToken, childChildToRootToken>>
  BY <1>1, <1>2, <1>4 DEF OpenInv, Child!ChildTypeOK, ChildAddress, Child!ChildAddress
<1>5. CASE /\ m.kind = "MAP_TOKEN"
           /\ Child!SyncMapping(m.root, m.child)
  <2>1. m.root \in RootToken /\ m.child \in ChildToken
    BY <1>2, <1>5 DEF Sync
  <2>2. Child!SetMapping(m.root, m.child) /\ credited' = Append(credited, Zero)
    BY <1>5 DEF Child!SyncMapping
  <2>3. credited' \in Seq(ChildAddress)
    BY <1>2, <2>2 DEF ChildAddress
  <2> QED
    BY <1>1, <2>1, <2>2, <2>3, SetMappingKeepsInverse
       DEF OpenInv, Child!ChildTypeOK, RootAddress, ChildAddress, Child!RootAddress,
           Child!ChildAddress
<1>6. CASE Child!SyncDeposit(m.root)
  <2>1. childRootToChildToken[m.root] \in ChildAddress
    BY <1>2 DEF Sync, OpenInv, Child!ChildTypeOK, ChildAddress, Child!ChildAddress,
                Child!RootAddress
  <2> QED
    BY <1>4, <1>6, <2>1 DEF Child!SyncDeposit
<1> QED
  BY <1>3, <1>4, <1>5, <1>6 DEF Child!OnStateReceive, Child!Missed, ChildAddress

\* On either chain the registry pairs tokens one to one, whatever the role
\* holders do: nothing they map leaves a token with two partners, or a partner
\* that does not know it.
THEOREM OpenOneToOne == OpenSpec => []BothOneToOne
<1>1. OpenInv /\ [OpenNext]_vars => OpenInv'
  <2> SUFFICES ASSUME OpenInv, [OpenNext]_vars PROVE OpenInv'
    OBVIOUS
  <2>1. CASE RootStep(RootNext)
    BY <2>1, RootTypePreserved, RegistryPreserved
       DEF RootStep, OpenInv, childVars, Child!ChildTypeOK
  <2>2. CASE Deliver
    BY <2>2, OpenDeliver
  <2>3. CASE \E r \in RootToken, c \in ChildToken : ManualMapToken(r, c)
    <3>1. PICK r \in RootToken, c \in ChildToken : ManualMapToken(r, c)
      BY <2>3
    <3>2. Child!SetMapping(r, c) /\ UNCHANGED credited /\ UNCHANGED rootVars
      BY <3>1 DEF ManualMapToken, Child!MapToken
    <3>3. RootTypeOK' /\ RegistryOK'
      BY <3>2 DEF OpenInv, rootVars, registry, wiring, RootTypeOK, RegistryOK, ZeroUnmapped,
                  RootOneToOne, TypedIffMapped
    <3> QED
      BY <3>2, <3>3, SetMappingKeepsInverse
         DEF OpenInv, Child!ChildTypeOK, RootAddress, ChildAddress, Child!RootAddress,
             Child!ChildAddress
  <2>4. CASE UNCHANGED vars
    BY <2>4 DEF vars, rootVars, childVars, registry, wiring, OpenInv, RootTypeOK, RegistryOK,
                ZeroUnmapped, RootOneToOne, TypedIffMapped, Child!ChildTypeOK
  <2> QED
    BY <2>1, <2>2, <2>3, <2>4 DEF OpenNext
<1>2. OpenInv => BothOneToOne
  BY DEF OpenInv, BothOneToOne, RegistryOK, ChildOneToOne, Child!ChildOneToOne, InverseMaps
<1> QED
  BY <1>1, <1>2, OpenInit, PTL DEF OpenSpec

-----------------------------------------------------------------------------
\* UChildDAI.

\* What the functions of the token do to a ledger.

\* What a transfer does: nothing but the balances of its two ends changes, that
\* of the sender alone may fall, and by no more than the amount.
LEMMA TransferEffect ==
  ASSUME NEW l \in Ledger, NEW from \in Account, NEW to \in Account, NEW n \in 0..MaxUint,
         NEW m \in Transfer(l, from, to, n)
  PROVE  /\ m \in Ledger
         /\ m.allowances = l.allowances
         /\ \A a \in Account : m.balances[a] < l.balances[a]
                                 => a = from /\ l.balances[a] - m.balances[a] = n
<1> DEFINE taken == [l.balances EXCEPT ![from] = @ - n]
           given == [taken EXCEPT ![to] = @ + n]
<1>1. /\ l.balances \in [Account -> 0..MaxUint]
      /\ l.balances[from] >= n /\ taken[to] + n <= MaxUint
      /\ m = [l EXCEPT !.balances = given]
  BY DEF Transfer, Ledger
<1>2. taken \in [Account -> 0..MaxUint]
  BY <1>1, DAIAssumption
<1>3. given \in [Account -> 0..MaxUint]
  BY <1>1, <1>2, DAIAssumption
<1>4. m \in Ledger /\ m.allowances = l.allowances /\ m.balances = given
  BY <1>1, <1>3 DEF Ledger
<1>5. ASSUME NEW a \in Account, given[a] < l.balances[a]
      PROVE  a = from /\ l.balances[a] - given[a] = n
  BY <1>1, <1>2, <1>5, DAIAssumption
<1> QED BY <1>4, <1>5

LEMMA ApproveEffect ==
  ASSUME NEW l \in Ledger, NEW holder \in Account, NEW spender \in Account, NEW n \in 0..MaxUint,
         NEW m \in Approve(l, holder, spender, n)
  PROVE  /\ m \in Ledger
         /\ m.balances = l.balances
         /\ m.allowances[holder][spender] = n
<1> DEFINE row == [l.allowances[holder] EXCEPT ![spender] = n]
           all == [l.allowances EXCEPT ![holder] = row]
<1>1. l.allowances \in [Account -> [Account -> 0..MaxUint]]
  BY DEF Ledger
<1>2. row \in [Account -> 0..MaxUint] /\ row[spender] = n
  BY <1>1
<1> HIDE DEF row
<1>3. all \in [Account -> [Account -> 0..MaxUint]] /\ all[holder] = row
  BY <1>1, <1>2
<1>4. m = [l EXCEPT !.allowances = all]
  BY DEF Approve, row
<1> HIDE DEF all
<1>5. m \in Ledger /\ m.balances = l.balances /\ m.allowances = all
  BY <1>3, <1>4 DEF Ledger
<1> QED BY <1>2, <1>3, <1>5

\* A call moves the tokens of its sender, or of one whose allowance for the
\* sender falls by as much.
Consented(l, m, sender) ==
  \A a \in Account :
    m.balances[a] < l.balances[a]
      => \/ sender = a
         \/ l.allowances[a][sender] - m.allowances[a][sender] = l.balances[a] - m.balances[a]

LEMMA TransferFromEffect ==
  ASSUME NEW l \in Ledger, NEW sender \in Account, NEW from \in Account, NEW to \in Account,
         NEW n \in 0..MaxUint, NEW m \in TransferFrom(l, sender, from, to, n)
  PROVE  m \in Ledger /\ Consented(l, m, sender)
<1>1. PICK t \in Transfer(l, from, to, n) :
        /\ t.allowances[from][sender] >= n
        /\ m \in Approve(t, from, sender, t.allowances[from][sender] - n)
  BY DEF TransferFrom
<1>2. /\ t \in Ledger /\ t.allowances = l.allowances
      /\ \A a \in Account : t.balances[a] < l.balances[a]
                              => a = from /\ l.balances[a] - t.balances[a] = n
  BY <1>1, TransferEffect
<1>3. l.allowances[from][sender] \in 0..MaxUint
  BY DEF Ledger
<1>4. t.allowances[from][sender] - n \in 0..MaxUint
  BY <1>1, <1>2, <1>3, DAIAssumption
<1>5. /\ m \in Ledger /\ m.balances = t.balances
      /\ m.allowances[from][sender] = l.allowances[from][sender] - n
  BY <1>1, <1>2, <1>4, ApproveEffect
<1>6. l.allowances[from][sender] - m.allowances[from][sender] = n
  BY <1>3, <1>5, DAIAssumption
<1> QED BY <1>2, <1>5, <1>6 DEF Consented

\* Whatever the call, and whoever is msg.sender.
LEMMA CallEffect ==
  ASSUME NEW l \in Ledger, NEW raw \in Account, NEW u \in User, raw \in {u, This},
         NEW c \in AnyCall, NEW m \in Effect(l, raw, u, c)
  PROVE  m \in Ledger /\ Consented(l, m, u)
<1>1. /\ msgSender(raw, u) = u /\ u \in Account /\ u # This
      /\ c.from \in Account /\ c.to \in Account /\ c.amount \in 0..MaxUint
  BY DAIAssumption DEF msgSender, Account, AnyCall
<1>2. l.allowances[u][c.to] \in 0..MaxUint /\ l.balances[u] \in 0..MaxUint
      /\ l.totalSupply \in 0..MaxUint
  BY <1>1 DEF Ledger
<1>3. ASSUME NEW n \in 0..MaxUint, m \in Approve(l, u, c.to, n)
      PROVE  m \in Ledger /\ Consented(l, m, u)
  <2>1. m \in Ledger /\ m.balances = l.balances
    BY <1>1, <1>3, ApproveEffect
  <2>2. \A a \in Account : l.balances[a] \in Nat
    BY DAIAssumption DEF Ledger
  <2> QED BY <2>1, <2>2 DEF Consented
<1>4. CASE c.fn = "transfer"
  <2>1. m \in Transfer(l, u, c.to, c.amount)
    BY <1>1, <1>4 DEF Effect
  <2> QED BY <1>1, <2>1, TransferEffect DEF Consented
<1>5. CASE c.fn = "approve"
  <2>1. m \in Approve(l, u, c.to, c.amount)
    BY <1>1, <1>5 DEF Effect
  <2> QED BY <1>1, <1>3, <2>1
<1>6. CASE c.fn = "increaseAllowance"
  <2>1. m \in IncreaseAllowance(l, u, c.to, c.amount)
    BY <1>1, <1>6 DEF Effect
  <2>2. m \in Approve(l, u, c.to, l.allowances[u][c.to] + c.amount)
        /\ l.allowances[u][c.to] + c.amount \in 0..MaxUint
    BY <1>1, <1>2, <2>1, DAIAssumption DEF IncreaseAllowance
  <2> QED BY <1>3, <2>2
<1>7. CASE c.fn = "decreaseAllowance"
  <2>1. m \in DecreaseAllowance(l, u, c.to, c.amount)
    BY <1>1, <1>7 DEF Effect
  <2>2. m \in Approve(l, u, c.to, l.allowances[u][c.to] - c.amount)
        /\ l.allowances[u][c.to] - c.amount \in 0..MaxUint
    BY <1>1, <1>2, <2>1, DAIAssumption DEF DecreaseAllowance
  <2> QED BY <1>3, <2>2
<1>8. CASE c.fn \in {"transferFrom", "move"}
  <2>1. m \in TransferFrom(l, u, c.from, c.to, c.amount)
    BY <1>1, <1>8 DEF Effect
  <2> QED BY <1>1, <2>1, TransferFromEffect
<1>9. CASE c.fn = "push"
  <2>1. m \in TransferFrom(l, u, raw, c.to, c.amount)
    BY <1>1, <1>9 DEF Effect
  <2> QED BY <1>1, <2>1, TransferFromEffect
<1>10. CASE c.fn = "pull"
  <2>1. m \in TransferFrom(l, u, c.from, raw, c.amount)
    BY <1>1, <1>10 DEF Effect
  <2> QED BY <1>1, <2>1, TransferFromEffect
<1>11. CASE c.fn = "withdraw"
  <2>1. m \in Burn(l, u, c.amount)
    BY <1>1, <1>11 DEF Effect
  <2>2. /\ l.balances[u] >= c.amount /\ l.totalSupply >= c.amount
        /\ m = [l EXCEPT !.balances[u] = @ - c.amount, !.totalSupply = @ - c.amount]
    BY <2>1 DEF Burn
  <2> DEFINE left == [l.balances EXCEPT ![u] = @ - c.amount]
  <2>3. m \in Ledger
    <3>1. left \in [Account -> 0..MaxUint]
      BY <1>1, <1>2, <2>2, DAIAssumption DEF Ledger
    <3>2. l.totalSupply - c.amount \in 0..MaxUint
      BY <1>1, <1>2, <2>2, DAIAssumption
    <3>3. m = [l EXCEPT !.balances = left, !.totalSupply = l.totalSupply - c.amount]
      BY <2>2
    <3> HIDE DEF left
    <3> QED BY <3>1, <3>2, <3>3 DEF Ledger
  <2>4. \A a \in Account : a # u => m.balances[a] = l.balances[a]
    BY <2>2 DEF Ledger
  <2>5. \A a \in Account : l.balances[a] \in Nat
    BY DAIAssumption DEF Ledger
  <2> QED BY <2>3, <2>4, <2>5 DEF Consented
<1> QED BY <1>4, <1>5, <1>6, <1>7, <1>8, <1>9, <1>10, <1>11 DEF AnyCall

-----------------------------------------------------------------------------
\* Types and nonces.

IInv == DAITypeOK /\ SignaturesOnce

Counted(ns, us) ==
  /\ ns \in [User -> Nonce]
  /\ us \in [User -> [Nonce -> Nat]]
  /\ \A w \in User, n \in Nonce : us[w][n] = IF n < ns[w] THEN 1 ELSE 0

\* Spending a nonce and counting its use go together.
LEMMA SpendOnce ==
  ASSUME NEW ns, NEW us, Counted(ns, us), NEW u \in User, NEW k \in Nonce,
         k = ns[u], k < MaxNonce
  PROVE  Counted(Spend(ns, u, k), Use(us, u, k))
<1> DEFINE row == [us[u] EXCEPT ![k] = @ + 1]
           all == [us EXCEPT ![u] = row]
<1>0. /\ ns \in [User -> Nonce] /\ us \in [User -> [Nonce -> Nat]]
      /\ \A w \in User, n \in Nonce : us[w][n] = IF n < ns[w] THEN 1 ELSE 0
  BY DEF Counted
<1>1. /\ MaxNonce \in Nat /\ k \in Nat /\ k + 1 \in Nonce
      /\ \A w \in User : ns[w] \in Nat
  BY <1>0, DAIAssumption DEF Nonce
<1>2. row \in [Nonce -> Nat] /\ row[k] = us[u][k] + 1
      /\ \A n \in Nonce : n # k => row[n] = us[u][n]
  BY <1>0
<1>3. us[u][k] = 0
  BY <1>0, <1>1
<1>4. Use(us, u, k) = all
  BY DEF Use
<1> HIDE DEF row
<1>5. all \in [User -> [Nonce -> Nat]] /\ all[u] = row /\ \A w \in User : w # u => all[w] = us[w]
  BY <1>0, <1>2
<1> HIDE DEF all
<1>6. Spend(ns, u, k) \in [User -> Nonce] /\ Spend(ns, u, k)[u] = k + 1
      /\ \A w \in User : w # u => Spend(ns, u, k)[w] = ns[w]
  BY <1>0, <1>1 DEF Spend
<1>7. ASSUME NEW w \in User, NEW n \in Nonce
      PROVE  all[w][n] = IF n < Spend(ns, u, k)[w] THEN 1 ELSE 0
  <2>1. CASE w # u
    BY <1>0, <1>5, <1>6, <2>1
  <2>2. CASE w = u /\ n = k
    BY <1>1, <1>2, <1>3, <1>5, <1>6, <2>2
  <2>3. CASE w = u /\ n # k
    <3>1. all[w][n] = us[u][n] /\ n \in Nat
      BY <1>2, <1>5, <2>3 DEF Nonce
    <3>2. n < k + 1 <=> n < k
      BY <1>1, <2>3, <3>1
    <3> QED BY <1>0, <1>6, <2>3, <3>1, <3>2
  <2> QED BY <2>1, <2>2, <2>3
<1> QED BY <1>4, <1>5, <1>6, <1>7 DEF Counted

LEMMA InitIInv == Init => IInv
<1> SUFFICES ASSUME Init PROVE IInv
  OBVIOUS
<1>1. 0 \in 0..MaxUint /\ 0 \in Nonce
  BY DAIAssumption DEF Nonce
<1>2. DAITypeOK
  BY <1>1 DEF Init, DAITypeOK, Ledger, Account, NoCall, AnyCall
<1>3. SignaturesOnce
  BY DEF Init, SignaturesOnce, Nonce
<1> QED BY <1>2, <1>3 DEF IInv

\* One step per action.  Besides the invariant: whose tokens a step moves.
LEMMA NextIInv ==
  ASSUME IInv, Next
  PROVE  IInv' /\ Consented(ledger, ledger', last'.sender)
<1>0. /\ ledger \in Ledger /\ Counted(nonces, uses)
      /\ User \subseteq Account /\ This \in Account
      /\ Call \subseteq AnyCall /\ Signed \subseteq AnyCall
  BY DAIAssumption DEF IInv, DAITypeOK, SignaturesOnce, Account, Counted
<1>1. ASSUME NEW u \in User, NEW n \in 1..MaxUint, Deposit(u, n)
      PROVE  IInv' /\ Consented(ledger, ledger', last'.sender)
  <2> DEFINE more == [ledger.balances EXCEPT ![u] = @ + n]
  <2>1. /\ n \in 0..MaxUint /\ ledger.totalSupply + n <= MaxUint
        /\ ledger.balances[u] + n <= MaxUint
        /\ ledger' = [ledger EXCEPT !.balances = more, !.totalSupply = @ + n]
    BY <1>1, DAIAssumption DEF Deposit
  <2>2. ledger.balances \in [Account -> 0..MaxUint] /\ ledger.totalSupply \in 0..MaxUint
    BY <1>0 DEF Ledger
  <2>3. more \in [Account -> 0..MaxUint] /\ ledger.totalSupply + n \in 0..MaxUint
        /\ \A a \in Account : ~(more[a] < ledger.balances[a])
    BY <1>0, <2>1, <2>2, DAIAssumption
  <2> HIDE DEF more
  <2>4. ledger' \in Ledger /\ ledger'.balances = more
    BY <1>0, <2>1, <2>3 DEF Ledger
  <2>5. DAITypeOK'
    BY <1>0, <1>1, <2>4 DEF Deposit, DAITypeOK, Counted
  <2> QED BY <1>0, <1>1, <2>3, <2>4, <2>5 DEF Deposit, IInv, SignaturesOnce, Counted, Consented
<1>2. ASSUME NEW u \in User, NEW c \in Call, CallDirectly(u, c)
      PROVE  IInv' /\ Consented(ledger, ledger', last'.sender)
  <2>1. ledger' \in Effect(ledger, u, u, c) /\ last' = [sender |-> u, call |-> NoCall]
    BY <1>2 DEF CallDirectly
  <2>2. ledger' \in Ledger /\ Consented(ledger, ledger', u)
    BY <1>0, <2>1, CallEffect
  <2>3. DAITypeOK'
    BY <1>0, <1>2, <2>1, <2>2 DEF CallDirectly, DAITypeOK, Counted
  <2> QED BY <1>0, <1>2, <2>1, <2>2, <2>3 DEF CallDirectly, IInv, SignaturesOnce, Counted
<1>3. ASSUME NEW u \in User, NEW k \in Nonce, NEW c \in Signed, executeMetaTransaction(u, k, c)
      PROVE  IInv' /\ Consented(ledger, ledger', last'.sender)
  <2>1. /\ ledger' \in Effect(ledger, This, u, c) /\ last' = [sender |-> u, call |-> c]
        /\ k = nonces[u] /\ k < MaxNonce
        /\ nonces' = Spend(nonces, u, k) /\ uses' = Use(uses, u, k)
    BY <1>3 DEF executeMetaTransaction
  <2>2. ledger' \in Ledger /\ Consented(ledger, ledger', u)
    BY <1>0, <2>1, CallEffect
  <2>3. Counted(nonces', uses')
    BY <1>0, <2>1, SpendOnce
  <2>4. DAITypeOK'
    BY <1>0, <2>1, <2>2, <2>3 DEF DAITypeOK, Counted
  <2> QED BY <2>1, <2>2, <2>3, <2>4 DEF IInv, SignaturesOnce, Counted
<1>4. ASSUME NEW u \in User, NEW k \in Nonce, NEW c \in Signed, NEW v \in User, NEW j \in Nonce,
             executeNested(u, k, v, j, c)
      PROVE  IInv' /\ Consented(ledger, ledger', last'.sender)
  <2> DEFINE ns == Spend(nonces, u, k)
             us == Use(uses, u, k)
  <2>1. /\ ledger' \in Effect(ledger, This, v, c) /\ last' = [sender |-> v, call |-> c]
        /\ k = nonces[u] /\ k < MaxNonce /\ j = ns[v] /\ j < MaxNonce
        /\ nonces' = Spend(ns, v, j) /\ uses' = Use(us, v, j)
    BY <1>4 DEF executeNested
  <2>2. ledger' \in Ledger /\ Consented(ledger, ledger', v)
    BY <1>0, <2>1, CallEffect
  <2>3. Counted(ns, us)
    BY <1>0, <2>1, SpendOnce
  <2> HIDE DEF ns, us
  <2>4. Counted(nonces', uses')
    BY <2>1, <2>3, SpendOnce
  <2>5. DAITypeOK'
    BY <1>0, <2>1, <2>2, <2>4 DEF DAITypeOK, Counted
  <2> QED BY <2>1, <2>2, <2>4, <2>5 DEF IInv, SignaturesOnce, Counted
<1>5. ASSUME NEW u \in User, NEW spender \in Account, NEW k \in Nonce, NEW allowed \in BOOLEAN,
             permit(u, spender, k, allowed)
      PROVE  IInv' /\ Consented(ledger, ledger', last'.sender)
  <2> DEFINE wad == IF allowed THEN MaxUint ELSE 0
             c == [fn |-> "approve", from |-> u, to |-> spender, amount |-> wad]
  <2>1. wad \in 0..MaxUint
    BY DAIAssumption
  <2>2. c \in AnyCall
    BY <1>0, <2>1 DEF AnyCall
  <2>3. /\ ledger' \in Approve(ledger, u, spender, wad) /\ last' = [sender |-> u, call |-> c]
        /\ k = nonces[u] /\ k < MaxNonce
        /\ nonces' = Spend(nonces, u, k) /\ uses' = Use(uses, u, k)
    BY <1>5 DEF permit
  <2> HIDE DEF wad
  <2>4. ledger' \in Ledger /\ ledger'.balances = ledger.balances
    BY <1>0, <2>1, <2>3, ApproveEffect
  <2>5. Counted(nonces', uses')
    BY <1>0, <2>3, SpendOnce
  <2>6. DAITypeOK'
    BY <1>0, <2>2, <2>3, <2>4, <2>5 DEF DAITypeOK, Counted
  <2>7. Consented(ledger, ledger', last'.sender)
    <3>1. \A a \in Account : ledger.balances[a] \in Nat
      BY <1>0, DAIAssumption DEF Ledger
    <3> QED BY <2>4, <3>1 DEF Consented
  <2> QED BY <2>5, <2>6, <2>7 DEF IInv, SignaturesOnce, Counted
<1> QED BY <1>1, <1>2, <1>3, <1>4, <1>5 DEF Next

LEMMA StutterIInv == IInv /\ UNCHANGED daiVars => IInv'
BY DEF IInv, DAITypeOK, SignaturesOnce, daiVars

LEMMA Invariance == Spec => []IInv
BY InitIInv, NextIInv, StutterIInv, PTL DEF Spec

\* All variables of the token keep their types, its words among them: no
\* balance or allowance overflows.
THEOREM DAITypeSafe == Spec => []DAITypeOK
<1>1. IInv => DAITypeOK
  BY DEF IInv
<1> QED BY <1>1, Invariance, PTL

\* Each nonce is used by one signature, of whatever kind, or none yet.
THEOREM DAISignaturesOnce == Spec => []SignaturesOnce
<1>1. IInv => SignaturesOnce
  BY DEF IInv
<1> QED BY <1>1, Invariance, PTL

\* Tokens move in their owner's name or out of an allowance that is less by as
\* much, relayed calls and the aliases that use msg.sender included.
THEOREM DAISpentByConsent == Spec => SpentByConsent
<1> DEFINE A == \A a \in Account :
                  ledger'.balances[a] < ledger.balances[a]
                    => \/ last'.sender = a
                       \/ ledger.allowances[a][last'.sender] - ledger'.allowances[a][last'.sender]
                            = ledger.balances[a] - ledger'.balances[a]
<1>1. IInv /\ [Next]_daiVars => [A]_daiVars
  BY NextIInv DEF Consented
<1> QED BY <1>1, Invariance, PTL DEF Spec, SpentByConsent

\* If nobody signs the aliases that use msg.sender, whatever is signed does what
\* it would have done as a call of the signer.
THEOREM DAIRelayedAsDirect ==
  ASSUME \A c \in Signed : c.fn \notin {"push", "pull"}
  PROVE  Spec => RelayedAsDirect
<1> DEFINE A == nonces' # nonces
                  => ledger' \in Effect(ledger, last'.sender, last'.sender, last'.call)
<1>1. ASSUME NEW u \in User, NEW c \in AnyCall, c.fn \notin {"push", "pull"}
      PROVE  Effect(ledger, This, u, c) = Effect(ledger, u, u, c)
  <2>1. msgSender(This, u) = u /\ msgSender(u, u) = u
    BY DEF msgSender
  <2> QED BY <1>1, <2>1 DEF Effect, AnyCall
<1>2. Next => A
  <2> SUFFICES ASSUME Next, nonces' # nonces PROVE A
    OBVIOUS
  <2>1. ASSUME NEW u \in User, NEW k \in Nonce, NEW c \in Signed,
               executeMetaTransaction(u, k, c)
        PROVE  A
    <3>1. c \in AnyCall
      BY DAIAssumption
    <3> QED BY <1>1, <2>1, <3>1 DEF executeMetaTransaction
  <2>2. ASSUME NEW u \in User, NEW k \in Nonce, NEW c \in Signed, NEW v \in User,
               NEW j \in Nonce, executeNested(u, k, v, j, c)
        PROVE  A
    <3>1. c \in AnyCall
      BY DAIAssumption
    <3> QED BY <1>1, <2>2, <3>1 DEF executeNested
  <2>3. ASSUME NEW u \in User, NEW spender \in Account, NEW k \in Nonce,
               NEW allowed \in BOOLEAN, permit(u, spender, k, allowed)
        PROVE  A
    BY <2>3 DEF permit, Effect, msgSender
  <2> QED BY <2>1, <2>2, <2>3 DEF Next, Deposit, CallDirectly
<1> QED BY <1>2, PTL DEF Spec, RelayedAsDirect

===============================================================================
