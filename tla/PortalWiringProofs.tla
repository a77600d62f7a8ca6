-------------------------- MODULE PortalWiringProofs --------------------------
(***************************************************************************)
(* More theorems about PortalDeployment: how the initializations wire the  *)
(* contracts of the two chains, and what that means for deposits.          *)
(***************************************************************************)
EXTENDS PortalDeploymentProofs

\* What the k-th initialization of the root chain calls: the contract, the method
\* and its arguments, with the addresses of a book; and what it leaves: a role, or
\* a value in a slot of the manager.
RootAtOf(t, book) == IF HasRootToken(t) THEN book.root[RootToken(t)] ELSE EtherAddress

\* The type that the k-th initialization is about.
InitType(k) == TypeList[IF k \in 4..8 THEN k - 3 ELSE IF k \in 10..14 THEN k - 9 ELSE k - 14]

InitName(k) ==
  CASE k \in 4..8 -> PredicateProxy(InitType(k))
    [] k = 9      -> RootToken("MintableERC721")
    [] OTHER      -> RootManagerProxy

InitMethod(k) ==
  CASE k = 1 -> "setStateSender"
    [] k = 2 -> "setChildChainManagerAddress"
    [] k = 3 -> "setCheckpointManager"
    [] k \in 4..9   -> "grantRole"
    [] k \in 10..14 -> "registerPredicate"
    [] k \in 15..19 -> "mapRootToken"

InitArgs(k, book) ==
  CASE k = 1 -> <<book.root[StateSender]>>
    [] k = 2 -> <<book.child[ChildManagerProxy]>>
    [] k = 3 -> <<PlasmaRootChain>>
    [] k \in 4..8   -> <<"MANAGER", book.root[RootManagerProxy]>>
    [] k = 9        -> <<"PREDICATE", book.root[PredicateProxy("MintableERC721")]>>
    [] k \in 10..14 -> <<InitType(k), book.root[PredicateProxy(InitType(k))]>>
    [] k \in 15..19 -> <<RootAtOf(InitType(k), book), book.child[ChildToken(InitType(k))], InitType(k)>>

InitKey(k, book) ==
  CASE k = 1 -> <<"stateSender">>
    [] k = 2 -> <<"childChainManagerAddress">>
    [] k = 3 -> <<"checkpointManager">>
    [] k \in 10..14 -> <<"typeToPredicate", InitType(k)>>
    [] k \in 15..19 -> <<"rootToChildToken", RootAtOf(InitType(k), book)>>

InitValue(k, book) ==
  CASE k = 1 -> book.root[StateSender]
    [] k = 2 -> book.child[ChildManagerProxy]
    [] k = 3 -> PlasmaRootChain
    [] k \in 10..14 -> book.root[PredicateProxy(InitType(k))]
    [] k \in 15..19 -> book.child[ChildToken(InitType(k))]

\* The root manager of a book, and whether the k-th initialization took.
ManagerIn(book, ch) == ch[book.root[RootManagerProxy]]

Took(k, book, ch) ==
  IF k \in 4..9 THEN InitArgs(k, book) \in ch[book.root[InitName(k)]].roles
  ELSE Slot(ManagerIn(book, ch), InitKey(k, book)) = InitValue(k, book)

TookUpTo(n, book, ch) == \A k \in 1..n : Took(k, book, ch)

\* One of the first n tasks is the k-th initialization, or it took.
TookOr(k, n) == Took(k, file, chain.root) \/ \E j \in 1..n : queue[j].id = 27 + k

\* The initializations are done in their order: by migration 4, or by the worker.
InitsRun == Runs("migration4") => TookUpTo(script.pc - 1, file, chain.root)

\* The worker's part of the initializations.
Initing == Moonwalker /\ next \in {5, 6}

\* A task comes after the initializations before it, or they took.
InitsInOrder == Initing => \A j \in DOMAIN queue : \A k \in 1..(queue[j].id - 28) : TookOr(k, j - 1)

\* The script that queues them has queued the first ones.
InitsQueueing == Initing /\ Runs("queueRootInitializations") => \A k \in 1..(script.pc - 1) : TookOr(k, Len(queue))

\* After it all are queued, or took.
InitsQueued == Initing /\ next = 6 => \A k \in 1..19 : TookOr(k, Len(queue))

\* A task that the worker has handled took, whether it was sent or failed.
InitTaken == Initing /\ worker \in {"sent", "handled"} => Took(Task.id - 27, file, chain.root)

\* In the end all took.
InitsDone == next > RootInited => TookUpTo(19, file, chain.root)

\* The manager knows none but the predicates in the file.
RegisteredIn(book, ch) ==
  \A t \in TokenType :
    Slot(ManagerIn(book, ch), <<"typeToPredicate", t>>) \in {None, book.root[PredicateProxy(t)]}

\* From the root chain's addresses on.
Registered == next > RootFiled => RegisteredIn(file, chain.root)

\* On mainnet it knows none but the file's child tokens.
MappedIn(book, ch) ==
  \A t \in TokenType :
     \/ /\ Slot(ManagerIn(book, ch), <<"rootToChildToken", RootAtOf(t, book)>>) = None
        /\ Slot(ManagerIn(book, ch), <<"childToRootToken", book.child[ChildToken(t)]>>) = None
     \/ Slot(ManagerIn(book, ch), <<"rootToChildToken", RootAtOf(t, book)>>) = book.child[ChildToken(t)]

\* From the child chain's addresses on.
Mapped == Moonwalker /\ next > ChildFiled => MappedIn(file, chain.root)

\* What a manager has registered and mapped can be deposited, whatever the file says.
IsTokenOf(r, t) == r[1] = RootToken(t) \/ (~HasRootToken(t) /\ r = EtherAddress)

\* The predicate that a manager has for a type.
PredicateOf(ch, m, t) == Slot(ch[m], <<"typeToPredicate", t>>)

\* A manager's predicates are initialized and take its orders; mapped tokens have
\* one, and it may mint.
ManagerOK(ch, m) ==
  /\ \A t \in TokenType :
       LET p == PredicateOf(ch, m, t)
       IN  /\ p # None => p \in DOMAIN ch /\ ch[p].inited /\ <<"MANAGER", m>> \in ch[p].roles
           /\ \A r \in DOMAIN ch \cup {EtherAddress} :
                IsTokenOf(r, t) /\ Slot(ch[m], <<"rootToChildToken", r>>) # None =>
                  /\ p # None
                  /\ t = "MintableERC721" => <<"PREDICATE", p>> \in ch[r].roles
  /\ \A key \in DOMAIN ch[m].slots :
       key[1] = "rootToChildToken" => key[2] \in DOMAIN ch \cup {EtherAddress}

ManagersOK == \A m \in DOMAIN chain.root : m[1] = RootManagerProxy => ManagerOK(chain.root, m)

\* The fourth invariant: how the root chain is initialized.
Inv4 ==
  /\ InitsRun /\ InitsInOrder /\ InitsQueueing /\ InitsQueued /\ InitTaken /\ InitsDone
  /\ Registered /\ Mapped /\ ManagersOK

-----------------------------------------------------------------------------
\* The child chain.
ChildManagerIn(book, ch) == ch[book.child[ChildManagerProxy]]

\* The child manager has mapped a type's tokens, both ways.
ChildMapOK(t, book, ch) ==
  /\ Slot(ChildManagerIn(book, ch), <<"rootToChildToken", RootAtOf(t, book)>>) = book.child[ChildToken(t)]
  /\ Slot(ChildManagerIn(book, ch), <<"childToRootToken", book.child[ChildToken(t)]>>) = RootAtOf(t, book)

\* It has mapped them to one another or to nothing.
ChildMapMay(t, book, ch) ==
  /\ Slot(ChildManagerIn(book, ch), <<"rootToChildToken", RootAtOf(t, book)>>) \in {None, book.child[ChildToken(t)]}
  /\ Slot(ChildManagerIn(book, ch), <<"childToRootToken", book.child[ChildToken(t)]>>) \in {None, RootAtOf(t, book)}

\* Whether the k-th call of migration 5 took.
ChildTook(k, book, ch) ==
  IF k = 1 THEN <<"STATE_SYNCER", StateReceiver>> \in ChildManagerIn(book, ch).roles
  ELSE ChildMapOK(TypeList[k - 1], book, ch)

\* A child token takes deposits from the child manager of a book.
DepositorIn(t, book, ch) == <<"DEPOSITOR", book[ChildManagerProxy]>> \in ch[book[ChildToken(t)]].roles

\* Once the child chain's addresses are in the file, its tokens take deposits from
\* its manager.
ChildFile ==
  next > ChildFiled => \A t \in TokenType : ChildMapMay(t, file, chain.child) /\ DepositorIn(t, file.child, chain.child)

\* So do those that migration 3 has deployed; it deploys the manager first.
ChildDeploying ==
  Runs("migration3") => \A t \in TokenType : ChildToken(t) \in DOMAIN script.book.child =>
    script.pc > 3 /\ DepositorIn(t, script.book.child, chain.child)

\* What migration 5 has done so far.
ChildInitsRun == Runs("migration5") => \A k \in 1..(script.pc - 1) : ChildTook(k, file, chain.child)

\* What migration 5 leaves.
ChildInitsDone == next > ChildInited => \A k \in 1..6 : ChildTook(k, file, chain.child)

\* The fifth invariant: the child chain.
Inv5 == ChildFile /\ ChildDeploying /\ ChildInitsRun /\ ChildInitsDone

\* A slot of a contract that was written.
IsWritten(w, c, key, v) ==
  /\ DOMAIN w = Fields /\ w.inited = c.inited /\ w.roles = c.roles
  /\ DOMAIN w.slots = DOMAIN c.slots \cup {key}
  /\ Slot(w, key) = v
  /\ \A k \in DOMAIN c.slots : k # key => Slot(w, k) = Slot(c, k)
  /\ \A k : k # key => Slot(w, k) = Slot(c, k)

\* Written sets the one slot, and leaves the contract's others as they are.
LEMMA WrittenSlots ==
  ASSUME NEW c, DOMAIN c = Fields, NEW key, NEW v PROVE IsWritten(Written(c, key, v), c, key, v)
<1> DEFINE w == Written(c, key, v)
<1>1. /\ DOMAIN w = Fields /\ w.inited = c.inited /\ w.roles = c.roles
      /\ w.slots = Put(c.slots, key, v)
  BY WrittenIs
<1> HIDE DEF w
<1>2. IsPut(w.slots, c.slots, key, v)
  BY <1>1, PutIs
<1>3. DOMAIN w.slots = DOMAIN c.slots \cup {key} /\ Slot(w, key) = v
  BY <1>2 DEF IsPut, Slot
<1>4. \A k : k # key => Slot(w, k) = Slot(c, k)
  BY <1>2 DEF IsPut, Slot
<1>5. IsWritten(w, c, key, v)
  BY <1>1, <1>3, <1>4 DEF IsWritten
<1> QED
  BY <1>5 DEF w

\* The groups of the initializations.
LEMMA InitTypes ==
  ASSUME NEW k \in 1..19
  PROVE  /\ k \in {1, 2, 3} \/ k \in 4..8 \/ k = 9 \/ k \in 10..14 \/ k \in 15..19
         /\ k \in 4..8   => InitType(k) = TypeList[k - 3] /\ InitType(k) \in TokenType
         /\ k \in 10..14 => InitType(k) = TypeList[k - 9] /\ InitType(k) \in TokenType
         /\ k \in 15..19 => InitType(k) = TypeList[k - 14] /\ InitType(k) \in TokenType
<1>1. k \in 4..8 => InitType(k) = TypeList[k - 3] /\ k - 3 \in 1..5
  BY DEF InitType
<1>2. k \in 10..14 => InitType(k) = TypeList[k - 9] /\ k - 9 \in 1..5
  BY DEF InitType
<1>3. k \in 15..19 => InitType(k) = TypeList[k - 14] /\ k - 14 \in 1..5
  BY DEF InitType
<1>4. \A i \in 1..5 : TypeList[i] \in TokenType
  BY Types
<1> QED
  BY <1>1, <1>2, <1>3, <1>4

\* The list of types names none twice.
LEMMA TypesDiffer ==
  ASSUME NEW i \in 1..5, NEW j \in 1..5, TypeList[i] = TypeList[j] PROVE i = j
BY Types

\* The parts of each initialization: the contract, the method and its arguments, and
\* what it sets.
LEMMA InitIs ==
  ASSUME NEW k \in 1..19, NEW book
  PROVE  /\ k = 1 => /\ InitName(k) = RootManagerProxy /\ InitMethod(k) = "setStateSender"
                     /\ InitArgs(k, book) = <<book.root[StateSender]>>
                     /\ InitKey(k, book) = <<"stateSender">> /\ InitValue(k, book) = book.root[StateSender]
         /\ k = 2 => /\ InitName(k) = RootManagerProxy /\ InitMethod(k) = "setChildChainManagerAddress"
                     /\ InitArgs(k, book) = <<book.child[ChildManagerProxy]>>
                     /\ InitKey(k, book) = <<"childChainManagerAddress">>
                     /\ InitValue(k, book) = book.child[ChildManagerProxy]
         /\ k = 3 => /\ InitName(k) = RootManagerProxy /\ InitMethod(k) = "setCheckpointManager"
                     /\ InitArgs(k, book) = <<PlasmaRootChain>>
                     /\ InitKey(k, book) = <<"checkpointManager">> /\ InitValue(k, book) = PlasmaRootChain
         /\ k \in 4..8 => /\ InitName(k) = PredicateProxy(InitType(k)) /\ InitMethod(k) = "grantRole"
                          /\ InitArgs(k, book) = <<"MANAGER", book.root[RootManagerProxy]>>
         /\ k = 9 => /\ InitName(k) = RootToken("MintableERC721") /\ InitMethod(k) = "grantRole"
                     /\ InitArgs(k, book) = <<"PREDICATE", book.root[PredicateProxy("MintableERC721")]>>
         /\ k \in 10..14 =>
              /\ InitName(k) = RootManagerProxy /\ InitMethod(k) = "registerPredicate"
              /\ InitArgs(k, book) = <<InitType(k), book.root[PredicateProxy(InitType(k))]>>
              /\ InitKey(k, book) = <<"typeToPredicate", InitType(k)>>
              /\ InitValue(k, book) = book.root[PredicateProxy(InitType(k))]
         /\ k \in 15..19 =>
              /\ InitName(k) = RootManagerProxy /\ InitMethod(k) = "mapRootToken"
              /\ InitArgs(k, book) = <<RootAtOf(InitType(k), book), book.child[ChildToken(InitType(k))], InitType(k)>>
              /\ InitKey(k, book) = <<"rootToChildToken", RootAtOf(InitType(k), book)>>
              /\ InitValue(k, book) = book.child[ChildToken(InitType(k))]
<1>1. CASE k = 1
  BY <1>1 DEF InitName, InitMethod, InitArgs, InitKey, InitValue
<1>2. CASE k = 2
  BY <1>2 DEF InitName, InitMethod, InitArgs, InitKey, InitValue
<1>3. CASE k = 3
  BY <1>3 DEF InitName, InitMethod, InitArgs, InitKey, InitValue
<1>4. CASE k \in 4..8
  BY <1>4 DEF InitName, InitMethod, InitArgs, InitKey, InitValue
<1>5. CASE k = 9
  BY <1>5 DEF InitName, InitMethod, InitArgs, InitKey, InitValue
<1>6. CASE k \in 10..14
  BY <1>6 DEF InitName, InitMethod, InitArgs, InitKey, InitValue
<1>7. CASE k \in 15..19
  BY <1>7 DEF InitName, InitMethod, InitArgs, InitKey, InitValue
<1> QED
  BY <1>1, <1>2, <1>3, <1>4, <1>5, <1>6, <1>7

\* A book has the addresses of the root chain's contracts, which are initialized.
FiledRoot(book, ch) ==
  /\ None \notin DOMAIN ch
  /\ \A a \in DOMAIN ch : DOMAIN ch[a] = Fields /\ ch[a].inited \in BOOLEAN
  /\ \A name \in RootNames :
       /\ name \in DOMAIN book.root /\ book.root[name] \in DOMAIN ch /\ book.root[name][1] = name
       /\ name \in Proxies => ch[book.root[name]].inited /\ ch[book.root[name]].impl # None

FiledChild(book, ch) ==
  /\ None \notin DOMAIN ch
  /\ \A a \in DOMAIN ch : DOMAIN ch[a] = Fields /\ ch[a].inited \in BOOLEAN
  /\ \A name \in ChildNames :
       /\ name \in DOMAIN book.child /\ book.child[name] \in DOMAIN ch /\ book.child[name][1] = name
       /\ name \in Proxies => ch[book.child[name]].inited /\ ch[book.child[name]].impl # None

\* Which names the books must have, and which of them are proxies.
LEMMA NamesIn ==
  /\ RootManagerProxy \in RootNames /\ StateSender \in RootNames /\ ChildManagerProxy \in ChildNames
  /\ RootManagerProxy \in Proxies /\ ChildManagerProxy \in Proxies
  /\ RootToken("MintableERC721") \in RootNames /\ "MintableERC721" \in TokenType
  /\ RootToken("MintableERC721") \notin Proxies
  /\ \A t \in TokenType : /\ PredicateProxy(t) \in RootNames /\ PredicateProxy(t) \in Proxies
                          /\ HasRootToken(t) => RootToken(t) \in RootNames
                          /\ RootToken(t) \notin Proxies
                          /\ ChildToken(t) \in ChildNames /\ ChildToken(t) \notin Proxies
<1>1. "MintableERC721" \in TokenType \ {"Ether"}
  BY Types
<1>2. /\ RootManagerProxy \in RootNames /\ StateSender \in RootNames /\ ChildManagerProxy \in ChildNames
      /\ RootToken("MintableERC721") \in RootNames
  BY <1>1 DEF RootNames, ChildNames
<1>3. RootManagerProxy \in Proxies /\ ChildManagerProxy \in Proxies
  BY DEF Proxies
<1>4. \A t \in TokenType : /\ PredicateProxy(t) \in RootNames /\ PredicateProxy(t) \in Proxies
                           /\ HasRootToken(t) => RootToken(t) \in RootNames
                           /\ ChildToken(t) \in ChildNames
  BY DEF RootNames, ChildNames, Proxies, HasRootToken
<1>5. \A t : RootToken(t) \notin Proxies /\ ChildToken(t) \notin Proxies
  BY DEF Proxies, RootToken, ChildToken, RootManagerProxy, ChildManagerProxy, PredicateProxy
<1> QED
  BY <1>1, <1>2, <1>3, <1>4, <1>5

\* The tokens of different types are at different addresses.
LEMMA RootAtDiffers ==
  ASSUME NEW book, NEW ch, FiledRoot(book, ch), NEW s \in TokenType, NEW t \in TokenType,
         RootAtOf(s, book) = RootAtOf(t, book)
  PROVE  s = t
<1>1. \A u \in TokenType : HasRootToken(u) => RootAtOf(u, book)[1] = <<u, "rootToken">>
  BY NamesIn DEF FiledRoot, RootAtOf, RootToken
<1>2. \A u \in TokenType : ~HasRootToken(u) => RootAtOf(u, book)[1] = <<"external", "ether">> /\ u = "Ether"
  BY DEF RootAtOf, EtherAddress, External, HasRootToken
<1>3. \A u : <<u, "rootToken">> # <<"external", "ether">>
  OBVIOUS
<1> QED
  BY <1>1, <1>2, <1>3

\* Where a type's root token is: a contract of its own name, or the ether address.
LEMMA RootAtIs ==
  ASSUME NEW book, NEW ch, FiledRoot(book, ch), NEW t \in TokenType
  PROVE  /\ RootAtOf(t, book) \in DOMAIN ch \cup {EtherAddress} /\ RootAtOf(t, book) # None
         /\ \A s \in TokenType : IsTokenOf(RootAtOf(t, book), s) => s = t
<1>0. None # EtherAddress
  BY DEF None, EtherAddress, External
<1>1. CASE HasRootToken(t)
  <2>1. RootAtOf(t, book) \in DOMAIN ch /\ RootAtOf(t, book)[1] = <<t, "rootToken">>
    BY <1>1, NamesIn DEF FiledRoot, RootAtOf, RootToken
  <2>2. EtherAddress[1] # <<t, "rootToken">>
    BY DEF EtherAddress, External
  <2> QED
    BY <2>1, <2>2 DEF FiledRoot, IsTokenOf, RootToken
<1>2. CASE ~HasRootToken(t)
  <2>1. RootAtOf(t, book) = EtherAddress /\ t = "Ether" /\ EtherAddress[1] = <<"external", "ether">>
    BY <1>2 DEF RootAtOf, HasRootToken, EtherAddress, External
  <2>2. \A s : <<s, "rootToken">> # <<"external", "ether">>
    OBVIOUS
  <2> QED
    BY <1>0, <2>1, <2>2 DEF IsTokenOf, RootToken, HasRootToken
<1> QED
  BY <1>1, <1>2

\* The file has a child token of its own for every type.
LEMMA ChildAtDiffers ==
  ASSUME NEW book, NEW ch, FiledChild(book, ch), NEW s \in TokenType, NEW t \in TokenType,
         book.child[ChildToken(s)] = book.child[ChildToken(t)]
  PROVE  s = t
<1>1. \A u \in TokenType : book.child[ChildToken(u)][1] = <<u, "childToken">>
  BY NamesIn DEF FiledChild, ChildToken
<1> QED
  BY <1>1

\* No two initializations set the same slot of the manager.
LEMMA KeysDiffer ==
  ASSUME NEW book, NEW ch, FiledRoot(book, ch), NEW j \in 1..19, j \notin 4..9, NEW k \in 1..19, k \notin 4..9,
         InitKey(j, book) = InitKey(k, book)
  PROVE  j = k
<1>1. ASSUME NEW i \in 1..19, i \notin 4..9
      PROVE  /\ i = 1 => InitKey(i, book)[1] = "stateSender"
             /\ i = 2 => InitKey(i, book)[1] = "childChainManagerAddress"
             /\ i = 3 => InitKey(i, book)[1] = "checkpointManager"
             /\ i \in 10..14 => InitKey(i, book)[1] = "typeToPredicate" /\ InitKey(i, book)[2] = InitType(i)
             /\ i \in 15..19 => InitKey(i, book)[1] = "rootToChildToken" /\ InitKey(i, book)[2] = RootAtOf(InitType(i), book)
  <2>1. i = 1 => InitKey(i, book) = <<"stateSender">>
    BY InitIs
  <2>2. i = 2 => InitKey(i, book) = <<"childChainManagerAddress">>
    BY InitIs
  <2>3. i = 3 => InitKey(i, book) = <<"checkpointManager">>
    BY InitIs
  <2>4. i \in 10..14 => InitKey(i, book) = <<"typeToPredicate", InitType(i)>>
    BY InitIs
  <2>5. i \in 15..19 => InitKey(i, book) = <<"rootToChildToken", RootAtOf(InitType(i), book)>>
    BY InitIs
  <2>6. i \in 10..14 => InitKey(i, book)[1] = "typeToPredicate" /\ InitKey(i, book)[2] = InitType(i)
    BY ONLY <2>4
  <2>7. i \in 15..19 => InitKey(i, book)[1] = "rootToChildToken" /\ InitKey(i, book)[2] = RootAtOf(InitType(i), book)
    BY ONLY <2>5
  <2> QED
    BY <2>1, <2>2, <2>3, <2>6, <2>7
<1>2. \/ j = k
      \/ j \in 10..14 /\ k \in 10..14 /\ InitType(j) = InitType(k)
      \/ j \in 15..19 /\ k \in 15..19 /\ RootAtOf(InitType(j), book) = RootAtOf(InitType(k), book)
  BY <1>1
<1>3. CASE j \in 10..14 /\ k \in 10..14 /\ InitType(j) = InitType(k)
  <2>1. j - 9 \in 1..5 /\ k - 9 \in 1..5 /\ TypeList[j - 9] = TypeList[k - 9]
    BY <1>3, InitTypes
  <2>2. j - 9 = k - 9
    BY <2>1, TypesDiffer
  <2> QED
    BY <2>2
<1>4. CASE j \in 15..19 /\ k \in 15..19 /\ RootAtOf(InitType(j), book) = RootAtOf(InitType(k), book)
  <2>1. InitType(j) = InitType(k)
    BY <1>4, InitTypes, RootAtDiffers
  <2>2. j - 14 \in 1..5 /\ k - 14 \in 1..5 /\ TypeList[j - 14] = TypeList[k - 14]
    BY <1>4, <2>1, InitTypes
  <2>3. j - 14 = k - 14
    BY <2>2, TypesDiffer
  <2> QED
    BY <2>3
<1> QED
  BY <1>2, <1>3, <1>4

\* Contracts stay initialized and keep their roles, but for the admin's.
KeepsRoles(ch, ch2) ==
  \A a \in DOMAIN ch :
    /\ a \in DOMAIN ch2
    /\ ch[a].inited => ch2[a].inited
    /\ (a[1] \in Proxies => ch[a].inited)
         => \A role \in ch[a].roles : role[1] # "DEFAULT_ADMIN" => role \in ch2[a].roles

\* A step that tells no contract of another.
Gentle(ch, ch2) ==
  /\ KeepsRoles(ch, ch2)
  /\ \A a \in DOMAIN ch : ch2[a].slots = ch[a].slots
  /\ \A a \in DOMAIN ch2 : a \notin DOMAIN ch => ch2[a].slots = << >>

\* A contract without settings reads as zero everywhere.
LEMMA EmptySlots ==
  ASSUME NEW c, c.slots = << >> PROVE DOMAIN c.slots = {} /\ \A key : Slot(c, key) = None
<1>1. DOMAIN c.slots = {}
  OBVIOUS
<1> QED
  BY <1>1 DEF Slot

\* The predicates and the tokens that a manager knows.
SameRegistry(c, c2) ==
  /\ \A x : Slot(c2, <<"typeToPredicate", x>>) = Slot(c, <<"typeToPredicate", x>>)
  /\ \A x : Slot(c2, <<"rootToChildToken", x>>) = Slot(c, <<"rootToChildToken", x>>)
  /\ \A key \in DOMAIN c2.slots : key[1] = "rootToChildToken" => key \in DOMAIN c.slots

\* ManagerOK, in three parts.
PredicateOK(ch, m, t) ==
  LET p == PredicateOf(ch, m, t)
  IN  p # None => p \in DOMAIN ch /\ ch[p].inited /\ <<"MANAGER", m>> \in ch[p].roles

TokenOK(ch, m, t, r) ==
  LET p == PredicateOf(ch, m, t)
  IN  IsTokenOf(r, t) /\ Slot(ch[m], <<"rootToChildToken", r>>) # None =>
        /\ p # None
        /\ t = "MintableERC721" => <<"PREDICATE", p>> \in ch[r].roles

KeysOK(ch, m) ==
  \A key \in DOMAIN ch[m].slots :
    key[1] = "rootToChildToken" => key[2] \in DOMAIN ch \cup {EtherAddress}

\* ManagerOK, part by part.
LEMMA ManagerParts ==
  ASSUME NEW ch, NEW m
  PROVE  ManagerOK(ch, m) <=>
           /\ \A t \in TokenType : PredicateOK(ch, m, t)
           /\ \A t \in TokenType : \A r \in DOMAIN ch \cup {EtherAddress} : TokenOK(ch, m, t, r)
           /\ KeysOK(ch, m)
BY DEF ManagerOK, PredicateOK, TokenOK, KeysOK

\* Only contracts are mintable tokens.
LEMMA MintableToken ==
  ASSUME NEW r, IsTokenOf(r, "MintableERC721")
  PROVE  r[1] = RootToken("MintableERC721") /\ r[1] \notin Proxies /\ r # EtherAddress
<1>1. r[1] = RootToken("MintableERC721") /\ r[1] \notin Proxies
  BY NamesIn DEF IsTokenOf, HasRootToken
<1>2. EtherAddress[1] # RootToken("MintableERC721")
  BY DEF EtherAddress, External, RootToken
<1> QED
  BY <1>1, <1>2

\* A manager with the same registry stays ready for deposits if no roles are taken.
LEMMA ManagerKept ==
  ASSUME NEW ch, NEW ch2, KeepsRoles(ch, ch2), NEW m \in DOMAIN ch, SameRegistry(ch[m], ch2[m]),
         ManagerOK(ch, m)
  PROVE  ManagerOK(ch2, m)
<1>1. \A t : PredicateOf(ch2, m, t) = PredicateOf(ch, m, t)
  BY DEF SameRegistry, PredicateOf
<1>2. ASSUME NEW t \in TokenType PROVE PredicateOK(ch2, m, t)
  <2>1. PredicateOK(ch, m, t)
    BY ManagerParts
  <2> QED
    BY <1>1, <2>1 DEF PredicateOK, KeepsRoles
<1>3. KeysOK(ch, m)
  BY ManagerParts
<1>4. KeysOK(ch2, m)
  BY <1>3 DEF KeysOK, SameRegistry, KeepsRoles
<1>5. ASSUME NEW t \in TokenType, NEW r \in DOMAIN ch2 \cup {EtherAddress} PROVE TokenOK(ch2, m, t, r)
  <2> SUFFICES ASSUME IsTokenOf(r, t), Slot(ch2[m], <<"rootToChildToken", r>>) # None
               PROVE  /\ PredicateOf(ch, m, t) # None
                      /\ t = "MintableERC721" => <<"PREDICATE", PredicateOf(ch, m, t)>> \in ch2[r].roles
    BY <1>1 DEF TokenOK
  <2>1. Slot(ch[m], <<"rootToChildToken", r>>) # None
    BY DEF SameRegistry
  <2>2. <<"rootToChildToken", r>> \in DOMAIN ch[m].slots
    BY <2>1 DEF Slot
  <2>3. r \in DOMAIN ch \cup {EtherAddress}
    <3> DEFINE key == <<"rootToChildToken", r>>
    <3>1. key[1] = "rootToChildToken" /\ key[2] = r /\ key \in DOMAIN ch[m].slots
      BY <2>2
    <3> HIDE DEF key
    <3> QED
      BY ONLY <3>1, <1>3 DEF KeysOK
  <2>4. TokenOK(ch, m, t, r)
    BY <2>3, ManagerParts
  <2>5. /\ PredicateOf(ch, m, t) # None
        /\ t = "MintableERC721" => <<"PREDICATE", PredicateOf(ch, m, t)>> \in ch[r].roles
    BY <2>1, <2>4 DEF TokenOK
  <2>6. ASSUME t = "MintableERC721" PROVE <<"PREDICATE", PredicateOf(ch, m, t)>> \in ch2[r].roles
    <3>1. r[1] \notin Proxies /\ r \in DOMAIN ch
      BY <2>3, <2>6, MintableToken
    <3>2. \A role \in ch[r].roles : role[1] # "DEFAULT_ADMIN" => role \in ch2[r].roles
      BY <3>1 DEF KeepsRoles
    <3> DEFINE role == <<"PREDICATE", PredicateOf(ch, m, t)>>
    <3>3. role[1] = "PREDICATE" /\ role \in ch[r].roles
      BY <2>5, <2>6
    <3> HIDE DEF role
    <3>4. role \in ch2[r].roles
      BY ONLY <3>2, <3>3
    <3> QED
      BY <3>4 DEF role
  <2> QED
    BY <2>5, <2>6
<1> QED
  BY <1>2, <1>4, <1>5, ManagerParts

\* So do all managers, and a new one has nothing registered or mapped.
LEMMA ManagersKept ==
  ASSUME NEW ch, NEW ch2, Gentle(ch, ch2), NEW m \in DOMAIN ch2, m \in DOMAIN ch => ManagerOK(ch, m)
  PROVE  ManagerOK(ch2, m)
<1>1. CASE m \in DOMAIN ch
  <2>1. KeepsRoles(ch, ch2) /\ ch2[m].slots = ch[m].slots
    BY <1>1 DEF Gentle
  <2>2. SameRegistry(ch[m], ch2[m])
    BY <2>1 DEF SameRegistry, Slot
  <2> QED
    BY <1>1, <2>1, <2>2, ManagerKept
<1>2. CASE m \notin DOMAIN ch
  <2>1. DOMAIN ch2[m].slots = {} /\ \A key : Slot(ch2[m], key) = None
    BY <1>2, EmptySlots DEF Gentle
  <2> QED
    BY <2>1 DEF ManagerOK, PredicateOf
<1> QED
  BY <1>1, <1>2

\* A role that an initialization gave stays.
LEMMA RoleStays ==
  ASSUME NEW book, NEW ch, NEW ch2, FiledRoot(book, ch), KeepsRoles(ch, ch2), NEW k \in 4..9, Took(k, book, ch)
  PROVE  Took(k, book, ch2)
<1> DEFINE a == book.root[InitName(k)]
           role == InitArgs(k, book)
<1>0. k \in 1..19
  OBVIOUS
<1>1. InitName(k) \in RootNames /\ role[1] # "DEFAULT_ADMIN"
  <2>1. CASE k \in 4..8
    <3>1. role = <<"MANAGER", book.root[RootManagerProxy]>> /\ InitName(k) = PredicateProxy(InitType(k))
      BY <1>0, <2>1, InitIs
    <3>2. role[1] = "MANAGER"
      BY ONLY <3>1
    <3> QED
      BY <1>0, <2>1, <3>1, <3>2, InitTypes, NamesIn
  <2>2. CASE k = 9
    <3>1. /\ role = <<"PREDICATE", book.root[PredicateProxy("MintableERC721")]>>
          /\ InitName(k) = RootToken("MintableERC721")
      BY <1>0, <2>2, InitIs
    <3>2. role[1] = "PREDICATE"
      BY ONLY <3>1
    <3> QED
      BY <3>1, <3>2, NamesIn
  <2> QED
    BY <2>1, <2>2
<1>2. a \in DOMAIN ch /\ (a[1] \in Proxies => ch[a].inited)
  BY <1>1 DEF FiledRoot
<1>3. role \in ch[a].roles
  BY DEF Took
<1> HIDE DEF a, role
<1>4. role \in ch2[a].roles
  BY <1>1, <1>2, <1>3 DEF KeepsRoles
<1> QED
  BY <1>4 DEF Took, a, role

\* What the initializations left stays, in a step that tells no contract of another.
LEMMA GentleKeeps ==
  ASSUME NEW book, NEW ch, NEW ch2, FiledRoot(book, ch), Gentle(ch, ch2)
  PROVE  /\ \A k \in 1..19 : Took(k, book, ch) => Took(k, book, ch2)
         /\ RegisteredIn(book, ch) => RegisteredIn(book, ch2)
         /\ MappedIn(book, ch) => MappedIn(book, ch2)
<1>1. ManagerIn(book, ch2).slots = ManagerIn(book, ch).slots
  BY NamesIn DEF FiledRoot, Gentle, ManagerIn
<1>2. \A key : Slot(ManagerIn(book, ch2), key) = Slot(ManagerIn(book, ch), key)
  BY <1>1 DEF Slot
<1>3. ASSUME NEW k \in 1..19, Took(k, book, ch) PROVE Took(k, book, ch2)
  <2>1. CASE k \notin 4..9
    BY <1>2, <1>3, <2>1 DEF Took
  <2>2. CASE k \in 4..9
    BY <1>3, <2>2, RoleStays DEF Gentle
  <2> QED
    BY <2>1, <2>2
<1> QED
  BY <1>2, <1>3 DEF RegisteredIn, MappedIn

\* The k-th initialization, with the addresses of a book.
Acts(k, book, ch, ch2) ==
  LET a == book.root[InitName(k)]
  IN  /\ a \in DOMAIN ch /\ DOMAIN ch2 = DOMAIN ch
      /\ \A b \in DOMAIN ch : b # a => ch2[b] = ch[b]
      /\ Passes(ch[a], InitMethod(k), InitArgs(k, book))
      /\ ch2[a] = Result(a[1], ch[a], InitMethod(k), InitArgs(k, book))
      /\ IsResult(ch2[a], a[1], ch[a], InitMethod(k), InitArgs(k, book))

\* What it writes beside its key.
Beside(k, book, key) ==
  /\ k \in 15..19
  /\ key \in {<<"childToRootToken", InitValue(k, book)>>, <<"tokenToType", RootAtOf(InitType(k), book)>>}

\* The slots of the manager after it.
Sets(k, book, c, r) ==
  /\ Slot(r, InitKey(k, book)) = InitValue(k, book)
  /\ \A key : key # InitKey(k, book) /\ ~Beside(k, book, key) => Slot(r, key) = Slot(c, key)
  /\ \A key \in DOMAIN r.slots : key \in DOMAIN c.slots \/ key = InitKey(k, book) \/ Beside(k, book, key)

\* A method that writes the one slot does what its initialization is for.
LEMMA SetsOne ==
  ASSUME NEW k, NEW book, NEW c, NEW r, IsWritten(r, c, InitKey(k, book), InitValue(k, book))
  PROVE  Sets(k, book, c, r)
BY DEF IsWritten, Sets

\* mapRootToken writes three slots, and only these.
LEMMA SetsThree ==
  ASSUME NEW k \in 15..19, NEW book, NEW c, NEW w, NEW v, NEW r,
         IsWritten(w, c, <<"rootToChildToken", RootAtOf(InitType(k), book)>>, book.child[ChildToken(InitType(k))]),
         IsWritten(v, w, <<"childToRootToken", book.child[ChildToken(InitType(k))]>>, RootAtOf(InitType(k), book)),
         IsWritten(r, v, <<"tokenToType", RootAtOf(InitType(k), book)>>, InitType(k))
  PROVE  Sets(k, book, c, r)
<1> DEFINE key1 == <<"rootToChildToken", RootAtOf(InitType(k), book)>>
           value1 == book.child[ChildToken(InitType(k))]
           key2 == <<"childToRootToken", book.child[ChildToken(InitType(k))]>>
           value2 == RootAtOf(InitType(k), book)
           key3 == <<"tokenToType", RootAtOf(InitType(k), book)>>
           value3 == InitType(k)
<1>0. k \in 1..19
  OBVIOUS
<1>1. InitKey(k, book) = key1 /\ InitValue(k, book) = value1
  BY <1>0, InitIs
<1>2. key1 # key2 /\ key1 # key3
  OBVIOUS
<1>3. \A key : Beside(k, book, key) <=> key \in {key2, key3}
  BY <1>1 DEF Beside
<1>4. IsWritten(w, c, key1, value1) /\ IsWritten(v, w, key2, value2) /\ IsWritten(r, v, key3, value3)
  OBVIOUS
<1> HIDE DEF key1, value1, key2, value2, key3, value3
<1>5. Slot(r, key1) = value1
  BY ONLY <1>2, <1>4 DEF IsWritten
<1>6. \A key : key \notin {key1, key2, key3} => Slot(r, key) = Slot(c, key)
  BY ONLY <1>4 DEF IsWritten
<1>7. \A key \in DOMAIN r.slots : key \in DOMAIN c.slots \cup {key1, key2, key3}
  BY ONLY <1>4 DEF IsWritten
<1> QED
  BY ONLY <1>1, <1>3, <1>5, <1>6, <1>7 DEF Sets

\* Which settings the initializations are about.
LEMMA KeyIs ==
  ASSUME NEW k \in 1..19, k \notin 4..9, NEW book
  PROVE  InitKey(k, book)[1] \in {"stateSender", "childChainManagerAddress", "checkpointManager",
                                  "typeToPredicate", "rootToChildToken"}
<1>1. CASE k \in {1, 2, 3}
  <2>1. InitKey(k, book) \in {<<"stateSender">>, <<"childChainManagerAddress">>, <<"checkpointManager">>}
    BY <1>1, InitIs
  <2> QED
    BY ONLY <2>1
<1>2. CASE k \in 10..14
  <2>1. InitKey(k, book) = <<"typeToPredicate", InitType(k)>>
    BY <1>2, InitIs
  <2> QED
    BY ONLY <2>1
<1>3. CASE k \in 15..19
  <2>1. InitKey(k, book) = <<"rootToChildToken", RootAtOf(InitType(k), book)>>
    BY <1>3, InitIs
  <2> QED
    BY ONLY <2>1
<1> QED
  BY <1>1, <1>2, <1>3

\* Nothing else is set beside a mapping than its other direction and its type.
LEMMA NotBeside ==
  ASSUME NEW k, NEW book, NEW key, key[1] \notin {"childToRootToken", "tokenToType"}
  PROVE  ~Beside(k, book, key)
BY DEF Beside

\* An initialization of the manager sets its slot; a mapping was allowed before.
LEMMA ActsSets ==
  ASSUME NEW k \in 1..19, k \notin 4..9, NEW book, NEW ch, NEW ch2, FiledRoot(book, ch), Acts(k, book, ch, ch2)
  PROVE  /\ book.root[InitName(k)] = book.root[RootManagerProxy]
         /\ Sets(k, book, ManagerIn(book, ch), ManagerIn(book, ch2))
         /\ k \in 15..19 => RootMaps(ManagerIn(book, ch), RootAtOf(InitType(k), book),
                                     book.child[ChildToken(InitType(k))], InitType(k))
<1> DEFINE a == book.root[InitName(k)]
           c == ch[a]
           r == ch2[a]
<1>1. InitName(k) = RootManagerProxy
  <2>1. k \in {1, 2, 3} \/ k \in 10..14 \/ k \in 15..19
    BY InitTypes
  <2> QED
    BY <2>1, InitIs
<1>2. /\ DOMAIN c = Fields
      /\ Passes(c, InitMethod(k), InitArgs(k, book))
      /\ r = Result(a[1], c, InitMethod(k), InitArgs(k, book))
  BY DEF Acts, FiledRoot
<1>3. ManagerIn(book, ch) = c /\ ManagerIn(book, ch2) = r
  BY <1>1 DEF ManagerIn
<1>4. ASSUME NEW R, NEW C, NEW T,
             r = RootMapped(c, R, C, T)
      PROVE  \E w, v : /\ IsWritten(w, c, <<"rootToChildToken", R>>, C)
                       /\ IsWritten(v, w, <<"childToRootToken", C>>, R)
                       /\ IsWritten(r, v, <<"tokenToType", R>>, T)
  <2> HIDE DEF c, r
  <2> DEFINE w == Written(c, <<"rootToChildToken", R>>, C)
             v == Written(w, <<"childToRootToken", C>>, R)
             u == Written(v, <<"tokenToType", R>>, T)
  <2>1. r = u
    BY <1>4 DEF RootMapped
  <2>2. IsWritten(w, c, <<"rootToChildToken", R>>, C)
    BY <1>2, WrittenSlots
  <2>3. DOMAIN w = Fields
    BY <2>2 DEF IsWritten
  <2> HIDE DEF w
  <2>4. IsWritten(v, w, <<"childToRootToken", C>>, R)
    BY <2>3, WrittenSlots
  <2>5. DOMAIN v = Fields
    BY <2>4 DEF IsWritten
  <2> HIDE DEF v
  <2>6. IsWritten(u, v, <<"tokenToType", R>>, T)
    BY <2>5, WrittenSlots
  <2> HIDE DEF u
  <2> QED
    BY <2>1, <2>2, <2>4, <2>6
<1> HIDE DEF a, c, r
<1>5. CASE k \in {1, 2, 3}
  <2>0. ASSUME NEW v, InitArgs(k, book) = <<v>> PROVE InitArgs(k, book)[1] = v
    BY <2>0
  <2>1. r = Written(c, InitKey(k, book), InitValue(k, book))
    <3>1. CASE k = 1
      <4>1. /\ InitMethod(k) = "setStateSender" /\ InitArgs(k, book)[1] = InitValue(k, book)
            /\ InitKey(k, book) = <<"stateSender">>
        BY <3>1, <2>0, InitIs
      <4> QED
        BY ONLY <1>2, <4>1 DEF Result
    <3>2. CASE k = 2
      <4>1. /\ InitMethod(k) = "setChildChainManagerAddress" /\ InitArgs(k, book)[1] = InitValue(k, book)
            /\ InitKey(k, book) = <<"childChainManagerAddress">>
        BY <3>2, <2>0, InitIs
      <4> QED
        BY ONLY <1>2, <4>1 DEF Result
    <3>3. CASE k = 3
      <4>1. /\ InitMethod(k) = "setCheckpointManager" /\ InitArgs(k, book)[1] = InitValue(k, book)
            /\ InitKey(k, book) = <<"checkpointManager">>
        BY <3>3, <2>0, InitIs
      <4> QED
        BY ONLY <1>2, <4>1 DEF Result
    <3> QED
      BY <1>5, <3>1, <3>2, <3>3
  <2> QED
    BY <1>1, <1>2, <1>3, <1>5, <2>1, WrittenSlots, SetsOne
<1>6. CASE k \in 10..14
  <2>1. /\ InitMethod(k) = "registerPredicate"
        /\ InitArgs(k, book) = <<InitType(k), book.root[PredicateProxy(InitType(k))]>>
        /\ InitKey(k, book) = <<"typeToPredicate", InitType(k)>>
        /\ InitValue(k, book) = book.root[PredicateProxy(InitType(k))]
    BY <1>6, InitIs
  <2>2. r = Written(c, <<"typeToPredicate", InitArgs(k, book)[1]>>, InitArgs(k, book)[2])
    BY <1>2, <2>1 DEF Result
  <2>3. InitArgs(k, book)[1] = InitType(k) /\ InitArgs(k, book)[2] = book.root[PredicateProxy(InitType(k))]
    BY <2>1
  <2>4. r = Written(c, InitKey(k, book), InitValue(k, book))
    BY <2>1, <2>2, <2>3
  <2> QED
    BY <1>1, <1>2, <1>3, <1>6, <2>4, WrittenSlots, SetsOne
<1>7. CASE k \in 15..19
  <2> DEFINE R == RootAtOf(InitType(k), book)
             C == book.child[ChildToken(InitType(k))]
             T == InitType(k)
  <2>1. InitMethod(k) = "mapRootToken" /\ InitArgs(k, book) = <<R, C, T>>
    BY <1>7, InitIs
  <2> HIDE DEF R, C, T
  <2>2. InitArgs(k, book)[1] = R /\ InitArgs(k, book)[2] = C /\ InitArgs(k, book)[3] = T
    BY <2>1
  <2>3. r = RootMapped(c, R, C, T)
    BY <1>2, <2>1, <2>2 DEF Result
  <2>4. RootMaps(c, R, C, T)
    BY <1>2, <2>1, <2>2 DEF Passes
  <2>5. PICK w, v : /\ IsWritten(w, c, <<"rootToChildToken", R>>, C)
                    /\ IsWritten(v, w, <<"childToRootToken", C>>, R)
                    /\ IsWritten(r, v, <<"tokenToType", R>>, T)
    BY <1>4, <2>3
  <2>6. Sets(k, book, c, r)
    BY <1>7, <2>5, SetsThree DEF R, C, T
  <2> QED
    BY <1>1, <1>3, <2>4, <2>6 DEF R, C, T
<1> QED
  BY <1>1, <1>5, <1>6, <1>7

\* An initialization takes no role from anyone; a grant leaves the settings alone.
LEMMA ActsKeeps ==
  ASSUME NEW k \in 1..19, NEW book, NEW ch, NEW ch2, Acts(k, book, ch, ch2)
  PROVE  /\ KeepsRoles(ch, ch2)
         /\ k \in 4..9 => Gentle(ch, ch2) /\ Took(k, book, ch2)
<1> DEFINE a == book.root[InitName(k)]
           args == InitArgs(k, book)
           method == InitMethod(k)
<1>1. /\ method \notin {"updateAndCall", "transferProxyOwnership", "revokeRole"}
      /\ k \in 4..9 => method = "grantRole"
  BY DEF InitMethod
<1>2. /\ a \in DOMAIN ch /\ DOMAIN ch2 = DOMAIN ch
      /\ \A b \in DOMAIN ch : b # a => ch2[b] = ch[b]
      /\ IsResult(ch2[a], a[1], ch[a], method, args)
  BY DEF Acts
<1> HIDE DEF a, args, method
<1>3. /\ ch2[a].inited = (ch[a].inited \/ method = "updateAndCall")
      /\ ch2[a].roles = CASE method = "updateAndCall" -> InitialRoles(a[1])
                          [] method = "grantRole"     -> ch[a].roles \cup {args}
                          [] method = "revokeRole"    -> ch[a].roles \ {args}
                          [] OTHER                    -> ch[a].roles
      /\ method \in {"updateAndCall", "transferProxyOwnership", "grantRole", "revokeRole"}
           => ch2[a].slots = ch[a].slots
  BY ONLY <1>2 DEF IsResult
<1>4. ch[a].roles \subseteq ch2[a].roles /\ (method = "grantRole" => args \in ch2[a].roles)
  BY <1>1, <1>3
<1>5. ch[a].inited => ch2[a].inited
  BY <1>3
<1>6. KeepsRoles(ch, ch2)
  BY <1>2, <1>4, <1>5 DEF KeepsRoles
<1>7. ASSUME k \in 4..9 PROVE Gentle(ch, ch2) /\ Took(k, book, ch2)
  <2>1. Gentle(ch, ch2)
    BY <1>1, <1>2, <1>3, <1>6, <1>7 DEF Gentle
  <2>2. Took(k, book, ch2)
    BY <1>1, <1>4, <1>7 DEF Took, a, args
  <2> QED
    BY <2>1, <2>2
<1> QED
  BY <1>6, <1>7

\* An initialization takes, and none undoes another.
LEMMA ActsTook ==
  ASSUME NEW k \in 1..19, NEW book, NEW ch, NEW ch2, FiledRoot(book, ch), Acts(k, book, ch, ch2),
         NEW j \in 1..19, Took(j, book, ch) \/ j = k
  PROVE  Took(j, book, ch2)
<1>1. CASE k \in 4..9
  BY <1>1, ActsKeeps, GentleKeeps
<1>2. CASE k \notin 4..9 /\ j \in 4..9
  BY <1>2, ActsKeeps, RoleStays
<1>3. CASE k \notin 4..9 /\ j \notin 4..9
  <2> DEFINE c == ManagerIn(book, ch)
             r == ManagerIn(book, ch2)
  <2>1. Sets(k, book, c, r)
    BY <1>3, ActsSets
  <2> HIDE DEF c, r
  <2>2. CASE j = k
    BY <1>3, <2>1, <2>2 DEF Took, Sets, r
  <2>3. CASE j # k
    <3>1. InitKey(j, book) # InitKey(k, book)
      BY <1>3, <2>3, KeysDiffer
    <3>2. ~Beside(k, book, InitKey(j, book))
      BY <1>3, KeyIs, NotBeside
    <3>3. Slot(r, InitKey(j, book)) = Slot(c, InitKey(j, book))
      BY <2>1, <3>1, <3>2 DEF Sets
    <3> QED
      BY <1>3, <2>3, <3>3 DEF Took, c, r
  <2> QED
    BY <2>2, <2>3
<1> QED
  BY <1>1, <1>2, <1>3

\* Which slots an initialization leaves alone.
LEMMA SetsOthers ==
  ASSUME NEW k \in 1..19, k \notin 4..9, NEW book, NEW c, NEW r, Sets(k, book, c, r)
  PROVE  /\ \A t : k \notin 10..14 \/ t # InitType(k)
                     => Slot(r, <<"typeToPredicate", t>>) = Slot(c, <<"typeToPredicate", t>>)
         /\ \A x : k \notin 15..19 \/ x # RootAtOf(InitType(k), book)
                     => Slot(r, <<"rootToChildToken", x>>) = Slot(c, <<"rootToChildToken", x>>)
         /\ \A x : k \notin 15..19 \/ x # book.child[ChildToken(InitType(k))]
                     => Slot(r, <<"childToRootToken", x>>) = Slot(c, <<"childToRootToken", x>>)
         /\ \A key \in DOMAIN r.slots : key[1] = "rootToChildToken"
              => key \in DOMAIN c.slots \/ (k \in 15..19 /\ key[2] = RootAtOf(InitType(k), book))
<1> DEFINE mine == InitKey(k, book)
<1>0. k \in {1, 2, 3} \/ k \in 10..14 \/ k \in 15..19
  BY InitTypes
<1>1. /\ k \in {1, 2, 3} => mine \in {<<"stateSender">>, <<"childChainManagerAddress">>, <<"checkpointManager">>}
      /\ k \in 10..14 => mine = <<"typeToPredicate", InitType(k)>>
      /\ k \in 15..19 => mine = <<"rootToChildToken", RootAtOf(InitType(k), book)>>
      /\ k \in 15..19 => InitValue(k, book) = book.child[ChildToken(InitType(k))]
  <2>1. CASE k \in {1, 2, 3}
    BY <2>1, InitIs
  <2>2. CASE k \in 10..14
    BY <2>2, InitIs
  <2>3. CASE k \in 15..19
    BY <2>3, InitIs
  <2> QED
    BY <1>0, <2>1, <2>2, <2>3
<1> HIDE DEF mine
<1>2. /\ \A key : key # mine /\ ~Beside(k, book, key) => Slot(r, key) = Slot(c, key)
      /\ \A key \in DOMAIN r.slots : key \in DOMAIN c.slots \/ key = mine \/ Beside(k, book, key)
  BY DEF Sets, mine
<1>3. \A key : Beside(k, book, key) => /\ k \in 15..19
                                       /\ key \in {<<"childToRootToken", book.child[ChildToken(InitType(k))]>>,
                                                   <<"tokenToType", RootAtOf(InitType(k), book)>>}
  BY <1>1 DEF Beside
<1>4. ASSUME NEW t, k \notin 10..14 \/ t # InitType(k)
      PROVE  Slot(r, <<"typeToPredicate", t>>) = Slot(c, <<"typeToPredicate", t>>)
  <2>1. <<"typeToPredicate", t>> # mine
    BY ONLY <1>0, <1>1, <1>4
  <2>2. ~Beside(k, book, <<"typeToPredicate", t>>)
    BY ONLY <1>3
  <2> QED
    BY <1>2, <2>1, <2>2
<1>5. ASSUME NEW x, k \notin 15..19 \/ x # RootAtOf(InitType(k), book)
      PROVE  Slot(r, <<"rootToChildToken", x>>) = Slot(c, <<"rootToChildToken", x>>)
  <2>1. <<"rootToChildToken", x>> # mine
    BY ONLY <1>0, <1>1, <1>5
  <2>2. ~Beside(k, book, <<"rootToChildToken", x>>)
    BY ONLY <1>3
  <2> QED
    BY <1>2, <2>1, <2>2
<1>6. ASSUME NEW x, k \notin 15..19 \/ x # book.child[ChildToken(InitType(k))]
      PROVE  Slot(r, <<"childToRootToken", x>>) = Slot(c, <<"childToRootToken", x>>)
  <2>1. <<"childToRootToken", x>> # mine
    BY ONLY <1>0, <1>1
  <2>2. ~Beside(k, book, <<"childToRootToken", x>>)
    BY ONLY <1>3, <1>6
  <2> QED
    BY <1>2, <2>1, <2>2
<1>7. ASSUME NEW key \in DOMAIN r.slots, key[1] = "rootToChildToken"
      PROVE  key \in DOMAIN c.slots \/ (k \in 15..19 /\ key[2] = RootAtOf(InitType(k), book))
  <2>1. ~Beside(k, book, key)
    BY <1>7, NotBeside
  <2>2. key = mine => k \in 15..19 /\ key[2] = RootAtOf(InitType(k), book)
    BY ONLY <1>0, <1>1, <1>7
  <2> QED
    BY <1>2, <2>1, <2>2
<1> QED
  BY <1>4, <1>5, <1>6, <1>7

\* An initialization registers no predicates but the file's.
LEMMA ActsRegistered ==
  ASSUME NEW k \in 1..19, NEW book, NEW ch, NEW ch2, FiledRoot(book, ch), Acts(k, book, ch, ch2),
         RegisteredIn(book, ch)
  PROVE  RegisteredIn(book, ch2)
<1>1. CASE k \in 4..9
  BY <1>1, ActsKeeps, GentleKeeps
<1>2. CASE k \notin 4..9
  <2> DEFINE c == ManagerIn(book, ch)
             r == ManagerIn(book, ch2)
  <2>1. Sets(k, book, c, r)
    BY <1>2, ActsSets
  <2>2. ASSUME NEW t \in TokenType
        PROVE  Slot(r, <<"typeToPredicate", t>>) \in {None, book.root[PredicateProxy(t)]}
    <3>1. Slot(c, <<"typeToPredicate", t>>) \in {None, book.root[PredicateProxy(t)]}
      BY DEF RegisteredIn
    <3> HIDE DEF c, r
    <3>2. CASE k \notin 10..14 \/ t # InitType(k)
      BY <1>2, <2>1, <3>1, <3>2, SetsOthers
    <3>3. CASE k \in 10..14 /\ t = InitType(k)
      <4>1. InitKey(k, book) = <<"typeToPredicate", t>> /\ InitValue(k, book) = book.root[PredicateProxy(t)]
        BY <3>3, InitIs
      <4> QED
        BY <2>1, <4>1 DEF Sets
    <3> QED
      BY <3>2, <3>3
  <2> QED
    BY <2>2 DEF RegisteredIn
<1> QED
  BY <1>1, <1>2

\* An initialization maps no tokens but the file's, both ways at once.
LEMMA ActsMapped ==
  ASSUME NEW k \in 1..19, NEW book, NEW ch, NEW ch2, NEW chc, FiledRoot(book, ch), FiledChild(book, chc),
         Acts(k, book, ch, ch2), MappedIn(book, ch)
  PROVE  MappedIn(book, ch2)
<1>1. CASE k \in 4..9
  BY <1>1, ActsKeeps, GentleKeeps
<1>2. CASE k \notin 4..9
  <2> DEFINE c == ManagerIn(book, ch)
             r == ManagerIn(book, ch2)
             R(t) == RootAtOf(t, book)
             C(t) == book.child[ChildToken(t)]
             MapsIn(s, t) ==
               \/ /\ Slot(s, <<"rootToChildToken", R(t)>>) = None
                  /\ Slot(s, <<"childToRootToken", C(t)>>) = None
               \/ Slot(s, <<"rootToChildToken", R(t)>>) = C(t)
  <2>1. Sets(k, book, c, r)
    BY <1>2, ActsSets
  <2>2. ASSUME NEW t \in TokenType PROVE MapsIn(r, t)
    <3>1. MapsIn(c, t)
      BY DEF MappedIn
    <3> HIDE DEF c, r
    <3>2. CASE k \in 15..19 /\ t = InitType(k)
      <4>1. InitKey(k, book) = <<"rootToChildToken", R(t)>> /\ InitValue(k, book) = C(t)
        BY <3>2, InitIs
      <4> QED
        BY <2>1, <4>1 DEF Sets
    <3>3. CASE k \notin 15..19
      BY <1>2, <2>1, <3>1, <3>3, SetsOthers
    <3>4. CASE k \in 15..19 /\ t # InitType(k)
      <4>1. InitType(k) \in TokenType
        BY <3>4, InitTypes
      <4>2. R(t) # RootAtOf(InitType(k), book)
        BY <3>4, <4>1, RootAtDiffers
      <4>3. C(t) # book.child[ChildToken(InitType(k))]
        BY <3>4, <4>1, ChildAtDiffers
      <4> QED
        BY <1>2, <2>1, <3>1, <4>2, <4>3, SetsOthers
    <3> QED
      BY <3>2, <3>3, <3>4
  <2> QED
    BY <2>2 DEF MappedIn
<1> QED
  BY <1>1, <1>2

\* A predicate in the file takes orders from the manager in the file.
LEMMA ManagedBy ==
  ASSUME NEW book, NEW ch, FiledRoot(book, ch), NEW i \in 1..5, Took(3 + i, book, ch)
  PROVE  LET p == book.root[PredicateProxy(TypeList[i])]
         IN  p \in DOMAIN ch /\ ch[p].inited /\ <<"MANAGER", book.root[RootManagerProxy]>> \in ch[p].roles
<1>0. 3 + i \in 1..19 /\ 3 + i \in 4..8 /\ (3 + i) - 3 = i
  OBVIOUS
<1>1. InitType(3 + i) = TypeList[i] /\ TypeList[i] \in TokenType
  BY <1>0, InitTypes
<1>2. /\ InitName(3 + i) = PredicateProxy(TypeList[i])
      /\ InitArgs(3 + i, book) = <<"MANAGER", book.root[RootManagerProxy]>>
  BY <1>0, <1>1, InitIs
<1>3. PredicateProxy(TypeList[i]) \in RootNames \cap Proxies
  BY <1>1, NamesIn
<1>4. <<"MANAGER", book.root[RootManagerProxy]>> \in ch[book.root[PredicateProxy(TypeList[i])]].roles
  BY <1>0, <1>2 DEF Took
<1> QED
  BY <1>3, <1>4 DEF FiledRoot

\* An initialization keeps every manager ready for deposits, if those before it
\* took: a token is mapped when its predicate is registered, and a predicate is
\* registered when the manager's role was granted.
LEMMA ActsManagers ==
  ASSUME NEW k \in 1..19, NEW book, NEW ch, NEW ch2, FiledRoot(book, ch), Acts(k, book, ch, ch2),
         RegisteredIn(book, ch), TookUpTo(k - 1, book, ch),
         NEW m \in DOMAIN ch, ManagerOK(ch, m)
  PROVE  ManagerOK(ch2, m)
<1> DEFINE M == book.root[RootManagerProxy]
           a == book.root[InitName(k)]
<1>0. /\ KeepsRoles(ch, ch2) /\ DOMAIN ch2 = DOMAIN ch
      /\ \A b \in DOMAIN ch : b # a => ch2[b] = ch[b]
      /\ M \in DOMAIN ch
  <2>1. M \in DOMAIN ch
    BY NamesIn DEF FiledRoot
  <2>2. KeepsRoles(ch, ch2)
    BY ActsKeeps
  <2>3. DOMAIN ch2 = DOMAIN ch /\ \A b \in DOMAIN ch : b # a => ch2[b] = ch[b]
    BY DEF Acts
  <2> QED
    BY <2>1, <2>2, <2>3
<1>1. CASE k \in 4..9
  BY <1>0, <1>1, ActsKeeps, ManagersKept
<1>2. CASE k \notin 4..9 /\ m # M
  <2>1. a = M
    BY <1>2, ActsSets
  <2>2. SameRegistry(ch[m], ch2[m])
    BY <1>0, <1>2, <2>1 DEF SameRegistry
  <2> QED
    BY <1>0, <2>2, ManagerKept
<1>3. CASE k \notin 4..9 /\ m = M
  <2>1. Sets(k, book, ch[m], ch2[m])
    BY <1>3, ActsSets DEF ManagerIn
  <2>2. CASE k \notin 10..14 /\ k \notin 15..19
    <3>1. SameRegistry(ch[m], ch2[m])
      BY <1>3, <2>1, <2>2, SetsOthers DEF SameRegistry
    <3> QED
      BY <1>0, <3>1, ManagerKept
  <2>3. CASE k \in 10..14
    <3> DEFINE T == InitType(k)
               P == book.root[PredicateProxy(T)]
    <3>1. T \in TokenType /\ T = TypeList[k - 9] /\ k - 9 \in 1..5 /\ 3 + (k - 9) \in 1..(k - 1)
      BY <2>3, InitTypes
    <3>2. Took(3 + (k - 9), book, ch)
      BY <3>1 DEF TookUpTo
    <3>3. P \in DOMAIN ch /\ ch[P].inited /\ <<"MANAGER", m>> \in ch[P].roles
      BY <1>3, <3>1, <3>2, ManagedBy
    <3>4. InitKey(k, book) = <<"typeToPredicate", T>> /\ InitValue(k, book) = P
      BY <2>3, InitIs
    <3>5. PredicateOf(ch2, m, T) = P
      BY <2>1, <3>4 DEF Sets, PredicateOf
    <3>6. PredicateOf(ch, m, T) \in {None, P}
      BY <1>3, <3>1 DEF RegisteredIn, PredicateOf, ManagerIn
    <3>7. P # None
      BY <3>3 DEF FiledRoot
    <3> HIDE DEF T, P
    <3>8. \A t : t # T => PredicateOf(ch2, m, t) = PredicateOf(ch, m, t)
      BY <1>3, <2>1, SetsOthers DEF PredicateOf, T
    <3>9. /\ \A x : Slot(ch2[m], <<"rootToChildToken", x>>) = Slot(ch[m], <<"rootToChildToken", x>>)
          /\ \A key \in DOMAIN ch2[m].slots : key[1] = "rootToChildToken" => key \in DOMAIN ch[m].slots
      BY <1>3, <2>1, <2>3, SetsOthers
    <3>10. ASSUME NEW t \in TokenType PROVE PredicateOK(ch2, m, t)
      <4>1. PredicateOK(ch, m, t)
        BY ManagerParts
      <4>2. CASE t = T
        BY <1>0, <3>3, <3>5, <4>2 DEF PredicateOK, KeepsRoles
      <4>3. CASE t # T
        BY <1>0, <3>8, <4>1, <4>3 DEF PredicateOK, KeepsRoles
      <4> QED
        BY <4>2, <4>3
    <3>11. KeysOK(ch2, m)
      <4>1. KeysOK(ch, m)
        BY ManagerParts
      <4> QED
        BY <1>0, <3>9, <4>1 DEF KeysOK
    <3>12. ASSUME NEW t \in TokenType, NEW r \in DOMAIN ch2 \cup {EtherAddress} PROVE TokenOK(ch2, m, t, r)
      <4>1. TokenOK(ch, m, t, r)
        BY <1>0, ManagerParts
      <4>2. ASSUME IsTokenOf(r, t), Slot(ch2[m], <<"rootToChildToken", r>>) # None
            PROVE  /\ PredicateOf(ch2, m, t) # None
                   /\ t = "MintableERC721" => <<"PREDICATE", PredicateOf(ch2, m, t)>> \in ch2[r].roles
        <5>1. /\ PredicateOf(ch, m, t) # None
              /\ t = "MintableERC721" => <<"PREDICATE", PredicateOf(ch, m, t)>> \in ch[r].roles
          BY <3>9, <4>1, <4>2 DEF TokenOK
        <5>2. PredicateOf(ch2, m, t) = PredicateOf(ch, m, t)
          BY <3>5, <3>6, <3>8, <5>1
        <5>3. t = "MintableERC721" => ch[r].roles \subseteq ch2[r].roles
          <6>1. t = "MintableERC721" => r \in DOMAIN ch /\ r # m
            BY <1>0, <1>3, <4>2, MintableToken, NamesIn DEF FiledRoot
          <6> QED
            BY <1>0, <1>3, <6>1, ActsSets
        <5> QED
          BY <5>1, <5>2, <5>3
      <4> QED
        BY <4>2 DEF TokenOK
    <3> QED
      BY <3>10, <3>11, <3>12, ManagerParts
  <2>4. CASE k \in 15..19
    <3> DEFINE T == InitType(k)
               R == RootAtOf(T, book)
               P == book.root[PredicateProxy(T)]
    <3>1. T \in TokenType /\ R \in DOMAIN ch \cup {EtherAddress} /\ \A s \in TokenType : IsTokenOf(R, s) => s = T
      BY <2>4, InitTypes, RootAtIs
    <3>2. PredicateOf(ch, m, T) # None
      BY <1>3, <2>4, ActsSets DEF RootMaps, ManagerIn, PredicateOf
    <3>3. PredicateOf(ch, m, T) = P
      BY <1>3, <3>1, <3>2 DEF RegisteredIn, PredicateOf, ManagerIn
    <3>4. T = "MintableERC721" => <<"PREDICATE", P>> \in ch[R].roles
      <4>1. 9 \in 1..(k - 1) /\ 9 \in 1..19
        BY <2>4
      <4>2. Took(9, book, ch)
        BY <4>1 DEF TookUpTo
      <4>3. /\ InitName(9) = RootToken("MintableERC721")
            /\ InitArgs(9, book) = <<"PREDICATE", book.root[PredicateProxy("MintableERC721")]>>
        BY <4>1, InitIs
      <4>4. <<"PREDICATE", book.root[PredicateProxy("MintableERC721")]>> \in ch[book.root[RootToken("MintableERC721")]].roles
        BY <4>2, <4>3 DEF Took
      <4>5. HasRootToken("MintableERC721")
        BY DEF HasRootToken
      <4> QED
        BY <4>4, <4>5 DEF RootAtOf
    <3> HIDE DEF P, R
    <3>5. \A t : PredicateOf(ch2, m, t) = PredicateOf(ch, m, t)
      <4>1. k \notin 10..14
        BY <2>4
      <4>2. \A t : Slot(ch2[m], <<"typeToPredicate", t>>) = Slot(ch[m], <<"typeToPredicate", t>>)
        <5>1. \A t : k \notin 10..14 \/ t # InitType(k)
                       => Slot(ch2[m], <<"typeToPredicate", t>>) = Slot(ch[m], <<"typeToPredicate", t>>)
          BY <1>3, <2>1, SetsOthers
        <5> QED
          BY ONLY <4>1, <5>1
      <4> QED
        BY <4>2 DEF PredicateOf
    <3>6. /\ \A x : x # R => Slot(ch2[m], <<"rootToChildToken", x>>) = Slot(ch[m], <<"rootToChildToken", x>>)
          /\ \A key \in DOMAIN ch2[m].slots : key[1] = "rootToChildToken" =>
               key \in DOMAIN ch[m].slots \/ key[2] = R
      BY <1>3, <2>1, SetsOthers DEF R
    <3> HIDE DEF T
    <3>7. ASSUME NEW t \in TokenType PROVE PredicateOK(ch2, m, t)
      <4>1. PredicateOK(ch, m, t)
        BY ManagerParts
      <4> QED
        BY <1>0, <3>5, <4>1 DEF PredicateOK, KeepsRoles
    <3>8. KeysOK(ch2, m)
      <4>1. KeysOK(ch, m)
        BY ManagerParts
      <4> QED
        BY <1>0, <3>1, <3>6, <4>1 DEF KeysOK
    <3>9. ASSUME NEW t \in TokenType, NEW r \in DOMAIN ch2 \cup {EtherAddress} PROVE TokenOK(ch2, m, t, r)
      <4>1. TokenOK(ch, m, t, r)
        BY <1>0, ManagerParts
      <4>2. ASSUME IsTokenOf(r, t), Slot(ch2[m], <<"rootToChildToken", r>>) # None
            PROVE  /\ PredicateOf(ch, m, t) # None
                   /\ t = "MintableERC721" => <<"PREDICATE", PredicateOf(ch, m, t)>> \in ch2[r].roles
        <5>1. /\ PredicateOf(ch, m, t) # None
              /\ t = "MintableERC721" => <<"PREDICATE", PredicateOf(ch, m, t)>> \in ch[r].roles
          <6>1. CASE r # R
            BY <3>6, <4>1, <4>2, <6>1 DEF TokenOK
          <6>2. CASE r = R
            BY <3>1, <3>2, <3>3, <3>4, <4>2, <6>2
          <6> QED
            BY <6>1, <6>2
        <5>3. t = "MintableERC721" => ch[r].roles \subseteq ch2[r].roles
          <6>1. t = "MintableERC721" => r \in DOMAIN ch /\ r # m
            BY <1>0, <1>3, <4>2, MintableToken, NamesIn DEF FiledRoot
          <6> QED
            BY <1>0, <1>3, <6>1, ActsSets
        <5> QED
          BY <5>1, <5>3
      <4> QED
        BY <3>5, <4>2 DEF TokenOK
    <3> QED
      BY <3>7, <3>8, <3>9, ManagerParts
  <2> QED
    BY <2>2, <2>3, <2>4
<1> QED
  BY <1>1, <1>2, <1>3

\* A call that leaves the settings and the roles but the admin's alone, or gives
\* a proxy its first code.
GentleStep(step, book) ==
  \/ step.op = "new"
  \/ step.method = "updateAndCall" /\ step.at[2] \in Proxies
  \/ step.method \in {"transferProxyOwnership", "grantRole"}
  \/ step.method = "revokeRole" /\ ResolveAll(step.args, book)[1] = "DEFAULT_ADMIN"

\* Such a call takes nothing from the portal.
LEMMA GentleSends ==
  ASSUME NEW ch, ChainsOK(ch), NEW ch2, NEW step, NEW book, Sent(ch, ch2, step, book), GentleStep(step, book),
         NEW side \in Sides, step.at[1] = side
  PROVE  Gentle(ch[side], ch2[side])
<1>1. ASSUME NEW a \in DOMAIN ch[side]
      PROVE  /\ a \in DOMAIN ch2[side] /\ ch2[side][a].slots = ch[side][a].slots
             /\ ch[side][a].inited => ch2[side][a].inited
             /\ (a[1] \in Proxies => ch[side][a].inited)
                  => \A role \in ch[side][a].roles : role[1] # "DEFAULT_ADMIN" => role \in ch2[side][a].roles
  <2> DEFINE c == ch[side][a]  r == ch2[side][a]
  <2>1. a \in DOMAIN ch2[side] /\ (r = c \/ Changed(ch, ch2, step, book, a))
    BY SentAt
  <2>2. CASE Changed(ch, ch2, step, book, a)
    <3> DEFINE args == ResolveAll(step.args, book)
    <3>1. /\ IsResult(r, a[1], c, step.method, args) /\ step.op # "new" /\ a[1] = step.at[2]
          /\ Passes(c, step.method, args)
      BY <2>2 DEF Changed
    <3>2. c.inited \in BOOLEAN
      BY DEF ChainsOK, ChainOK, ContractOK
    <3>3. /\ step.method \in {"updateAndCall", "transferProxyOwnership", "grantRole", "revokeRole"}
          /\ step.method = "updateAndCall" => a[1] \in Proxies
          /\ step.method = "revokeRole" => args[1] = "DEFAULT_ADMIN"
      BY <3>1 DEF GentleStep
    <3> HIDE DEF c, r, args
    <3>4. r.slots = c.slots
      BY <3>1, <3>3 DEF IsResult
    <3>5. CASE step.method = "updateAndCall"
      <4>1. ~c.inited
        BY <3>1, <3>5 DEF Passes
      <4> QED
        BY <2>1, <3>3, <3>4, <3>5, <4>1 DEF c, r
    <3>6. CASE step.method # "updateAndCall"
      <4>1. r.inited = c.inited
        BY <3>1, <3>2, <3>6 DEF IsResult
      <4>2. \A role \in c.roles : role[1] # "DEFAULT_ADMIN" => role \in r.roles
        BY <3>1, <3>3, <3>6 DEF IsResult
      <4> QED
        BY <2>1, <3>4, <4>1, <4>2 DEF c, r
    <3> QED
      BY <3>5, <3>6
  <2> QED
    BY <2>1, <2>2
<1>2. ASSUME NEW a \in DOMAIN ch2[side], a \notin DOMAIN ch[side] PROVE ch2[side][a].slots = << >>
  <2>1. Added(ch, ch2, step, book, a)
    BY <1>2, SentAt
  <2>2. PICK args : ch2[side][a] = Constructed(a[1], args)
    BY <2>1 DEF Added
  <2> QED
    BY <2>2 DEF Constructed
<1> QED
  BY <1>1, <1>2 DEF Gentle, KeepsRoles

\* What no one sends anything to stays.
LEMMA GentleStays == ASSUME NEW ch PROVE Gentle(ch, ch)
BY DEF Gentle, KeepsRoles

-----------------------------------------------------------------------------
\* The arguments of the k-th initialization, as the script has them.
InitRefs(k) ==
  CASE k = 1 -> <<Root(StateSender)>>
    [] k = 2 -> <<Child(ChildManagerProxy)>>
    [] k = 3 -> <<Value(PlasmaRootChain)>>
    [] k \in 4..8   -> <<Value("MANAGER"), Root(RootManagerProxy)>>
    [] k = 9        -> <<Value("PREDICATE"), Root(PredicateProxy("MintableERC721"))>>
    [] k \in 10..14 -> <<Value(InitType(k)), Root(PredicateProxy(InitType(k)))>>
    [] k \in 15..19 -> <<RootTokenOf(InitType(k)), Child(ChildToken(InitType(k))), Value(InitType(k))>>

\* The k-th initialization of the scripts.
LEMMA InitStepIs ==
  ASSUME NEW k \in 1..19
  PROVE  RootInitializations[k] = Call(Root(InitName(k)), InitMethod(k), InitRefs(k))
<1>1. CASE k \in {1, 2, 3}
  <2>1. RootInitializations[k] = ManagerSettings[k]
    BY <1>1, InitsAt
  <2>2. /\ k = 1 => ManagerSettings[k] = Call(Root(RootManagerProxy), "setStateSender", <<Root(StateSender)>>)
        /\ k = 2 => ManagerSettings[k]
                      = Call(Root(RootManagerProxy), "setChildChainManagerAddress", <<Child(ChildManagerProxy)>>)
        /\ k = 3 => ManagerSettings[k]
                      = Call(Root(RootManagerProxy), "setCheckpointManager", <<Value(PlasmaRootChain)>>)
    BY DEF ManagerSettings
  <2>3. InitName(k) = RootManagerProxy
    BY <1>1 DEF InitName
  <2>4. /\ k = 1 => InitMethod(k) = "setStateSender" /\ InitRefs(k) = <<Root(StateSender)>>
        /\ k = 2 => InitMethod(k) = "setChildChainManagerAddress" /\ InitRefs(k) = <<Child(ChildManagerProxy)>>
        /\ k = 3 => InitMethod(k) = "setCheckpointManager" /\ InitRefs(k) = <<Value(PlasmaRootChain)>>
    BY DEF InitMethod, InitRefs
  <2> QED
    BY <1>1, <2>1, <2>2, <2>3, <2>4
<1>2. CASE k \in 4..8
  <2>1. k - 3 \in 1..5 /\ 3 + (k - 3) = k /\ InitType(k) = TypeList[k - 3]
    BY <1>2, InitTypes
  <2>2. RootInitializations[k] = GrantManager(InitType(k))
    BY <2>1, InitsAt
  <2>3. InitName(k) = PredicateProxy(InitType(k))
    BY <1>2 DEF InitName
  <2>4. InitMethod(k) = "grantRole"
    BY <1>2 DEF InitMethod
  <2>5. InitRefs(k) = <<Value("MANAGER"), Root(RootManagerProxy)>>
    BY <1>2 DEF InitRefs
  <2> QED
    BY <2>2, <2>3, <2>4, <2>5 DEF GrantManager
<1>3. CASE k = 9
  <2>1. RootInitializations[k] = GrantPredicate
    BY <1>3, InitsAt
  <2>2. InitName(k) = RootToken("MintableERC721")
    BY <1>3 DEF InitName
  <2>3. InitMethod(k) = "grantRole"
    BY <1>3 DEF InitMethod
  <2>4. InitRefs(k) = <<Value("PREDICATE"), Root(PredicateProxy("MintableERC721"))>>
    BY <1>3 DEF InitRefs
  <2> QED
    BY <2>1, <2>2, <2>3, <2>4 DEF GrantPredicate
<1>4. CASE k \in 10..14
  <2>1. k - 9 \in 1..5 /\ 9 + (k - 9) = k /\ InitType(k) = TypeList[k - 9]
    BY <1>4, InitTypes
  <2>2. RootInitializations[k] = Register(InitType(k))
    BY <2>1, InitsAt
  <2>3. InitName(k) = RootManagerProxy
    BY <1>4 DEF InitName
  <2>4. InitMethod(k) = "registerPredicate"
    BY <1>4 DEF InitMethod
  <2>5. InitRefs(k) = <<Value(InitType(k)), Root(PredicateProxy(InitType(k)))>>
    BY <1>4 DEF InitRefs
  <2> QED
    BY <2>2, <2>3, <2>4, <2>5 DEF Register
<1>5. CASE k \in 15..19
  <2>1. k - 14 \in 1..5 /\ 14 + (k - 14) = k /\ InitType(k) = TypeList[k - 14]
    BY <1>5, InitTypes
  <2>2. RootInitializations[k] = MapOf(InitType(k))
    BY <2>1, InitsAt
  <2>3. InitName(k) = RootManagerProxy
    BY <1>5 DEF InitName
  <2>4. InitMethod(k) = "mapRootToken"
    BY <1>5 DEF InitMethod
  <2>5. InitRefs(k) = <<RootTokenOf(InitType(k)), Child(ChildToken(InitType(k))), Value(InitType(k))>>
    BY <1>5 DEF InitRefs
  <2> QED
    BY <2>2, <2>3, <2>4, <2>5 DEF MapOf
<1> QED
  BY <1>1, <1>2, <1>3, <1>4, <1>5, InitTypes

\* What the arguments of a call resolve to.
LEMMA ResolvedOne ==
  ASSUME NEW book, NEW a, NEW x, Resolve(a, book) = x PROVE ResolveAll(<<a>>, book) = <<x>>
BY DEF ResolveAll

\* What two arguments of a call resolve to.
LEMMA ResolvedTwo ==
  ASSUME NEW book, NEW a, NEW b, NEW x, NEW y, Resolve(a, book) = x, Resolve(b, book) = y
  PROVE  ResolveAll(<<a, b>>, book) = <<x, y>>
BY DEF ResolveAll

\* What three arguments of a call resolve to.
LEMMA ResolvedThree ==
  ASSUME NEW book, NEW a, NEW b, NEW c, NEW x, NEW y, NEW z,
         Resolve(a, book) = x, Resolve(b, book) = y, Resolve(c, book) = z
  PROVE  ResolveAll(<<a, b, c>>, book) = <<x, y, z>>
BY DEF ResolveAll

\* A book that has an address finds it.
LEMMA RefIs ==
  ASSUME NEW book
  PROVE  /\ \A name \in DOMAIN book.root : Resolve(Root(name), book) = book.root[name]
         /\ \A name \in DOMAIN book.child : Resolve(Child(name), book) = book.child[name]
         /\ \A v : Resolve(Value(v), book) = v
<1>1. /\ \A name : Root(name)[1] = "root" /\ Root(name)[2] = name
      /\ \A name : Child(name)[1] = "child" /\ Child(name)[2] = name
      /\ \A v : Value(v)[1] = "value" /\ Value(v)[2] = v
  BY DEF Root, Child, Value
<1>2. \A name \in DOMAIN book.root : Resolve(Root(name), book) = book.root[name]
  BY <1>1 DEF Resolve, Lookup
<1>3. \A name \in DOMAIN book.child : Resolve(Child(name), book) = book.child[name]
  BY <1>1 DEF Resolve, Lookup
<1>4. \A v : Resolve(Value(v), book) = v
  BY <1>1 DEF Resolve
<1> QED
  BY <1>2, <1>3, <1>4

\* With the addresses of a complete file an initialization is called with the
\* arguments that it should have.
LEMMA InitRefsResolve ==
  ASSUME NEW k \in 1..19, NEW book, NEW ch, NEW chc, FiledRoot(book, ch), FiledChild(book, chc)
  PROVE  ResolveAll(InitRefs(k), book) = InitArgs(k, book)
<1>1. /\ \A name \in RootNames : Resolve(Root(name), book) = book.root[name]
      /\ \A name \in ChildNames : Resolve(Child(name), book) = book.child[name]
      /\ \A v : Resolve(Value(v), book) = v
  <2>1. RootNames \subseteq DOMAIN book.root /\ ChildNames \subseteq DOMAIN book.child
    BY DEF FiledRoot, FiledChild
  <2> QED
    BY <2>1, RefIs
<1>2. \A t \in TokenType : Resolve(RootTokenOf(t), book) = RootAtOf(t, book)
  BY <1>1, NamesIn DEF RootTokenOf, RootAtOf
<1>3. CASE k = 1
  <2>1. InitRefs(k) = <<Root(StateSender)>> /\ InitArgs(k, book) = <<book.root[StateSender]>>
    BY <1>3, InitIs DEF InitRefs
  <2>2. Resolve(Root(StateSender), book) = book.root[StateSender]
    BY <1>1, NamesIn
  <2> QED
    BY <2>1, <2>2, ResolvedOne
<1>4. CASE k = 2
  <2>1. InitRefs(k) = <<Child(ChildManagerProxy)>> /\ InitArgs(k, book) = <<book.child[ChildManagerProxy]>>
    BY <1>4, InitIs DEF InitRefs
  <2>2. Resolve(Child(ChildManagerProxy), book) = book.child[ChildManagerProxy]
    BY <1>1, NamesIn
  <2> QED
    BY <2>1, <2>2, ResolvedOne
<1>5. CASE k = 3
  <2>1. InitRefs(k) = <<Value(PlasmaRootChain)>> /\ InitArgs(k, book) = <<PlasmaRootChain>>
    BY <1>5, InitIs DEF InitRefs
  <2> QED
    BY <1>1, <2>1, ResolvedOne
<1>6. CASE k \in 4..8
  <2>1. InitRefs(k) = <<Value("MANAGER"), Root(RootManagerProxy)>>
    BY <1>6 DEF InitRefs
  <2>2. InitArgs(k, book) = <<"MANAGER", book.root[RootManagerProxy]>>
    BY <1>6, InitIs
  <2>3. Resolve(Root(RootManagerProxy), book) = book.root[RootManagerProxy]
    BY <1>1, NamesIn
  <2>4. Resolve(Value("MANAGER"), book) = "MANAGER"
    BY <1>1
  <2> QED
    BY <2>1, <2>2, <2>3, <2>4, ResolvedTwo
<1>7. CASE k = 9
  <2>1. InitRefs(k) = <<Value("PREDICATE"), Root(PredicateProxy("MintableERC721"))>>
    BY <1>7 DEF InitRefs
  <2>2. InitArgs(k, book) = <<"PREDICATE", book.root[PredicateProxy("MintableERC721")]>>
    BY <1>7, InitIs
  <2>3. Resolve(Root(PredicateProxy("MintableERC721")), book) = book.root[PredicateProxy("MintableERC721")]
    BY <1>1, NamesIn
  <2>4. Resolve(Value("PREDICATE"), book) = "PREDICATE"
    BY <1>1
  <2> QED
    BY <2>1, <2>2, <2>3, <2>4, ResolvedTwo
<1>8. CASE k \in 10..14
  <2>0. InitType(k) \in TokenType
    BY <1>8, InitTypes
  <2>1. InitRefs(k) = <<Value(InitType(k)), Root(PredicateProxy(InitType(k)))>>
    BY <1>8 DEF InitRefs
  <2>2. InitArgs(k, book) = <<InitType(k), book.root[PredicateProxy(InitType(k))]>>
    BY <1>8, InitIs
  <2>3. Resolve(Root(PredicateProxy(InitType(k))), book) = book.root[PredicateProxy(InitType(k))]
    BY <1>1, <2>0, NamesIn
  <2>4. Resolve(Value(InitType(k)), book) = InitType(k)
    BY <1>1
  <2> QED
    BY <2>1, <2>2, <2>3, <2>4, ResolvedTwo
<1>9. CASE k \in 15..19
  <2>0. InitType(k) \in TokenType
    BY <1>9, InitTypes
  <2>1. InitRefs(k) = <<RootTokenOf(InitType(k)), Child(ChildToken(InitType(k))), Value(InitType(k))>>
    BY <1>9 DEF InitRefs
  <2>2. InitArgs(k, book) = <<RootAtOf(InitType(k), book), book.child[ChildToken(InitType(k))], InitType(k)>>
    BY <1>9, InitIs
  <2>3. Resolve(RootTokenOf(InitType(k)), book) = RootAtOf(InitType(k), book)
    BY <1>2, <2>0
  <2>4. Resolve(Child(ChildToken(InitType(k))), book) = book.child[ChildToken(InitType(k))]
    BY <1>1, <2>0, NamesIn
  <2>5. Resolve(Value(InitType(k)), book) = InitType(k)
    BY <1>1
  <2> QED
    BY <2>1, <2>2, <2>3, <2>4, <2>5, ResolvedThree
<1> QED
  BY <1>3, <1>4, <1>5, <1>6, <1>7, <1>8, <1>9, InitTypes

\* The worker's book has the file's addresses.
Shares(book, filed) ==
  \A name \in RootNames : name \in DOMAIN book.root /\ book.root[name] = filed.root[name]

\* A reference of an initialization.
RefOK(ref) == ref[1] \in {"root", "child", "value"} /\ (ref[1] = "root" => ref[2] \in RootNames)

\* The arguments of an initialization are names of contracts, or values.
LEMMA InitRefsOK ==
  ASSUME NEW k \in 1..19, NEW i \in DOMAIN InitRefs(k) PROVE RefOK(InitRefs(k)[i])
<1>1. /\ \A v : RefOK(Value(v))
      /\ \A name : RefOK(Child(name))
      /\ \A name \in RootNames : RefOK(Root(name))
  BY DEF RefOK, Value, Child, Root
<1>2. \A t \in TokenType : RefOK(RootTokenOf(t)) /\ PredicateProxy(t) \in RootNames
  BY <1>1, NamesIn DEF RootTokenOf
<1>3. RootManagerProxy \in RootNames /\ StateSender \in RootNames /\ "MintableERC721" \in TokenType
  BY NamesIn
<1>4. k \in 10..14 \cup 15..19 => InitType(k) \in TokenType
  BY InitTypes
<1>5. CASE k \in {1, 2, 3}
  BY <1>1, <1>3, <1>5 DEF InitRefs
<1>6. CASE k \in 4..8
  <2>1. InitRefs(k) = <<Value("MANAGER"), Root(RootManagerProxy)>>
    BY <1>6 DEF InitRefs
  <2> QED
    BY <1>1, <1>3, <2>1
<1>7. CASE k = 9
  <2>1. InitRefs(k) = <<Value("PREDICATE"), Root(PredicateProxy("MintableERC721"))>>
    BY <1>7 DEF InitRefs
  <2> QED
    BY <1>1, <1>2, <1>3, <2>1
<1>8. CASE k \in 10..14
  <2>1. InitRefs(k) = <<Value(InitType(k)), Root(PredicateProxy(InitType(k)))>>
    BY <1>8 DEF InitRefs
  <2> QED
    BY <1>1, <1>2, <1>4, <1>8, <2>1
<1>9. CASE k \in 15..19
  <2>1. InitRefs(k) = <<RootTokenOf(InitType(k)), Child(ChildToken(InitType(k))), Value(InitType(k))>>
    BY <1>9 DEF InitRefs
  <2> QED
    BY <1>1, <1>2, <1>4, <1>9, <2>1
<1> QED
  BY <1>5, <1>6, <1>7, <1>8, <1>9, InitTypes

\* An initialization that was queued has the arguments that it had when it was,
\* if the worker's book has the file's addresses.
LEMMA FixedResolves ==
  ASSUME NEW k \in 1..19, NEW book, NEW filed, Shares(book, filed), RootNames \subseteq DOMAIN filed.root
  PROVE  LET f == FixedStep(RootInitializations[k], filed)
         IN  /\ f.at = Root(InitName(k)) /\ f.method = InitMethod(k) /\ f.op = "call"
             /\ ResolveAll(f.args, book) = ResolveAll(InitRefs(k), filed)
<1> DEFINE s == RootInitializations[k]
           f == FixedStep(s, filed)
           refs == InitRefs(k)
<1>1. s = Call(Root(InitName(k)), InitMethod(k), refs)
  BY InitStepIs
<1>2. s.at = Root(InitName(k)) /\ s.method = InitMethod(k) /\ s.args = refs
  BY <1>1 DEF Call
<1>3. s \in RootInits
  <2>1. Listed(RootInitializations, 19, RootInits)
    BY InitsAt DEF Listed
  <2>2. \A i \in 1..19 : RootInitializations[i] \in RootInits
    BY <2>1, ListedAt
  <2> QED
    BY <2>2
<1>4. /\ f.op = "call" /\ f.at = s.at /\ f.method = s.method /\ DOMAIN f.args = DOMAIN s.args
      /\ \A i \in DOMAIN s.args : f.args[i] = Fixed(s.args[i], filed)
  BY <1>3, FixedOK
<1>5. \A i \in DOMAIN refs : RefOK(refs[i])
  BY InitRefsOK
<1> HIDE DEF f, s, refs
<1>6. ASSUME NEW ref, RefOK(ref) PROVE Resolve(Fixed(ref, filed), book) = Resolve(ref, filed)
  <2>1. CASE ref[1] = "child"
    <3>1. Fixed(ref, filed) = Value(Resolve(ref, filed))
      BY <2>1 DEF Fixed
    <3> QED
      BY <3>1, RefIs
  <2>2. CASE ref[1] = "root"
    <3>1. Fixed(ref, filed) = ref /\ ref[2] \in RootNames
      BY <1>6, <2>2 DEF Fixed, RefOK
    <3>2. Lookup(book["root"], ref[2]) = Lookup(filed["root"], ref[2])
      BY <3>1 DEF Shares, Lookup
    <3> QED
      BY <2>2, <3>1, <3>2 DEF Resolve
  <2>3. CASE ref[1] = "value"
    BY <2>3 DEF Fixed, Resolve
  <2> QED
    BY <1>6, <2>1, <2>2, <2>3 DEF RefOK
<1>7. \A i \in DOMAIN refs : Resolve(f.args[i], book) = Resolve(refs[i], filed)
  BY <1>2, <1>4, <1>5, <1>6
<1>8. ResolveAll(f.args, book) = ResolveAll(refs, filed)
  BY <1>2, <1>4, <1>7 DEF ResolveAll
<1> QED
  BY <1>2, <1>4, <1>8 DEF f, s, refs

\* A transaction of an initialization does what it is for.
LEMMA InitSends ==
  ASSUME NEW ch, NEW ch2, NEW step, NEW book, Sent(ch, ch2, step, book), NEW filed, NEW k \in 1..19,
         FiledRoot(filed, ch.root), step.op = "call", step.at = Root(InitName(k)), step.method = InitMethod(k),
         ResolveAll(step.args, book) = InitArgs(k, filed),
         book.root[InitName(k)] = filed.root[InitName(k)]
  PROVE  Acts(k, filed, ch.root, ch2.root)
<1> DEFINE a == filed.root[InitName(k)]
<1>1. step.at[1] = "root" /\ step.at[2] = InitName(k)
  BY DEF Root
<1>2. /\ Resolve(step.at, book) = book["root"][InitName(k)]
      /\ a \in DOMAIN ch["root"] /\ a[1] = InitName(k)
      /\ Calls(ch["root"], ch2["root"], a, InitMethod(k), InitArgs(k, filed))
  BY <1>1 DEF Sent
<1>3. InitName(k) \in RootNames
  BY NamesIn, InitTypes DEF InitName
<1>4. Reaches(ch["root"], a, InitMethod(k))
  <2>1. InitName(k) \in Proxies => ch["root"][a].impl # None
    BY <1>3 DEF FiledRoot
  <2> QED
    BY <1>2, <2>1 DEF Reaches, Forwards
<1> HIDE DEF a
<1>5. /\ DOMAIN ch2["root"] = DOMAIN ch["root"]
      /\ \A b \in DOMAIN ch["root"] : b # a => ch2["root"][b] = ch["root"][b]
      /\ IsResult(ch2["root"][a], a[1], ch["root"][a], InitMethod(k), InitArgs(k, filed))
      /\ ch2["root"][a] = Result(a[1], ch["root"][a], InitMethod(k), InitArgs(k, filed))
      /\ Passes(ch["root"][a], InitMethod(k), InitArgs(k, filed))
  BY <1>2, <1>4 DEF Calls
<1> QED
  BY <1>2, <1>5 DEF Acts, a

\* What the file has, from the step of the runbook on after which it must have it.
LEMMA FiledNow ==
  ASSUME Inv1, FileReady
  PROVE  /\ next > RootFiled => FiledRoot(file, chain.root)
         /\ next > ChildFiled => FiledChild(file, chain.child)
<1>1. ASSUME NEW side \in Sides
      PROVE  /\ None \notin DOMAIN chain[side]
             /\ \A a \in DOMAIN chain[side] : /\ DOMAIN chain[side][a] = Fields /\ chain[side][a].inited \in BOOLEAN
                                              /\ chain[side][a].inited => chain[side][a].impl # None
  <2>1. ChainOK(chain[side]) /\ None \notin DOMAIN chain[side]
    BY ExternalAddresses DEF Inv1, ChainsOK, ChainOK
  <2> QED
    BY <2>1 DEF ChainOK, ContractOK
<1>2. ASSUME NEW side \in Sides, Complete(file, side), NEW name \in Names(side)
      PROVE  /\ name \in DOMAIN file[side] /\ file[side][name] \in DOMAIN chain[side] /\ file[side][name][1] = name
             /\ name \in Proxies => chain[side][file[side][name]].inited /\ chain[side][file[side][name]].impl # None
  <2>1. name \in DOMAIN file[side] /\ (name \in Proxies => chain[side][file[side][name]].inited)
    BY <1>2 DEF Complete
  <2>2. file[side][name] \in DOMAIN chain[side] /\ file[side][name][1] = name
    BY <2>1 DEF Inv1, BookOK
  <2> QED
    BY <1>1, <2>1, <2>2
<1>3. next > RootFiled => FiledRoot(file, chain.root)
  BY <1>1, <1>2 DEF FileReady, FiledRoot, Names, Sides
<1>4. next > ChildFiled => FiledChild(file, chain.child)
  BY <1>1, <1>2 DEF FileReady, FiledChild, Names, Sides
<1> QED
  BY <1>3, <1>4

\* After the addresses were extracted the worker's book is the file's.
LEMMA WorkerShares ==
  ASSUME Inv1, AllDeployed, RootFile, Moonwalker, next > 3 PROVE Shares(TaskBook, file)
<1>1. ASSUME NEW name \in RootNames
      PROVE  name \in DOMAIN TaskBook.root /\ TaskBook.root[name] = file.root[name]
  <2>1. PICK id \in 0..27 : IsNew(id) /\ NameAt(id) = name
    BY QueueDeploys
  <2>2. next > 2
    BY DEF Inv1, Control
  <2>3. id \in DOMAIN status /\ file.root[name] = status[id].address
    BY <2>1, <2>2 DEF AllDeployed, RootFile
  <2>4. name \in DOMAIN Extracted(status) /\ Extracted(status)[name] = status[id].address
    BY <2>1, <2>3, RecordedIs DEF Inv1
  <2> QED
    BY <2>3, <2>4 DEF TaskBook
<1> QED
  BY <1>1 DEF Shares

\* A migration that only calls: it does the next call, stays, or stops.
LEMMA CallsOnly ==
  ASSUME Inv1, [Next]_vars, NEW name \in {"migration4", "migration5"}, Runs(name)
  PROVE  /\ \/ script' = script /\ next' = next
            \/ script' = NoScript /\ next' = next
            \/ CallContract /\ Sent(chain, chain', Step, script.book) /\ script.book = file /\ file' = file
         /\ Step.op = "call" /\ script.pc \in 1..Length(name)
<1>1. script # NoScript /\ script.name = name /\ script.pc \in 1..Length(name)
  BY RunningIs DEF Runs
<1>2. Step.op = "call"
  <2>1. Step \in StepSet(name)
    BY <1>1, StepIn
  <2> QED
    BY <2>1, RootInitsOK, ChildInitsOK DEF StepSet
<1>3. script.book = file
  BY <1>1 DEF Inv1, ScriptOK, Readers
<1>4. ~DeployContract /\ ~TryCall /\ ~QueueTask /\ ~WriteFile /\ ~ExtractFile /\ ~TryFails
  BY <1>2 DEF DeployContract, TryCall, QueueTask, WriteFile, ExtractFile, TryFails, Running, Step
<1>5. ~StartScript /\ ~Restart
  BY <1>1 DEF StartScript, Restart
<1>6. CASE CallContract
  <2>1. file' = file /\ Sent(chain, chain', Step, script.book)
    BY <1>6, CallContractInv1 DEF CallContract
  <2> QED
    BY <1>1, <1>2, <1>3, <1>6, <2>1
<1>7. CASE CallReverts \/ InterruptScript
  BY <1>1, <1>2, <1>7 DEF CallReverts, InterruptScript
<1>8. CASE StartWorker \/ QueueProcessed
  BY <1>1, <1>8 DEF StartWorker, QueueProcessed
<1>9. CASE SendTask \/ SaveStatus \/ AckTask \/ InterruptWorker
  BY <1>1, <1>2, <1>9 DEF SendTask, SaveStatus, AckTask, InterruptWorker
<1>10. CASE UNCHANGED vars
  BY <1>1, <1>2, <1>10 DEF vars
<1> QED
  BY <1>4, <1>5, <1>6, <1>7, <1>8, <1>9, <1>10 DEF Next

\* A step that does the k-th initialization: of migration 4, or of the worker.
InitGoes(k) ==
  /\ Acts(k, file, chain.root, chain'.root)
  /\ file' = file /\ chain'.child = chain.child /\ next > ChildFiled /\ next > RootFiled
  /\ \/ Runs("migration4") /\ script.pc = k
     \/ Moonwalker /\ next \in {5, 6} /\ SendTask /\ worker' = "sent" /\ Task.id = 27 + k

\* The call of migration 4 does its initialization.
LEMMA MigrationInits ==
  ASSUME Inv1, FileReady, Runs("migration4"), Sent(chain, chain', Step, script.book), script.book = file,
         file' = file
  PROVE  script.pc \in 1..19 /\ InitGoes(script.pc)
<1> DEFINE k == script.pc
<1>1. /\ script # NoScript /\ script.name = "migration4" /\ k \in 1..19
      /\ script.name = Current /\ next <= Final
  BY RunningIs DEF Runs, Length
<1>2. next = 3 /\ Truffle /\ next > RootFiled /\ next > ChildFiled
  <2>1. Truffle /\ next = 3
    BY <1>1, CurrentIs DEF Inv1
  <2> QED
    BY <2>1 DEF RootFiled, ChildFiled
<1>3. FiledRoot(file, chain.root) /\ FiledChild(file, chain.child)
  BY <1>2, FiledNow
<1>4. Step = RootInitializations[k]
  BY <1>1 DEF Step, Steps, Migration4
<1>5. Step = Call(Root(InitName(k)), InitMethod(k), InitRefs(k))
  BY <1>1, <1>4, InitStepIs
<1>6. /\ Step.at = Root(InitName(k)) /\ Step.method = InitMethod(k) /\ Step.args = InitRefs(k)
      /\ Step.op = "call"
  BY <1>5 DEF Call
<1>7. ResolveAll(Step.args, file) = InitArgs(k, file)
  BY <1>1, <1>3, <1>6, InitRefsResolve
<1> HIDE DEF k
<1>8. Acts(k, file, chain.root, chain'.root)
  BY <1>1, <1>3, <1>6, <1>7, InitSends
<1>9. chain'.child = chain.child
  <2>1. Step.at[1] = "root"
    BY <1>6 DEF Root
  <2> QED
    BY <2>1 DEF Sent, Sides
<1> QED
  BY <1>1, <1>2, <1>8, <1>9 DEF InitGoes, k

\* So does the worker's.
LEMMA WorkerInits ==
  ASSUME Inv1, Inv2, WorkerTransacts, next \in {5, 6}
  PROVE  Task.id - 27 \in 1..19 /\ InitGoes(Task.id - 27)
<1> DEFINE k == Task.id - 27
<1>1. /\ Moonwalker /\ SendTask /\ worker' = "sent" /\ Sent(chain, chain', Task.step, TaskBook)
      /\ Task.id \in 28..46 /\ Task.step = FixedStep(RootInitializations[Task.id - 27], file)
  BY DEF WorkerTransacts, TaskOK
<1>2. k \in 1..19 /\ Task.id = 27 + k /\ Task.step = FixedStep(RootInitializations[k], file)
  BY <1>1
<1>3. next > RootFiled /\ next > ChildFiled /\ next > 3
  BY <1>1 DEF RootFiled, ChildFiled, Moonwalker, Truffle
<1>4. FiledRoot(file, chain.root) /\ FiledChild(file, chain.child)
  BY <1>3, FiledNow DEF Inv2
<1>5. Shares(TaskBook, file)
  BY <1>1, <1>3, WorkerShares DEF Inv2, DeploymentsQueued
<1>6. RootNames \subseteq DOMAIN file.root
  BY <1>4 DEF FiledRoot
<1> HIDE DEF k
<1>7. /\ Task.step.at = Root(InitName(k)) /\ Task.step.method = InitMethod(k) /\ Task.step.op = "call"
      /\ ResolveAll(Task.step.args, TaskBook) = ResolveAll(InitRefs(k), file)
  BY <1>2, <1>5, <1>6, FixedResolves
<1>8. ResolveAll(Task.step.args, TaskBook) = InitArgs(k, file)
  BY <1>2, <1>4, <1>7, InitRefsResolve
<1>9. TaskBook.root[InitName(k)] = file.root[InitName(k)]
  <2>1. InitName(k) \in RootNames
    BY <1>2, NamesIn, InitTypes DEF InitName
  <2> QED
    BY <1>5, <2>1 DEF Shares
<1>10. Acts(k, file, chain.root, chain'.root)
  BY <1>1, <1>2, <1>4, <1>7, <1>8, <1>9, InitSends
<1>11. chain'.child = chain.child /\ file' = file
  <2>1. Task.step.at[1] = "root"
    BY <1>7 DEF Root
  <2> QED
    BY <1>1, <2>1 DEF Sent, Sides, SendTask
<1> QED
  BY <1>1, <1>2, <1>3, <1>10, <1>11 DEF InitGoes, k

\* A deployment, or the code that a proxy gets, is gentle.
LEMMA DeploysGently ==
  ASSUME NEW s \in RootDeploys \cup LibraryDeploys, NEW book PROVE GentleStep(s, book)
BY DeployCalls, RootDeploysOK, LibraryDeploysOK DEF GentleStep

\* So is a step of a change of owners.
LEMMA OwnersGently ==
  ASSUME Inv1, NEW side \in Sides, ChangesOwners(side) PROVE GentleStep(Step, script.book)
<1>1. PICK k \in 1..OwnerCount(side) : GivesAway(Step, side, Owners[side][k])
  BY OwnersStepIs
<1> DEFINE name == Owners[side][k]
<1>2. Step \in {TransferOf(side, name), GrantOf(side, name), RevokeOf(side, name)}
  BY <1>1 DEF GivesAway
<1> HIDE DEF name
<1>3. Step.method \in {"transferProxyOwnership", "grantRole"}
        \/ (Step.method = "revokeRole" /\ ResolveAll(Step.args, script.book) = <<"DEFAULT_ADMIN", Deployer>>)
  BY <1>2, OwnerCalls
<1> QED
  BY <1>3 DEF GentleStep

\* What changes the contracts of the root chain: an initialization, or a step that
\* takes nothing from them.
LEMMA RootGoes ==
  ASSUME Inv1, Inv2, [Next]_vars
  PROVE  Gentle(chain.root, chain'.root) \/ \E k \in 1..19 : InitGoes(k)
<1>0. ChainsOK(chain) /\ "root" \in Sides
  BY DEF Inv1, Sides
<1>1. CASE chain'.root = chain.root
  BY <1>1, GentleStays
<1>2. CASE ScriptTransacts /\ chain'.root # chain.root
  <2>1. /\ script # NoScript /\ Sent(chain, chain', Step, script.book) /\ file' = file
        /\ KindOK(script.name, script.pc, Step) /\ script.name \in ScriptNames
        /\ Step \in StepSet(script.name)
    BY <1>2, RunningIs, StepIn DEF ScriptTransacts
  <2>2. Step.at[1] = "root" /\ Step.op \in {"new", "call", "try"}
    BY <1>2 DEF ScriptTransacts, Sent, Sides
  <2>3. GentleStep(Step, script.book) => Gentle(chain.root, chain'.root)
    BY <1>0, <2>1, <2>2, GentleSends
  <2>4. CASE Step.op = "new"
    BY <2>3, <2>4 DEF GentleStep
  <2>5. CASE Step.op = "call" /\ script.name = "migration2"
    <3>1. Step \in RootDeploys
      BY <2>1, <2>5 DEF StepSet, WriteAddresses
    <3> QED
      BY <2>3, <3>1, DeploysGently
  <2>6. CASE Step.op = "call" /\ script.name = "migration4"
    <3>1. Runs("migration4") /\ script.book = file
      BY <2>1, <2>6 DEF Runs, Inv1, ScriptOK, Readers
    <3> QED
      BY <2>1, <3>1, MigrationInits DEF Inv2
  <2>7. CASE Step.op = "try"
    <3>1. ChangesOwners("root")
      BY <2>1, <2>2, <2>7, OwnersAre DEF KindOK, ChangesOwners, Sides
    <3> QED
      BY <1>0, <2>3, <3>1, OwnersGently
  <2> QED
    BY <2>1, <2>2, <2>4, <2>5, <2>6, <2>7 DEF KindOK
<1>3. CASE WorkerTransacts
  <2>1. TaskOK /\ next # 1 /\ Sent(chain, chain', Task.step, TaskBook)
    BY <1>3 DEF WorkerTransacts
  <2>2. CASE next \in {5, 6}
    BY <1>3, <2>2, WorkerInits
  <2>3. CASE next \in {1, 2}
    <3>1. Task.id + 1 \in 1..28 /\ Task.step = QueuedDeployments[Task.id + 1] /\ Task.step.at[1] = "root"
      BY <2>1, <2>3 DEF TaskOK
    <3>2. \A i \in 1..28 : QueuedDeployments[i] \in RootDeploys \cup LibraryDeploys
      BY QueuedAt, ListedAt
    <3>3. Task.step \in RootDeploys \cup LibraryDeploys
      BY <3>1, <3>2
    <3>4. GentleStep(Task.step, TaskBook)
      BY <3>3, DeploysGently
    <3> QED
      BY <1>0, <2>1, <3>1, <3>4, GentleSends
  <2> QED
    BY <2>1, <2>2, <2>3 DEF TaskOK
<1> QED
  BY <1>1, <1>2, <1>3, ChainGoes DEF ChainMoves

\* Once the child chain's addresses are in the file it is not written any more.
LEMMA FileStays ==
  ASSUME Inv1, [Next]_vars, next > ChildFiled PROVE file' = file
<1>1. CASE WriteFile
  <2>1. (Truffle /\ next = 1) \/ next = (IF Truffle THEN 2 ELSE 4)
    BY <1>1, WriteIs
  <2> QED
    BY <2>1 DEF ChildFiled
<1>2. CASE ExtractFile
  <2>1. Moonwalker /\ next = 3
    BY <1>2, ExtractFileInv1
  <2> QED
    BY <2>1 DEF ChildFiled, Moonwalker, Truffle
<1> QED
  BY <1>1, <1>2, FileGoes

\* From the root chain's addresses on those in the file stay.
LEMMA RootAddressesStay ==
  ASSUME Inv1, MigrationOK, [Next]_vars, next > RootFiled
  PROVE  \A name \in DOMAIN file.root : name \in DOMAIN file'.root /\ file'.root[name] = file.root[name]
<1>1. CASE WriteFile
  <2>1. /\ script # NoScript /\ IsOver(file'.root, script.book.root, file.root)
        /\ (Truffle /\ next = 1) \/ script.name = "migration3"
    BY <1>1, WriteIs
  <2>2. script.name = "migration3"
    BY <2>1 DEF RootFiled
  <2>3. DOMAIN script.book.root = {}
    BY <2>1, <2>2 DEF MigrationOK, Runs
  <2> QED
    BY <2>1, <2>3 DEF IsOver
<1>2. CASE ExtractFile
  <2>1. Moonwalker /\ next = 3
    BY <1>2, ExtractFileInv1
  <2> QED
    BY <2>1 DEF RootFiled, Moonwalker, Truffle
<1> QED
  BY <1>1, <1>2, FileGoes

\* What an initialization left stays.
LEMMA TookStays ==
  ASSUME Inv1, Inv2, [Next]_vars, next > ChildFiled, NEW j \in 1..19, Took(j, file, chain.root)
  PROVE  Took(j, file', chain'.root)
<1>1. file' = file
  BY FileStays
<1>2. FiledRoot(file, chain.root)
  <2>1. next > RootFiled
    BY DEF RootFiled, ChildFiled, Inv1, Control
  <2> QED
    BY <2>1, FiledNow DEF Inv2
<1>3. CASE Gentle(chain.root, chain'.root)
  <2>1. Took(j, file, chain'.root)
    BY <1>2, <1>3, GentleKeeps
  <2> QED
    BY <1>1, <2>1
<1>4. ASSUME NEW k \in 1..19, InitGoes(k) PROVE Took(j, file', chain'.root)
  <2>1. Acts(k, file, chain.root, chain'.root)
    BY <1>4 DEF InitGoes
  <2>2. Took(j, file, chain'.root)
    BY <1>2, <2>1, ActsTook
  <2> QED
    BY <1>1, <2>2
<1> QED
  BY <1>3, <1>4, RootGoes

\* What an initialization has left when it was done.
LEMMA InitTakes ==
  ASSUME Inv1, Inv2, NEW k \in 1..19, InitGoes(k) PROVE Took(k, file', chain'.root)
<1>1. Acts(k, file, chain.root, chain'.root) /\ file' = file /\ next > RootFiled
  BY DEF InitGoes
<1>2. FiledRoot(file, chain.root)
  BY <1>1, FiledNow DEF Inv2
<1>3. Took(k, file, chain'.root)
  BY <1>1, <1>2, ActsTook
<1> QED
  BY <1>1, <1>3

\* Books that agree on the root chain's addresses agree on what is registered.
LEMMA RegisteredSame ==
  ASSUME NEW book, NEW book2, NEW ch,
         \A name \in RootNames : book2.root[name] = book.root[name],
         RegisteredIn(book, ch)
  PROVE  RegisteredIn(book2, ch)
<1>1. ManagerIn(book2, ch) = ManagerIn(book, ch)
  BY NamesIn DEF ManagerIn
<1>2. \A t \in TokenType : book2.root[PredicateProxy(t)] = book.root[PredicateProxy(t)]
  BY NamesIn
<1> QED
  BY <1>1, <1>2 DEF RegisteredIn

\* Nothing is registered with a manager without settings.
LEMMA NoneRegistered ==
  ASSUME NEW book, NEW ch, ManagerIn(book, ch).slots = << >> PROVE RegisteredIn(book, ch)
BY EmptySlots DEF RegisteredIn

\* Every step keeps the manager's predicates those in the file.
LEMMA RegisteredNext ==
  ASSUME Inv1, Inv2, Registered, [Next]_vars PROVE Registered'
<1>0. path' = path /\ RootFiled' = RootFiled /\ next \in Nat \ {0} /\ next' \in Nat
  BY ChainGoes, NextGrows DEF RootFiled, Truffle
<1> SUFFICES ASSUME next' > RootFiled PROVE RegisteredIn(file', chain'.root)
  BY <1>0 DEF Registered
<1>1. CASE next > RootFiled
  <2>1. RegisteredIn(file, chain.root) /\ FiledRoot(file, chain.root)
    BY <1>1, FiledNow DEF Registered, Inv2
  <2>2. RegisteredIn(file, chain'.root)
    <3>1. CASE Gentle(chain.root, chain'.root)
      BY <2>1, <3>1, GentleKeeps
    <3>2. ASSUME NEW k \in 1..19, InitGoes(k) PROVE RegisteredIn(file, chain'.root)
      <4>1. Acts(k, file, chain.root, chain'.root)
        BY <3>2 DEF InitGoes
      <4> QED
        BY <2>1, <4>1, ActsRegistered
    <3> QED
      BY <3>1, <3>2, RootGoes
  <2>3. \A name \in RootNames : file'.root[name] = file.root[name]
    <3>1. RootNames \subseteq DOMAIN file.root
      BY <2>1 DEF FiledRoot
    <3> QED
      BY <1>1, <3>1, RootAddressesStay DEF Inv2
  <2> QED
    BY <2>2, <2>3, RegisteredSame
<1>2. CASE ~(next > RootFiled)
  <2>1. next = RootFiled /\ next' = next + 1
    <3>1. RootFiled \in {1, 3}
      BY DEF RootFiled
    <3>2. next' = next \/ next' = next + 1 \/ next' = 1
      BY NextGoes DEF NextMoves, ScriptEnds, QueueProcessed
    <3> QED
      BY <1>0, <1>2, <3>1, <3>2
  <2>2. ScriptEnds
    <3>1. Current # "processQueue"
      <4>1. next <= Final
        BY <2>1 DEF RootFiled, Final
      <4> QED
        BY <2>1, <4>1, CurrentIs DEF Inv1, RootFiled, Moonwalker, Truffle
    <3> QED
      BY <1>0, <2>1, <3>1, NextGoes DEF NextMoves, QueueProcessed, RootFiled, Truffle
  <2>3. /\ script # NoScript /\ script.name = Current
        /\ script.pc = Length(script.name)
        /\ script.pc \in 1..Length(script.name)
    BY <2>2, RunningIs, EndsWith DEF ScriptEnds
  <2>4. CASE Truffle
    <3>1. script.name = "migration2"
      BY <2>1, <2>3, <2>4, RunbookIs DEF Current, RootFiled, Truffle
    <3>2. Step.op = "write"
      BY <2>3, <3>1, Migration2At DEF Step, Steps, Length, WriteAddresses
    <3>3. WriteFile
      BY <2>2, <3>2, EndsWith
    <3>4. IsOver(file'.root, script.book.root, file.root) /\ chain' = chain
      BY <3>3, WriteIs
    <3>5. CollectedIn("migration2", 24, script.book["root"], chain["root"])
      BY <2>3, <3>1 DEF Inv2, MigrationOK, Runs, Collected, Length
    <3>6. RootManagerProxy \in DOMAIN script.book["root"]
      <4>1. PICK j \in 1..23 : /\ Steps("migration2")[j].op = "new"
                               /\ Steps("migration2")[j].at[2] = RootManagerProxy
        BY MigrationNames, NamesIn
      <4>2. j \in 1..(24 - 1)
        BY <4>1
      <4> QED
        BY <3>5, <4>1, <4>2 DEF CollectedIn
    <3>7. chain.root[script.book.root[RootManagerProxy]].slots = << >>
      BY <3>5, <3>6, NamesIn DEF CollectedIn
    <3>8. ManagerIn(file', chain'.root).slots = << >>
      BY <3>4, <3>6, <3>7 DEF IsOver, ManagerIn
    <3> QED
      BY <3>8, NoneRegistered
  <2>5. CASE ~Truffle
    <3>1. Moonwalker /\ next = 3 /\ script.name = "extractAddresses"
      BY <2>1, <2>3, <2>5, RunbookIs DEF Current, RootFiled, Truffle, Moonwalker, Inv1, Control
    <3>2. Step.op = "extract"
      <4>1. Step \in StepSet("extractAddresses")
        BY <2>3, <3>1, StepIn
      <4> QED
        BY <4>1 DEF StepSet, ExtractAddresses
    <3>3. ExtractFile
      BY <2>2, <3>2, EndsWith
    <3>4. chain' = chain
      BY <3>3 DEF ExtractFile
    <3>5. \A a \in DOMAIN chain.root : chain.root[a].slots = << >>
      BY <3>1 DEF Inv2, RootKept
    <3>6. file'.root[RootManagerProxy] \in DOMAIN chain'.root
      <4>1. Complete(file, "root")'
        BY <3>3, ExtractCompletes DEF Inv2, DeploymentsQueued
      <4>2. RootManagerProxy \in DOMAIN file'["root"]
        BY <4>1, NamesIn DEF Complete, Names
      <4>3. Inv1'
        BY NextInv1
      <4> QED
        BY <4>2, <4>3 DEF Inv1, BookOK, Sides
    <3>7. ManagerIn(file', chain'.root).slots = << >>
      BY <3>4, <3>5, <3>6 DEF ManagerIn
    <3> QED
      BY <3>7, NoneRegistered
  <2> QED
    BY <2>4, <2>5
<1> QED
  BY <1>1, <1>2

\* The initializations before that of the first task took.
LEMMA HeadBefore ==
  ASSUME Inv1, InitsInOrder, Moonwalker, next \in {5, 6}, queue # << >>, NEW k \in 1..19, Task.id = 27 + k
  PROVE  TookUpTo(k - 1, file, chain.root)
<1>1. Len(queue) \in Nat \ {0} /\ Task = queue[1]
  BY TaskIs DEF Inv1
<1>2. 1 \in DOMAIN queue /\ queue[1].id = 27 + k
  <2>1. queue \in Seq(InitTasks(file))
    BY DEF Inv1, QueueOK
  <2> QED
    BY <1>1, <2>1
<1>3. \A j \in 1..(queue[1].id - 28) : TookOr(j, 1 - 1)
  BY <1>2 DEF InitsInOrder, Initing
<1>4. ASSUME NEW j \in 1..(k - 1) PROVE Took(j, file, chain.root)
  <2>1. j \in 1..(queue[1].id - 28) /\ 1..(1 - 1) = {}
    BY <1>2
  <2>2. TookOr(j, 1 - 1)
    BY <1>3, <2>1
  <2> QED
    BY <2>1, <2>2 DEF TookOr
<1> QED
  BY <1>4 DEF TookUpTo

\* When an initialization is done, those before it have been.
LEMMA InitsBefore ==
  ASSUME Inv1, InitsRun, InitsInOrder, NEW k \in 1..19, InitGoes(k)
  PROVE  TookUpTo(k - 1, file, chain.root)
<1>1. CASE Runs("migration4") /\ script.pc = k
  BY <1>1 DEF InitsRun
<1>2. CASE Moonwalker /\ next \in {5, 6} /\ SendTask /\ Task.id = 27 + k
  <2>1. queue # << >>
    BY <1>2 DEF SendTask
  <2> QED
    BY <1>2, <2>1, HeadBefore
<1> QED
  BY <1>1, <1>2 DEF InitGoes

\* Every step keeps what the managers have mapped ready for deposits.
LEMMA ManagersNext ==
  ASSUME Inv1, Inv2, Registered, InitsRun, InitsInOrder, ManagersOK, [Next]_vars PROVE ManagersOK'
<1> SUFFICES ASSUME NEW m \in DOMAIN chain'.root, m[1] = RootManagerProxy PROVE ManagerOK(chain'.root, m)
  BY DEF ManagersOK
<1>1. m \in DOMAIN chain.root => ManagerOK(chain.root, m)
  BY DEF ManagersOK
<1>2. CASE Gentle(chain.root, chain'.root)
  BY <1>1, <1>2, ManagersKept
<1>3. ASSUME NEW k \in 1..19, InitGoes(k) PROVE ManagerOK(chain'.root, m)
  <2>1. Acts(k, file, chain.root, chain'.root) /\ next > RootFiled
    BY <1>3 DEF InitGoes
  <2>2. FiledRoot(file, chain.root) /\ RegisteredIn(file, chain.root)
    BY <2>1, FiledNow DEF Inv2, Registered
  <2>3. TookUpTo(k - 1, file, chain.root)
    BY <1>3, InitsBefore
  <2>4. m \in DOMAIN chain.root
    BY <2>1 DEF Acts
  <2> QED
    BY <1>1, <2>1, <2>2, <2>3, <2>4, ActsManagers
<1> QED
  BY <1>2, <1>3, RootGoes

\* Where migrations 4 and 5 run the child chain's addresses are in the file.
LEMMA CallsAreLate ==
  ASSUME Inv1, NEW name \in {"migration4", "migration5"}, Runs(name) PROVE next > ChildFiled
<1>1. script.name = name /\ name = Current /\ next <= Final
  <2>1. next \in 1..Final
    BY RunningIs DEF Runs
  <2>2. Final \in Nat
    BY DEF Final
  <2> QED
    BY <2>1, <2>2, RunningIs DEF Runs
<1>2. next = IF Truffle THEN next ELSE 7
  BY <1>1, CurrentIs DEF Inv1, Truffle, Moonwalker
<1>3. Truffle => next \in {3, 4}
  BY <1>1, CurrentIs DEF Inv1, Truffle, Moonwalker
<1> QED
  BY <1>2, <1>3 DEF ChildFiled

\* Every step keeps the initializations of migration 4 done in their order.
LEMMA InitsRunNext ==
  ASSUME Inv1, Inv2, InitsRun, [Next]_vars PROVE InitsRun'
<1> SUFFICES ASSUME script' # NoScript, script'.name = "migration4", NEW j \in 1..(script'.pc - 1)
             PROVE  Took(j, file', chain'.root)
  BY DEF InitsRun, Runs, TookUpTo
<1>1. \/ script'.pc = 1
      \/ /\ Runs("migration4") /\ script' = script
      \/ /\ Runs("migration4")
         /\ \/ script'.pc = script.pc + 1
            \/ TryFails
  BY ScriptGoes DEF Runs
<1>2. script'.pc # 1
  <2>1. 1..(1 - 1) = {}
    OBVIOUS
  <2> QED
    BY <2>1
<1>3. Runs("migration4") /\ next > ChildFiled /\ script.pc \in 1..19
  BY <1>1, <1>2, CallsAreLate, CallsOnly DEF Length
<1>4. ~TryFails
  BY <1>3, CallsOnly DEF TryFails, Running, Step
<1>5. TookUpTo(script.pc - 1, file, chain.root)
  BY <1>3 DEF InitsRun
<1>6. CASE script' = script
  <2>1. Took(j, file, chain.root) /\ j \in 1..19
    BY <1>3, <1>5, <1>6 DEF TookUpTo
  <2> QED
    BY <1>3, <2>1, TookStays
<1>7. CASE script'.pc = script.pc + 1
  <2>1. script' # script
    BY <1>3, <1>7
  <2>2. Sent(chain, chain', Step, script.book) /\ script.book = file /\ file' = file
    BY <1>3, <2>1, CallsOnly
  <2>3. InitGoes(script.pc)
    BY <1>3, <2>2, MigrationInits DEF Inv2
  <2>4. CASE j = script.pc
    BY <1>3, <2>3, <2>4, InitTakes
  <2>5. CASE j # script.pc
    <3>1. j \in 1..(script.pc - 1) /\ j \in 1..19
      BY <1>3, <1>7, <2>5
    <3>2. Took(j, file, chain.root)
      BY <1>5, <3>1 DEF TookUpTo
    <3> QED
      BY <1>3, <3>1, <3>2, TookStays
  <2> QED
    BY <2>4, <2>5
<1> QED
  BY <1>1, <1>2, <1>4, <1>6, <1>7

\* Nothing is mapped with a manager without settings.
LEMMA NoneMapped ==
  ASSUME NEW book, NEW ch, ManagerIn(book, ch).slots = << >> PROVE MappedIn(book, ch)
BY EmptySlots DEF MappedIn

\* On mainnet every step keeps the root manager's mappings those of the file.
LEMMA MappedNext ==
  ASSUME Inv1, Inv2, Mapped, [Next]_vars PROVE Mapped'
<1>0. path' = path /\ Moonwalker' = Moonwalker /\ next \in Nat \ {0} /\ next' \in Nat
  BY ChainGoes, NextGrows DEF Moonwalker
<1> SUFFICES ASSUME Moonwalker, next' > 4 PROVE MappedIn(file', chain'.root)
  BY <1>0 DEF Mapped, ChildFiled, Moonwalker, Truffle
<1>1. ChildFiled = 4 /\ RootFiled = 3
  BY DEF ChildFiled, RootFiled, Moonwalker, Truffle
<1>2. CASE next > 4
  <2>1. MappedIn(file, chain.root) /\ FiledRoot(file, chain.root) /\ FiledChild(file, chain.child)
    BY <1>0, <1>1, <1>2, FiledNow DEF Mapped, Inv2
  <2>2. file' = file
    BY <1>1, <1>2, FileStays
  <2>3. CASE Gentle(chain.root, chain'.root)
    <3>1. MappedIn(file, chain'.root)
      BY <2>1, <2>3, GentleKeeps
    <3> QED
      BY <2>2, <3>1
  <2>4. ASSUME NEW k \in 1..19, InitGoes(k) PROVE MappedIn(file', chain'.root)
    <3>1. Acts(k, file, chain.root, chain'.root)
      BY <2>4 DEF InitGoes
    <3>2. MappedIn(file, chain'.root)
      BY <2>1, <3>1, ActsMapped
    <3> QED
      BY <2>2, <3>2
  <2> QED
    BY <2>3, <2>4, RootGoes
<1>3. CASE ~(next > 4)
  <2>1. next = 4 /\ next' = 5
    BY <1>0, <1>3, NextGrows
  <2>2. ScriptEnds
    <3>1. Current # "processQueue"
      BY <2>1, RunbookIs DEF Current, Moonwalker
    <3> QED
      BY <2>1, <3>1, NextGoes DEF NextMoves, QueueProcessed
  <2>3. /\ script # NoScript /\ script.name = Current /\ script.pc = Length(script.name)
    BY <2>2, RunningIs, EndsWith DEF ScriptEnds
  <2>4. script.name = "migration3"
    BY <2>1, <2>3, RunbookIs DEF Current, Moonwalker
  <2>5. Step.op = "write"
    BY <2>3, <2>4, Migration3At DEF Step, Steps, Length, WriteAddresses
  <2>6. WriteFile
    BY <2>2, <2>5, EndsWith
  <2>7. chain' = chain /\ DOMAIN script.book.root = {} /\ IsOver(file'.root, script.book.root, file.root)
    BY <2>3, <2>4, <2>6, WriteIs DEF Inv2, MigrationOK, Runs
  <2>8. \A a \in DOMAIN chain.root : chain.root[a].slots = << >>
    BY <2>1 DEF Inv2, RootKept
  <2>9. file'.root[RootManagerProxy] \in DOMAIN chain.root
    <3>1. FiledRoot(file, chain.root)
      BY <1>1, <2>1, FiledNow DEF Inv2
    <3>2. RootManagerProxy \in DOMAIN file.root /\ file.root[RootManagerProxy] \in DOMAIN chain.root
      BY <3>1, NamesIn DEF FiledRoot
    <3> QED
      BY <2>7, <3>2 DEF IsOver
  <2>10. ManagerIn(file', chain'.root).slots = << >>
    BY <2>7, <2>8, <2>9 DEF ManagerIn
  <2> QED
    BY <2>10, NoneMapped
<1> QED
  BY <1>2, <1>3

\* The deployer may do the k-th initialization as long as nothing is given away.
LEMMA InitAllowed ==
  ASSUME Inv1, Inv2, Moonwalker, next \in {5, 6}, NEW k \in 1..19,
         FiledRoot(file, chain.root), FiledChild(file, chain.child)
  PROVE  LET c == chain.root[file.root[InitName(k)]]
         IN  /\ Has(c, "DEFAULT_ADMIN") /\ (k >= 10 => Has(c, "MAPPER"))
             /\ k <= 14 => Passes(c, InitMethod(k), InitArgs(k, file))
             /\ k \in 15..19 => (Passes(c, InitMethod(k), InitArgs(k, file))
                  <=> RootMaps(c, RootAtOf(InitType(k), file), file.child[ChildToken(InitType(k))], InitType(k)))
<1> DEFINE a == file.root[InitName(k)]
           c == chain.root[a]
<1>1. InitName(k) \in RootNames
  BY NamesIn, InitTypes DEF InitName
<1>2. a \in DOMAIN chain.root /\ a[1] = InitName(k) /\ (a[1] \in Proxies => c.inited)
  BY <1>1 DEF FiledRoot
<1>3. /\ a[1] \in Proxies => InitialRoles(a[1]) \subseteq c.roles
      /\ a[1] = RootToken("MintableERC721") => Has(c, "DEFAULT_ADMIN")
  BY <1>2 DEF Inv2, RootKept
<1>4. a[1] \in Proxies \/ a[1] = RootToken("MintableERC721")
  BY <1>2, NamesIn, InitTypes DEF InitName
<1> HIDE DEF a, c
<1>5. \A name : <<"DEFAULT_ADMIN", Deployer>> \in InitialRoles(name)
  BY DEF InitialRoles
<1>6. <<"MAPPER", Deployer>> \in InitialRoles(RootManagerProxy)
  BY DEF InitialRoles
<1>7. Has(c, "DEFAULT_ADMIN")
  BY <1>3, <1>4, <1>5 DEF Has
<1>8. k >= 10 => Has(c, "MAPPER")
  <2>1. k >= 10 => InitName(k) = RootManagerProxy
    BY InitTypes DEF InitName
  <2> QED
    BY <1>2, <1>3, <1>6, <2>1, NamesIn DEF Has
<1>9. k <= 14 => Passes(c, InitMethod(k), InitArgs(k, file))
  <2>1. CASE k = 1
    <3>1. InitMethod(k) = "setStateSender"
      BY <2>1, InitIs
    <3> QED
      BY <1>7, <3>1 DEF Passes
  <2>2. CASE k = 2
    <3>1. InitMethod(k) = "setChildChainManagerAddress" /\ InitArgs(k, file) = <<file.child[ChildManagerProxy]>>
      BY <2>2, InitIs
    <3>2. file.child[ChildManagerProxy] # None
      BY NamesIn DEF FiledChild
    <3>3. InitArgs(k, file)[1] # None
      BY <3>1, <3>2
    <3> QED
      BY <1>7, <3>1, <3>3 DEF Passes
  <2>3. CASE k = 3
    <3>1. InitMethod(k) = "setCheckpointManager"
      BY <2>3, InitIs
    <3> QED
      BY <1>7, <3>1 DEF Passes
  <2>4. CASE k \in 4..9
    <3>1. InitMethod(k) = "grantRole"
      BY <2>4 DEF InitMethod
    <3> QED
      BY <1>7, <3>1 DEF Passes
  <2>5. CASE k \in 10..14
    <3>1. InitMethod(k) = "registerPredicate"
      BY <2>5, InitIs
    <3> QED
      BY <1>8, <2>5, <3>1 DEF Passes
  <2> QED
    BY <2>1, <2>2, <2>3, <2>4, <2>5
<1>10. k \in 15..19 => (Passes(c, InitMethod(k), InitArgs(k, file))
                  <=> RootMaps(c, RootAtOf(InitType(k), file), file.child[ChildToken(InitType(k))], InitType(k)))
  <2> SUFFICES ASSUME k \in 15..19
               PROVE Passes(c, InitMethod(k), InitArgs(k, file))
                  <=> RootMaps(c, RootAtOf(InitType(k), file), file.child[ChildToken(InitType(k))], InitType(k))
    OBVIOUS
  <2> DEFINE args == InitArgs(k, file)
  <2>1. args = <<RootAtOf(InitType(k), file), file.child[ChildToken(InitType(k))], InitType(k)>>
    BY InitIs
  <2>2. /\ args[1] = RootAtOf(InitType(k), file) /\ args[2] = file.child[ChildToken(InitType(k))]
        /\ args[3] = InitType(k)
    BY ONLY <2>1
  <2>3. InitMethod(k) = "mapRootToken"
    BY InitIs
  <2> HIDE DEF args
  <2>4. Passes(c, "mapRootToken", args) <=> Has(c, "MAPPER") /\ RootMaps(c, args[1], args[2], args[3])
    BY DEF Passes
  <2> QED
    BY <1>8, <2>2, <2>3, <2>4 DEF args
<1> QED
  BY <1>7, <1>8, <1>9, <1>10 DEF a, c

\* The worker knows all that a queued initialization names.
LEMMA FixedKnown ==
  ASSUME NEW k \in 1..19, NEW book, NEW filed, Shares(book, filed)
  PROVE  LET f == FixedStep(RootInitializations[k], filed)
         IN  Known(f.at, book) /\ \A i \in DOMAIN f.args : Known(f.args[i], book)
<1> DEFINE s == RootInitializations[k]
           f == FixedStep(s, filed)
           refs == InitRefs(k)
<1>1. s = Call(Root(InitName(k)), InitMethod(k), refs)
  BY InitStepIs
<1>2. s.at = Root(InitName(k)) /\ s.args = refs
  BY <1>1 DEF Call
<1>3. s \in RootInits
  <2>1. Listed(RootInitializations, 19, RootInits)
    BY InitsAt DEF Listed
  <2>2. \A i \in 1..19 : RootInitializations[i] \in RootInits
    BY <2>1, ListedAt
  <2> QED
    BY <2>2
<1>4. /\ f.at = s.at /\ DOMAIN f.args = DOMAIN s.args
      /\ \A i \in DOMAIN s.args : f.args[i] = Fixed(s.args[i], filed)
  BY <1>3, FixedOK
<1>5. \A i \in DOMAIN refs : RefOK(refs[i])
  BY InitRefsOK
<1>6. InitName(k) \in RootNames
  BY NamesIn, InitTypes DEF InitName
<1> HIDE DEF f, s, refs
<1>7. ASSUME NEW ref, RefOK(ref) PROVE Known(Fixed(ref, filed), book)
  <2>1. CASE ref[1] = "child"
    BY <2>1 DEF Fixed, Known, Value
  <2>2. CASE ref[1] = "root"
    BY <1>7, <2>2 DEF Fixed, RefOK, Known, Shares
  <2>3. CASE ref[1] = "value"
    BY <2>3 DEF Fixed, Known
  <2> QED
    BY <1>7, <2>1, <2>2, <2>3 DEF RefOK
<1>8. Known(f.at, book)
  BY <1>2, <1>4, <1>6 DEF Known, Root, Shares
<1>9. \A i \in DOMAIN f.args : Known(f.args[i], book)
  BY <1>2, <1>4, <1>5, <1>7
<1> QED
  BY <1>8, <1>9 DEF f, s, refs

\* A pair that the root manager refuses is mapped.
LEMMA RefusedIsMapped ==
  ASSUME Inv1, NEW k \in 15..19, FiledRoot(file, chain.root),
         MappedIn(file, chain.root), TookUpTo(k - 1, file, chain.root),
         ~RootMaps(ManagerIn(file, chain.root), RootAtOf(InitType(k), file),
                   file.child[ChildToken(InitType(k))], InitType(k))
  PROVE  Took(k, file, chain.root)
<1> DEFINE c == ManagerIn(file, chain.root)
           t == InitType(k)
           r == RootAtOf(t, file)
           x == file.child[ChildToken(t)]
<1>1. k \in 1..19 /\ k \notin 4..9 /\ t \in TokenType /\ t = TypeList[k - 14]
  BY InitTypes
<1>2. InitKey(k, file) = <<"rootToChildToken", r>> /\ InitValue(k, file) = x
  BY <1>1, InitIs
<1>3. Slot(c, <<"typeToPredicate", t>>) # None
  <2>1. k - 5 \in 1..19 /\ k - 5 \in 10..14 /\ k - 5 \in 1..(k - 1) /\ (k - 5) - 9 = k - 14 /\ k - 5 \notin 4..9
    OBVIOUS
  <2>2. Took(k - 5, file, chain.root)
    BY <2>1 DEF TookUpTo
  <2>3. InitType(k - 5) = t
    <3>1. InitType(k - 5) = TypeList[(k - 5) - 9]
      BY <2>1, InitTypes
    <3> QED
      BY <1>1, <2>1, <3>1
  <2>4. /\ InitKey(k - 5, file) = <<"typeToPredicate", InitType(k - 5)>>
        /\ InitValue(k - 5, file) = file.root[PredicateProxy(InitType(k - 5))]
    BY <2>1, InitIs
  <2>5. Slot(c, <<"typeToPredicate", t>>) = file.root[PredicateProxy(t)]
    BY <2>1, <2>2, <2>3, <2>4 DEF Took
  <2> QED
    BY <1>1, <2>5, NamesIn DEF FiledRoot
<1>4. Slot(c, <<"stateSender">>) # None
  <2>1. 1 \in 1..19 /\ 1 \notin 4..9 /\ 1 \in 1..(k - 1)
    OBVIOUS
  <2>2. Took(1, file, chain.root)
    BY <2>1 DEF TookUpTo
  <2>3. InitKey(1, file) = <<"stateSender">> /\ InitValue(1, file) = file.root[StateSender]
    BY <2>1, InitIs
  <2>4. Slot(c, <<"stateSender">>) = file.root[StateSender]
    BY <2>1, <2>2, <2>3 DEF Took
  <2> QED
    BY <2>4, NamesIn DEF FiledRoot
<1>5. \/ Slot(c, <<"rootToChildToken", r>>) = None /\ Slot(c, <<"childToRootToken", x>>) = None
      \/ Slot(c, <<"rootToChildToken", r>>) = x
  BY <1>1 DEF MappedIn
<1> HIDE DEF c, t, r, x
<1>6. Slot(c, <<"rootToChildToken", r>>) = x
  <2>1. ~RootMaps(c, r, x, t)
    BY DEF c, r, x, t
  <2> QED
    BY <1>3, <1>4, <1>5, <2>1 DEF RootMaps
<1> QED
  BY <1>1, <1>2, <1>6 DEF Took, c

\* A task that the worker drops, because it failed, has been done before.
LEMMA WorkerSkips ==
  ASSUME Inv1, Inv2, Mapped, InitsInOrder, TaskOK, queue # << >>, next \in {5, 6},
         ~Succeeds(Task.step, TaskBook)
  PROVE  Took(Task.id - 27, file, chain.root)
<1> DEFINE k == Task.id - 27
           s == Task.step
           a == file.root[InitName(k)]
<1>1. /\ Moonwalker /\ Task.id \in 28..46 /\ s = FixedStep(RootInitializations[k], file)
  BY DEF TaskOK
<1>2. k \in 1..19 /\ Task.id = 27 + k
  BY <1>1
<1>3. next > RootFiled /\ next > ChildFiled /\ next > 3
  BY <1>1 DEF RootFiled, ChildFiled, Moonwalker, Truffle
<1>4. FiledRoot(file, chain.root) /\ FiledChild(file, chain.child) /\ MappedIn(file, chain.root)
  BY <1>1, <1>3, FiledNow DEF Inv2, Mapped
<1>5. Shares(TaskBook, file) /\ RootNames \subseteq DOMAIN file.root
  BY <1>1, <1>3, <1>4, WorkerShares DEF Inv2, DeploymentsQueued, FiledRoot
<1> HIDE DEF k, s
<1>6. TookUpTo(k - 1, file, chain.root)
  BY <1>1, <1>2, HeadBefore
<1>7. /\ s.at = Root(InitName(k)) /\ s.method = InitMethod(k) /\ s.op = "call"
      /\ ResolveAll(s.args, TaskBook) = ResolveAll(InitRefs(k), file)
  BY <1>1, <1>2, <1>5, FixedResolves
<1>8. ResolveAll(s.args, TaskBook) = InitArgs(k, file)
  BY <1>2, <1>4, <1>7, InitRefsResolve
<1>9. Known(s.at, TaskBook) /\ \A i \in DOMAIN s.args : Known(s.args[i], TaskBook)
  BY <1>1, <1>2, <1>5, FixedKnown
<1>10. InitName(k) \in RootNames
  BY <1>2, NamesIn, InitTypes DEF InitName
<1>11. Resolve(s.at, TaskBook) = a /\ s.at[1] = "root"
  <2>1. Resolve(Root(InitName(k)), TaskBook) = TaskBook.root[InitName(k)]
    BY <1>5, <1>10, RefIs DEF Shares
  <2> QED
    BY <1>5, <1>7, <1>10, <2>1 DEF Shares, Root
<1> HIDE DEF a
<1>12. ~Passes(chain["root"][a], InitMethod(k), InitArgs(k, file))
  <2>1. ~CallPasses(chain["root"], a, InitMethod(k), InitArgs(k, file))
    BY <1>7, <1>8, <1>9, <1>11 DEF Succeeds, s
  <2> QED
    BY <2>1 DEF CallPasses
<1>13. k \in 15..19
  <2>1. k <= 14 => Passes(chain.root[file.root[InitName(k)]], InitMethod(k), InitArgs(k, file))
    BY <1>1, <1>2, <1>4, InitAllowed
  <2> QED
    BY <1>2, <1>12, <2>1 DEF a
<1>14. ~RootMaps(chain.root[file.root[InitName(k)]], RootAtOf(InitType(k), file),
                 file.child[ChildToken(InitType(k))], InitType(k))
  BY <1>1, <1>2, <1>4, <1>12, <1>13, InitAllowed DEF a
<1>15. InitName(k) = RootManagerProxy
  BY <1>2, <1>13, InitIs
<1>16. Took(k, file, chain.root)
  BY <1>4, <1>6, <1>13, <1>14, <1>15, RefusedIsMapped DEF ManagerIn
<1> QED
  BY <1>16 DEF k

\* TookOr after a step.
OrNext(k, n) == Took(k, file', chain'.root) \/ \E j \in 1..n : queue'[j].id = 27 + k

\* The queue of the initializations.
LEMMA InitQueueIs ==
  ASSUME Inv1, Initing
  PROVE  /\ Len(queue) \in Nat /\ DOMAIN queue = 1..Len(queue)
         /\ \A j \in DOMAIN queue : queue[j].id \in 28..46
         /\ next > ChildFiled /\ next < 8
<1>1. queue \in Seq(InitTasks(file))
  BY DEF Initing, Inv1, QueueOK
<1>2. \A task \in InitTasks(file) : task.id \in 28..46
  BY DEF InitTasks
<1>3. next > ChildFiled /\ next < 8
  BY DEF Initing, ChildFiled, Moonwalker, Truffle
<1> QED
  BY <1>1, <1>2, <1>3

\* When the worker is done with the first task the others move up.
LEMMA TookOrGoes ==
  ASSUME Inv1, Inv2, InitTaken, Initing, [Next]_vars, NEW k \in 1..19, NEW n \in 0..Len(queue), TookOr(k, n)
  PROVE  /\ ~AckTask => OrNext(k, n)
         /\ AckTask => OrNext(k, n - 1)
<1>0. Len(queue) \in Nat /\ next > ChildFiled
  BY InitQueueIs
<1>1. CASE Took(k, file, chain.root)
  BY <1>0, <1>1, TookStays DEF OrNext
<1>2. ASSUME NEW j \in 1..n, queue[j].id = 27 + k PROVE ~AckTask => OrNext(k, n)
  <2> SUFFICES ASSUME ~AckTask PROVE queue'[j].id = 27 + k
    BY <1>2 DEF OrNext
  <2>1. CASE queue' = queue
    BY <1>2, <2>1
  <2>2. CASE QueueTask
    <3>1. \A i \in 1..Len(queue) : queue'[i] = queue[i]
      BY <2>2, QueueTaskInv1
    <3>2. j \in 1..Len(queue)
      BY <1>0
    <3> QED
      BY <1>2, <3>1, <3>2
  <2> QED
    BY <2>1, <2>2, QueueGoes
<1>3. ASSUME NEW j \in 1..n, queue[j].id = 27 + k PROVE AckTask => OrNext(k, n - 1)
  <2> SUFFICES ASSUME AckTask PROVE OrNext(k, n - 1)
    OBVIOUS
  <2>1. /\ Task = queue[1] /\ \A i \in 1..(Len(queue) - 1) : queue'[i] = queue[i + 1]
    BY AckTaskInv1
  <2>2. CASE j = 1
    <3>1. worker = "handled" /\ Task.id - 27 = k
      BY <1>3, <2>1, <2>2 DEF AckTask
    <3>2. Took(k, file, chain.root)
      BY <3>1 DEF InitTaken
    <3> QED
      BY <1>0, <3>2, TookStays DEF OrNext
  <2>3. CASE j # 1
    <3>1. j - 1 \in 1..(Len(queue) - 1) /\ j - 1 \in 1..(n - 1) /\ (j - 1) + 1 = j
      BY <1>0, <2>3
    <3>2. queue'[j - 1].id = 27 + k
      BY <1>3, <2>1, <3>1
    <3> QED
      BY <3>1, <3>2 DEF OrNext
  <2> QED
    BY <2>2, <2>3
<1> QED
  BY <1>1, <1>2, <1>3 DEF TookOr

\* The queue is empty when the queueing of the initializations begins.
LEMMA InitingGoes ==
  ASSUME Inv1, [Next]_vars, Initing', ~Initing
  PROVE  queue' = << >> /\ script' = NoScript /\ next' = 5
<1>1. path' = path /\ Moonwalker /\ next' \in {5, 6} /\ next \in Nat
  BY ChainGoes, NextGrows DEF Initing, Moonwalker
<1>2. next = 4 /\ next' = 5
  BY <1>1, NextGrows DEF Initing
<1>3. queue = << >>
  BY <1>1, <1>2 DEF Inv1, QueueOK
<1>4. queue' = queue
  BY <1>2, QueueGoes, QueueTaskInv1, AckTaskInv1 DEF TaskOK
<1>5. Current # "processQueue"
  BY <1>1, <1>2, RunbookIs DEF Current, Moonwalker
<1>6. ScriptEnds
  BY <1>1, <1>2, <1>5, NextGoes DEF NextMoves, QueueProcessed, Truffle, Moonwalker
<1> QED
  BY <1>2, <1>3, <1>4, <1>6 DEF ScriptEnds

\* The queueing of the initializations queues the next one, stays, or stops.
LEMMA QueuesOnly ==
  ASSUME Inv1, [Next]_vars, Runs("queueRootInitializations")
  PROVE  /\ \/ script' = script /\ next' = next
            \/ script' = NoScript /\ next' = next
            \/ QueueTask
         /\ script.pc \in 1..19 /\ next = 5 /\ Moonwalker
<1>1. script # NoScript /\ script.name = "queueRootInitializations" /\ script.pc \in 1..19
  BY RunningIs DEF Runs, Length
<1>2. next = 5 /\ Moonwalker
  <2>1. script.name = Current /\ next \in 1..Final /\ Final \in Nat
    BY <1>1, RunningIs DEF Final
  <2>2. next <= Final
    BY <2>1
  <2> QED
    BY <1>1, <2>1, <2>2, CurrentIs DEF Inv1
<1>3. Step.op = "queue"
  BY <1>1, QueueRootInitializationsAt DEF Step, Steps, Queue
<1>4. ~DeployContract /\ ~TryCall /\ ~CallContract /\ ~CallReverts /\ ~WriteFile /\ ~ExtractFile /\ ~TryFails
  BY <1>3 DEF DeployContract, TryCall, CallContract, CallReverts, WriteFile, ExtractFile, TryFails, Running, Step
<1>5. ~StartScript /\ ~Restart
  BY <1>1 DEF StartScript, Restart
<1>6. CASE InterruptScript
  BY <1>1, <1>2, <1>6 DEF InterruptScript
<1>7. CASE StartWorker \/ QueueProcessed
  BY <1>1, <1>7 DEF StartWorker, QueueProcessed
<1>8. CASE SendTask \/ SaveStatus \/ AckTask \/ InterruptWorker
  BY <1>1, <1>2, <1>8 DEF SendTask, SaveStatus, AckTask, InterruptWorker
<1>9. CASE UNCHANGED vars
  BY <1>1, <1>2, <1>9 DEF vars
<1> QED
  BY <1>1, <1>2, <1>4, <1>5, <1>6, <1>7, <1>8, <1>9 DEF Next

\* The initializations before that of a task are done or before it in the queue.
LEMMA InOrderAt ==
  ASSUME Inv1, InitsInOrder, Initing, NEW j \in DOMAIN queue, NEW k \in 1..(queue[j].id - 28)
  PROVE  k \in 1..19 /\ TookOr(k, j - 1) /\ j - 1 \in 0..Len(queue)
<1>1. Len(queue) \in Nat /\ DOMAIN queue = 1..Len(queue) /\ queue[j].id \in 28..46
  BY InitQueueIs
<1>2. TookOr(k, j - 1)
  BY DEF InitsInOrder
<1>3. k \in 1..19
  BY <1>1
<1>4. j - 1 \in 0..Len(queue)
  BY <1>1
<1> QED
  BY <1>2, <1>3, <1>4

\* Every step keeps the tasks in the order of the initializations.
LEMMA InitsInOrderNext ==
  ASSUME Inv1, Inv2, InitsInOrder, InitsQueueing, InitTaken, [Next]_vars PROVE InitsInOrder'
<1> SUFFICES ASSUME Initing', NEW j \in DOMAIN queue', NEW k \in 1..(queue'[j].id - 28)
             PROVE  OrNext(k, j - 1)
  BY DEF InitsInOrder, TookOr, OrNext
<1>0. Inv1'
  BY NextInv1
<1>1. CASE ~Initing
  <2>1. queue' = << >>
    BY <1>1, InitingGoes
  <2> QED
    BY <2>1
<1>2. CASE Initing
  <2>1. /\ Len(queue) \in Nat /\ DOMAIN queue = 1..Len(queue) /\ next > ChildFiled
        /\ \A i \in DOMAIN queue : queue[i].id \in 28..46
    BY <1>2, InitQueueIs
  <2>3. CASE queue' = queue /\ ~AckTask
    <3>1. k \in 1..19 /\ TookOr(k, j - 1) /\ j - 1 \in 0..Len(queue)
      <4>1. j \in DOMAIN queue /\ k \in 1..(queue[j].id - 28)
        BY <2>3
      <4> QED
        BY <1>2, <4>1, InOrderAt
    <3> QED
      BY <1>2, <2>3, <3>1, TookOrGoes
  <2>4. CASE QueueTask
    <3>1. /\ queue' = Append(queue, queue'[Len(queue) + 1]) /\ Len(queue') = Len(queue) + 1
          /\ \A i \in 1..Len(queue) : queue'[i] = queue[i]
          /\ script # NoScript
          /\ \/ next = 1
             \/ /\ script.name = "queueRootInitializations" /\ script.pc \in 1..19
                /\ queue'[Len(queue) + 1]
                    = [id |-> 27 + script.pc, step |-> FixedStep(RootInitializations[script.pc], file)]
      BY <2>4, QueueTaskInv1
    <3>2. next # 1 /\ ~AckTask
      BY <1>2, <2>4 DEF Initing, QueueTask, AckTask, workerVars
    <3>3. j \in 1..(Len(queue) + 1)
      BY <2>1, <3>1
    <3>4. CASE j \in 1..Len(queue)
      <4>1. k \in 1..19 /\ TookOr(k, j - 1) /\ j - 1 \in 0..Len(queue)
        <5>1. j \in DOMAIN queue /\ k \in 1..(queue[j].id - 28)
          BY <2>1, <3>1, <3>4
        <5> QED
          BY <1>2, <5>1, InOrderAt
      <4> QED
        BY <1>2, <3>2, <4>1, TookOrGoes
    <3>5. CASE j = Len(queue) + 1
      <4>1. queue'[j].id = 27 + script.pc /\ script.pc \in 1..19
        BY <3>1, <3>2, <3>5
      <4>2. k \in 1..(script.pc - 1) /\ k \in 1..19
        BY <4>1
      <4>3. TookOr(k, Len(queue))
        BY <1>2, <3>1, <3>2, <4>2 DEF InitsQueueing, Runs
      <4>4. OrNext(k, Len(queue)) /\ j - 1 = Len(queue)
        BY <1>2, <2>1, <3>2, <3>5, <4>2, <4>3, TookOrGoes
      <4> QED
        BY <4>4
    <3> QED
      BY <2>1, <3>3, <3>4, <3>5
  <2>5. CASE AckTask
    <3>1. /\ Len(queue) \in Nat \ {0} /\ Len(queue') = Len(queue) - 1
          /\ \A i \in 1..(Len(queue) - 1) : queue'[i] = queue[i + 1]
      BY <2>5, AckTaskInv1
    <3>2. DOMAIN queue' = 1..Len(queue')
      <4>1. queue' = Tail(queue) /\ queue \in Seq(InitTasks(file))
        BY <1>2, <2>5 DEF AckTask, Initing, Inv1, QueueOK
      <4> QED
        BY <3>1, <4>1
    <3>3. j \in 1..(Len(queue) - 1) /\ j + 1 \in DOMAIN queue /\ queue'[j] = queue[j + 1]
      BY <2>1, <3>1, <3>2
    <3>4. k \in 1..19 /\ TookOr(k, (j + 1) - 1) /\ j \in 0..Len(queue) /\ (j + 1) - 1 = j
      <4>1. k \in 1..(queue[j + 1].id - 28)
        BY <3>3
      <4>2. k \in 1..19 /\ TookOr(k, (j + 1) - 1)
        BY <1>2, <3>3, <4>1, InOrderAt
      <4>3. j \in 0..Len(queue) /\ (j + 1) - 1 = j
        BY <2>1, <3>3
      <4> QED
        BY <4>2, <4>3
    <3> QED
      BY <1>2, <2>5, <3>4, TookOrGoes
  <2> QED
    BY <2>3, <2>4, <2>5, QueueGoes
<1> QED
  BY <1>1, <1>2

\* Every step keeps the initializations queued so far done or in the queue.
LEMMA InitsQueueingNext ==
  ASSUME Inv1, Inv2, InitsQueueing, InitTaken, [Next]_vars PROVE InitsQueueing'
<1> SUFFICES ASSUME Initing', script' # NoScript, script'.name = "queueRootInitializations",
                    NEW k \in 1..(script'.pc - 1)
             PROVE  OrNext(k, Len(queue'))
  BY DEF InitsQueueing, TookOr, OrNext, Runs
<1>0. script'.pc # 1
  <2>1. 1..(1 - 1) = {}
    OBVIOUS
  <2> QED
    BY <2>1
<1>1. Initing
  BY InitingGoes
<1>2. /\ Runs("queueRootInitializations")
      /\ script' = script \/ script'.pc = script.pc + 1 \/ TryFails
  BY <1>0, ScriptGoes DEF Runs
<1>3. (script' = script /\ next' = next) \/ QueueTask
  BY <1>2, QueuesOnly
<1>4. script.pc \in 1..19 /\ Len(queue) \in Nat /\ \A l \in 1..(script.pc - 1) : TookOr(l, Len(queue))
  BY <1>1, <1>2, QueuesOnly, InitQueueIs DEF InitsQueueing
<1>5. CASE QueueTask
  <2>1. /\ Len(queue') = Len(queue) + 1 /\ next # 1
        /\ \/ next = 1
           \/ /\ script.name = "queueRootInitializations"
              /\ queue'[Len(queue) + 1]
                    = [id |-> 27 + script.pc, step |-> FixedStep(RootInitializations[script.pc], file)]
    BY <1>1, <1>5, QueueTaskInv1 DEF Initing
  <2>2. ~AckTask /\ ~TryFails
    BY <1>5 DEF AckTask, QueueTask, workerVars, TryFails, Running
  <2>3. script'.pc = script.pc + 1
    <3>1. Advance(script.book)
      BY <1>5 DEF QueueTask
    <3>2. script.pc + 1 \in Nat /\ script # NoScript /\ script.errors \in BOOLEAN
      BY <1>2, <1>4, RunningIs DEF Runs
    <3>3. ScriptMoves(script.pc + 1, script.book, script.errors)
      BY <3>1, <3>2, Moves DEF Advance
    <3> QED
      BY <3>3 DEF ScriptMoves
  <2>4. CASE k = script.pc
    <3>1. queue'[Len(queue) + 1].id = 27 + k /\ Len(queue) + 1 \in 1..Len(queue')
      BY <1>4, <2>1, <2>4
    <3> QED
      BY <3>1 DEF OrNext
  <2>5. CASE k # script.pc
    <3>1. k \in 1..(script.pc - 1) /\ k \in 1..19
      BY <1>4, <2>3, <2>5
    <3>2. OrNext(k, Len(queue))
      BY <1>1, <1>4, <2>2, <3>1, TookOrGoes
    <3>3. 1..Len(queue) \subseteq 1..Len(queue')
      BY <1>4, <2>1
    <3> QED
      BY <3>2, <3>3 DEF OrNext
  <2> QED
    BY <2>4, <2>5
<1>6. CASE script' = script /\ ~QueueTask
  <2>1. TookOr(k, Len(queue)) /\ k \in 1..19
    BY <1>4, <1>6
  <2>2. /\ ~AckTask => OrNext(k, Len(queue))
        /\ AckTask => OrNext(k, Len(queue) - 1)
    BY <1>1, <1>4, <2>1, TookOrGoes
  <2>3. AckTask => Len(queue') = Len(queue) - 1
    BY AckTaskInv1
  <2> QED
    BY <1>6, <2>2, <2>3, QueueGoes
<1> QED
  BY <1>3, <1>5, <1>6

\* Every step keeps all initializations done or in the queue while it is processed.
LEMMA InitsQueuedNext ==
  ASSUME Inv1, Inv2, InitsQueueing, InitsQueued, InitTaken, [Next]_vars PROVE InitsQueued'
<1> SUFFICES ASSUME Initing', next' = 6, NEW k \in 1..19 PROVE OrNext(k, Len(queue'))
  BY DEF InitsQueued, TookOr, OrNext
<1>1. Initing
  BY InitingGoes
<1>2. Moonwalker /\ next \in {5, 6} /\ Len(queue) \in Nat
  BY <1>1, InitQueueIs DEF Initing
<1>3. CASE next = 6
  <2>1. TookOr(k, Len(queue))
    BY <1>1, <1>3 DEF InitsQueued
  <2>2. /\ ~AckTask => OrNext(k, Len(queue))
        /\ AckTask => OrNext(k, Len(queue) - 1)
    BY <1>1, <1>2, <2>1, TookOrGoes
  <2>3. AckTask => Len(queue') = Len(queue) - 1
    BY AckTaskInv1
  <2>4. ~QueueTask
    BY <1>3, QueueTaskInv1
  <2> QED
    BY <2>2, <2>3, <2>4, QueueGoes
<1>4. CASE next = 5
  <2>1. Current # "processQueue" /\ Current = "queueRootInitializations"
    BY <1>2, <1>4, RunbookIs DEF Current, Moonwalker
  <2>2. ScriptEnds
    BY <1>2, <1>4, <2>1, NextGoes DEF NextMoves, QueueProcessed
  <2>3. Runs("queueRootInitializations") /\ script.pc = Length(script.name)
    BY <2>1, <2>2, RunningIs, EndsWith DEF ScriptEnds, Runs
  <2>4. QueueTask /\ script.pc = 19
    BY <1>4, <2>3, QueuesOnly DEF Length, Runs
  <2>5. /\ Len(queue') = Len(queue) + 1
        /\ queue'[Len(queue) + 1]
             = [id |-> 27 + script.pc, step |-> FixedStep(RootInitializations[script.pc], file)]
    BY <1>4, <2>4, QueueTaskInv1
  <2>6. ~AckTask
    BY <2>2, <2>4 DEF AckTask, QueueTask, workerVars, ScriptEnds
  <2>7. CASE k = 19
    <3>1. queue'[Len(queue) + 1].id = 27 + k /\ Len(queue) + 1 \in 1..Len(queue')
      BY <1>2, <2>4, <2>5, <2>7
    <3> QED
      BY <3>1 DEF OrNext
  <2>8. CASE k # 19
    <3>1. k \in 1..(script.pc - 1)
      BY <2>4, <2>8
    <3>2. TookOr(k, Len(queue))
      BY <1>1, <2>3, <3>1 DEF InitsQueueing
    <3>3. OrNext(k, Len(queue))
      BY <1>1, <1>2, <2>6, <3>2, TookOrGoes
    <3>4. 1..Len(queue) \subseteq 1..Len(queue')
      BY <1>2, <2>5
    <3> QED
      BY <3>3, <3>4 DEF OrNext
  <2> QED
    BY <2>7, <2>8
<1> QED
  BY <1>2, <1>3, <1>4

\* A worker that has sent a task, or skipped it, had it before or does so now.
LEMMA WorkerGoes ==
  ASSUME [Next]_vars, worker' \in {"sent", "handled"}
  PROVE  \/ SendTask \/ SaveStatus
         \/ /\ worker' = worker /\ ~AckTask
<1>1. CASE StartScript \/ DeployContract \/ CallContract \/ CallReverts \/ TryCall \/ QueueTask
  BY <1>1 DEF StartScript, DeployContract, CallContract, CallReverts, TryCall, QueueTask, workerVars, AckTask
<1>2. CASE WriteFile \/ ExtractFile \/ InterruptScript \/ TryFails \/ Restart
  BY <1>2 DEF WriteFile, ExtractFile, InterruptScript, TryFails, Restart, workerVars, AckTask
<1>3. CASE StartWorker \/ AckTask \/ InterruptWorker \/ QueueProcessed
  BY <1>3 DEF StartWorker, AckTask, InterruptWorker, QueueProcessed
<1>4. CASE UNCHANGED vars
  BY <1>4 DEF vars, workerVars, AckTask
<1> QED
  BY <1>1, <1>2, <1>3, <1>4 DEF Next

\* Every step keeps the first task's initialization done once the worker tried it.
LEMMA InitTakenNext ==
  ASSUME Inv1, Inv2, Mapped, InitsInOrder, InitTaken, [Next]_vars PROVE InitTaken'
<1> SUFFICES ASSUME Initing', worker' \in {"sent", "handled"}
             PROVE  Took(Task'.id - 27, file', chain'.root)
  BY DEF InitTaken
<1>0. Inv1'
  BY NextInv1
<1>1. queue' # << >>
  BY <1>0 DEF Inv1, WorkerOK
<1>2. Initing
  BY <1>1, InitingGoes
<1>3. Moonwalker /\ next \in {5, 6} /\ next > ChildFiled
  BY <1>2, InitQueueIs DEF Initing
<1>4. CASE SendTask
  <2>1. Task' = Task /\ queue # << >>
    BY <1>4 DEF SendTask, Task
  <2>2. TaskOK /\ Task.id - 27 \in 1..19
    <3>1. TaskOK
      BY <1>4, SendTaskInv1
    <3>2. Task.id \in 28..46
      BY <1>3, <3>1 DEF TaskOK
    <3> QED
      BY <3>1, <3>2
  <2>3. CASE Sent(chain, chain', Task.step, TaskBook) /\ worker' = "sent"
    <3>1. WorkerTransacts
      BY <1>3, <1>4, <2>1, <2>2, <2>3 DEF WorkerTransacts, SendTask
    <3>2. InitGoes(Task.id - 27)
      BY <1>3, <3>1, WorkerInits
    <3> QED
      BY <2>1, <2>2, <3>2, InitTakes
  <2>4. CASE chain' = chain /\ ~Succeeds(Task.step, TaskBook)
    <3>1. Took(Task.id - 27, file, chain.root)
      BY <1>3, <2>1, <2>2, <2>4, WorkerSkips
    <3> QED
      BY <1>3, <2>1, <2>2, <3>1, TookStays
  <2> QED
    BY <1>4, <2>3, <2>4, SendTaskInv1
<1>5. CASE worker \in {"sent", "handled"} /\ ~AckTask
  <2>1. queue # << >> /\ Took(Task.id - 27, file, chain.root)
    BY <1>2, <1>5 DEF Inv1, WorkerOK, InitTaken
  <2>2. TaskOK /\ Task = queue[1] /\ Len(queue) \in Nat \ {0}
    BY <2>1, TaskIs DEF Inv1
  <2>3. Task.id - 27 \in 1..19
    <3>1. Task.id \in 28..46
      BY <1>3, <2>2 DEF TaskOK
    <3> QED
      BY <3>1
  <2>4. Task' = Task
    <3>1. CASE queue' = queue
      BY <3>1 DEF Task
    <3>2. CASE QueueTask
      <4>1. queue'[1] = queue[1]
        BY <2>2, <3>2, QueueTaskInv1
      <4>2. Task' = queue'[1]
        BY <1>0, <1>1 DEF Task
      <4> QED
        BY <2>2, <4>1, <4>2
    <3> QED
      BY <1>5, <3>1, <3>2, QueueGoes
  <2> QED
    BY <1>3, <2>1, <2>3, <2>4, TookStays
<1>6. SaveStatus => worker = "sent" /\ ~AckTask
  BY DEF SaveStatus, AckTask
<1> QED
  BY <1>4, <1>5, <1>6, WorkerGoes

\* Every step keeps all initializations done once they are.
LEMMA InitsDoneNext ==
  ASSUME Inv1, Inv2, InitsRun, InitsQueued, InitsDone, [Next]_vars PROVE InitsDone'
<1>0. /\ path' = path /\ RootInited' = RootInited /\ next \in Nat \ {0} /\ next' \in Nat
      /\ RootInited \in {3, 6} /\ ChildFiled < RootInited /\ Final > RootInited
  BY ChainGoes, NextGrows DEF RootInited, ChildFiled, Final, Truffle
<1> SUFFICES ASSUME next' > RootInited, NEW k \in 1..19 PROVE Took(k, file', chain'.root)
  BY <1>0 DEF InitsDone, TookUpTo
<1>1. CASE next > RootInited
  <2>1. Took(k, file, chain.root)
    BY <1>1 DEF InitsDone, TookUpTo
  <2>2. next > ChildFiled
    BY <1>0, <1>1 DEF ChildFiled
  <2> QED
    BY <2>1, <2>2, TookStays
<1>2. CASE ~(next > RootInited)
  <2>1. next = RootInited /\ next' = next + 1
    <3>1. next' = next \/ next' = next + 1 \/ next' = 1
      BY NextGoes DEF NextMoves, ScriptEnds, QueueProcessed
    <3> QED
      BY <1>0, <1>2, <3>1
  <2>2. next > ChildFiled
    BY <1>0, <2>1 DEF ChildFiled
  <2>3. CASE Truffle
    <3>1. next = 3 /\ Current = "migration4"
      BY <2>1, <2>3, RunbookIs DEF RootInited, Current, Truffle
    <3>2. ScriptEnds
      BY <2>1, <3>1, NextGoes DEF NextMoves, QueueProcessed
    <3>3. Runs("migration4") /\ script.pc = 19
      BY <3>1, <3>2, RunningIs, EndsWith DEF ScriptEnds, Runs, Length
    <3>4. Sent(chain, chain', Step, script.book) /\ script.book = file /\ file' = file
      <4>1. next' # next
        BY <2>1, <3>1
      <4> QED
        BY <3>3, <4>1, CallsOnly
    <3>5. InitGoes(script.pc)
      BY <3>3, <3>4, MigrationInits DEF Inv2
    <3>6. CASE k = 19
      BY <3>3, <3>5, <3>6, InitTakes
    <3>7. CASE k # 19
      <4>1. k \in 1..(script.pc - 1)
        BY <3>3, <3>7
      <4>2. Took(k, file, chain.root)
        BY <3>3, <4>1 DEF InitsRun, TookUpTo
      <4> QED
        BY <2>2, <4>2, TookStays
    <3> QED
      BY <3>6, <3>7
  <2>4. CASE ~Truffle
    <3>1. Moonwalker /\ next = 6
      BY <2>1, <2>4 DEF RootInited, Moonwalker, Truffle, Inv1, Control
    <3>2. script = NoScript
      BY <3>1, Processing
    <3>3. QueueProcessed
      BY <2>1, <3>1, <3>2, NextGoes DEF NextMoves, ScriptEnds
    <3>4. queue = << >> /\ Len(queue) = 0
      BY <3>3 DEF QueueProcessed
    <3>5. TookOr(k, Len(queue))
      BY <3>1 DEF InitsQueued, Initing
    <3>6. Took(k, file, chain.root)
      <4>1. 1..0 = {}
        OBVIOUS
      <4> QED
        BY <3>4, <3>5, <4>1 DEF TookOr
    <3> QED
      BY <2>2, <3>6, TookStays
  <2> QED
    BY <2>3, <2>4
<1> QED
  BY <1>1, <1>2

\* The fourth invariant holds at the start.
LEMMA InitInv4 == Init => Inv4
<1> SUFFICES ASSUME Init PROVE Inv4
  OBVIOUS
<1>1. /\ script = NoScript /\ next = 1 /\ chain = [root |-> << >>, child |-> << >>] /\ NoScript.name = "none"
  BY DEF Init, NoScript
<1>2. InitsRun /\ InitsInOrder /\ InitsQueueing /\ InitsQueued /\ InitTaken
  BY <1>1 DEF InitsRun, InitsInOrder, InitsQueueing, InitsQueued, InitTaken, Initing, Runs
<1>3. InitsDone /\ Registered /\ Mapped
  BY <1>1 DEF InitsDone, Registered, Mapped, RootInited, RootFiled, ChildFiled
<1>4. ManagersOK
  <2>1. DOMAIN chain.root = {}
    BY <1>1
  <2> QED
    BY <2>1 DEF ManagersOK
<1> QED
  BY <1>2, <1>3, <1>4 DEF Inv4

\* Every step keeps the fourth invariant.
LEMMA NextInv4 == Inv1 /\ Inv2 /\ Inv4 /\ [Next]_vars => Inv4'
BY InitsRunNext, InitsInOrderNext, InitsQueueingNext, InitsQueuedNext, InitTakenNext, InitsDoneNext,
   RegisteredNext, MappedNext, ManagersNext DEF Inv4

\* The fourth invariant: initializations are done in their order, and what the root
\* managers have registered and mapped can be deposited.
LEMMA Inv4Holds == Spec => []Inv4
<1> QED
  BY InitInv4, NextInv4, Inv1Holds, Inv2Holds, PTL DEF Spec

\* The addresses at which tokens of a type are.
LEMMA TokensAre ==
  ASSUME NEW ch, NEW t \in TokenType,
         NEW r \in {a \in DOMAIN ch : a[1] = RootToken(t)} \cup (IF HasRootToken(t) THEN {} ELSE {EtherAddress})
  PROVE  r \in DOMAIN ch \cup {EtherAddress} /\ IsTokenOf(r, t)
BY DEF IsTokenOf

\* What every manager has mapped can be deposited.
LEMMA MappedDeposits == ASSUME ManagersOK PROVE MappedCanDeposit
<1> SUFFICES ASSUME NEW m \in DOMAIN chain.root, m[1] = RootManagerProxy, NEW t \in TokenType,
                    NEW r \in {a \in DOMAIN chain.root : a[1] = RootToken(t)}
                                \cup (IF HasRootToken(t) THEN {} ELSE {EtherAddress}),
                    Slot(chain.root[m], <<"rootToChildToken", r>>) # None
             PROVE  LET p == Slot(chain.root[m], <<"typeToPredicate", t>>)
                    IN  /\ p # None /\ chain.root[p].inited
                        /\ <<"MANAGER", m>> \in chain.root[p].roles
                        /\ t = "MintableERC721" => <<"PREDICATE", p>> \in chain.root[r].roles
  BY DEF MappedCanDeposit
<1>1. ManagerOK(chain.root, m)
  BY DEF ManagersOK
<1>2. r \in DOMAIN chain.root \cup {EtherAddress} /\ IsTokenOf(r, t)
  BY TokensAre
<1>3. PredicateOK(chain.root, m, t) /\ TokenOK(chain.root, m, t, r)
  BY <1>1, <1>2, ManagerParts
<1> QED
  BY <1>2, <1>3 DEF PredicateOK, TokenOK, PredicateOf

\* At no moment of a deployment, whatever was interrupted and done again, has a
\* root manager mapped a token whose predicate would refuse its orders, or a
\* mintable token that the predicate may not mint.
THEOREM DepositsReady == Spec => []MappedCanDeposit
<1>1. Inv4 => MappedCanDeposit
  BY MappedDeposits DEF Inv4
<1> QED
  BY <1>1, Inv4Holds, PTL

\* What the child manager knows of a token, in its settings alone.
PairOK(c, r, x) == Slot(c, <<"rootToChildToken", r>>) = x /\ Slot(c, <<"childToRootToken", x>>) = r
PairMay(c, r, x) ==
  Slot(c, <<"rootToChildToken", r>>) \in {None, x} /\ Slot(c, <<"childToRootToken", x>>) \in {None, r}

\* Mapping a pair that may be mapped already cleans up nothing else.
LEMMA ChildMappedIs ==
  ASSUME NEW c, DOMAIN c = Fields, NEW r, NEW x, PairMay(c, r, x)
  PROVE  LET d == ChildMapped(c, r, x)
         IN  /\ d.inited = c.inited /\ d.roles = c.roles
             /\ PairOK(d, r, x)
             /\ \A s, y : s \notin {r, None} /\ y \notin {x, None} =>
                  /\ PairOK(c, s, y) => PairOK(d, s, y)
                  /\ PairMay(c, s, y) => PairMay(d, s, y)
<1> DEFINE oldChild == Slot(c, <<"rootToChildToken", r>>)
           oldRoot  == Slot(c, <<"childToRootToken", x>>)
           c1 == Written(c, <<"rootToChildToken", oldRoot>>, None)
           c2 == Written(c1, <<"childToRootToken", oldChild>>, None)
           c3 == Written(c2, <<"rootToChildToken", r>>, x)
           c4 == Written(c3, <<"childToRootToken", x>>, r)
<1>1. oldChild \in {None, x} /\ oldRoot \in {None, r}
  BY DEF PairMay
<1>2. ChildMapped(c, r, x) = c4
  BY DEF ChildMapped
<1>3. IsWritten(c1, c, <<"rootToChildToken", oldRoot>>, None)
  BY WrittenSlots
<1>4. IsWritten(c2, c1, <<"childToRootToken", oldChild>>, None)
  BY <1>3, WrittenSlots DEF IsWritten
<1>5. IsWritten(c3, c2, <<"rootToChildToken", r>>, x)
  BY <1>4, WrittenSlots DEF IsWritten
<1>6. IsWritten(c4, c3, <<"childToRootToken", x>>, r)
  BY <1>5, WrittenSlots DEF IsWritten
<1> HIDE DEF oldChild, oldRoot, c1, c2, c3, c4
<1>7. c4.inited = c.inited /\ c4.roles = c.roles
  BY <1>3, <1>4, <1>5, <1>6 DEF IsWritten
<1>8. PairOK(c4, r, x)
  <2>1. Slot(c4, <<"childToRootToken", x>>) = r
    BY <1>6 DEF IsWritten
  <2>2. <<"rootToChildToken", r>> # <<"childToRootToken", x>>
    OBVIOUS
  <2>3. Slot(c4, <<"rootToChildToken", r>>) = Slot(c3, <<"rootToChildToken", r>>)
    BY <1>6, <2>2 DEF IsWritten
  <2>4. Slot(c3, <<"rootToChildToken", r>>) = x
    BY <1>5 DEF IsWritten
  <2> QED
    BY <2>1, <2>3, <2>4 DEF PairOK
<1>9. ASSUME NEW s, s \notin {r, None}
      PROVE  Slot(c4, <<"rootToChildToken", s>>) = Slot(c, <<"rootToChildToken", s>>)
  <2> DEFINE key == <<"rootToChildToken", s>>
  <2>1. /\ key # <<"rootToChildToken", oldRoot>> /\ key # <<"rootToChildToken", r>>
        /\ key # <<"childToRootToken", oldChild>> /\ key # <<"childToRootToken", x>>
    BY <1>1, <1>9
  <2> HIDE DEF key
  <2>2. Slot(c1, key) = Slot(c, key)
    BY <1>3, <2>1 DEF IsWritten
  <2>3. Slot(c2, key) = Slot(c1, key)
    BY <1>4, <2>1 DEF IsWritten
  <2>4. Slot(c3, key) = Slot(c2, key)
    BY <1>5, <2>1 DEF IsWritten
  <2>5. Slot(c4, key) = Slot(c3, key)
    BY <1>6, <2>1 DEF IsWritten
  <2> QED
    BY <2>2, <2>3, <2>4, <2>5 DEF key
<1>10. ASSUME NEW y, y \notin {x, None}
       PROVE  Slot(c4, <<"childToRootToken", y>>) = Slot(c, <<"childToRootToken", y>>)
  <2> DEFINE key == <<"childToRootToken", y>>
  <2>1. /\ key # <<"rootToChildToken", oldRoot>> /\ key # <<"rootToChildToken", r>>
        /\ key # <<"childToRootToken", oldChild>> /\ key # <<"childToRootToken", x>>
    BY <1>1, <1>10
  <2> HIDE DEF key
  <2>2. Slot(c1, key) = Slot(c, key)
    BY <1>3, <2>1 DEF IsWritten
  <2>3. Slot(c2, key) = Slot(c1, key)
    BY <1>4, <2>1 DEF IsWritten
  <2>4. Slot(c3, key) = Slot(c2, key)
    BY <1>5, <2>1 DEF IsWritten
  <2>5. Slot(c4, key) = Slot(c3, key)
    BY <1>6, <2>1 DEF IsWritten
  <2> QED
    BY <2>2, <2>3, <2>4, <2>5 DEF key
<1>11. \A s, y : s \notin {r, None} /\ y \notin {x, None} =>
                  /\ PairOK(c, s, y) => PairOK(c4, s, y)
                  /\ PairMay(c, s, y) => PairMay(c4, s, y)
  <2>1. ASSUME NEW s, NEW y, s \notin {r, None}, y \notin {x, None}
        PROVE  /\ PairOK(c, s, y) => PairOK(c4, s, y)
               /\ PairMay(c, s, y) => PairMay(c4, s, y)
    <3>1. Slot(c4, <<"rootToChildToken", s>>) = Slot(c, <<"rootToChildToken", s>>)
      BY <1>9, <2>1
    <3>2. Slot(c4, <<"childToRootToken", y>>) = Slot(c, <<"childToRootToken", y>>)
      BY <1>10, <2>1
    <3> QED
      BY <3>1, <3>2 DEF PairOK, PairMay
  <2> QED
    BY <2>1
<1> QED
  BY <1>2, <1>7, <1>8, <1>11

\* The child manager's pairs are those of the file's addresses.
PairsMay(book, ch) == \A t \in TokenType : ChildMapMay(t, book, ch)

\* What the k-th call of migration 5 does to the child chain.
ChildActs(k, book, ch, ch2) ==
  LET a == book.child[ChildManagerProxy]
      t == TypeList[k - 1]
  IN  /\ a \in DOMAIN ch /\ DOMAIN ch2 = DOMAIN ch
      /\ \A b \in DOMAIN ch : b # a => ch2[b] = ch[b]
      /\ IF k = 1
         THEN /\ ch2[a].inited = ch[a].inited /\ ch2[a].slots = ch[a].slots
              /\ ch2[a].roles = ch[a].roles \cup {<<"STATE_SYNCER", StateReceiver>>}
         ELSE ch2[a] = ChildMapped(ch[a], RootAtOf(t, book), book.child[ChildToken(t)])

\* The pairs of the file's tokens, as the child manager's settings have them.
LEMMA PairIs ==
  ASSUME NEW t, NEW book, NEW ch
  PROVE  LET c == ChildManagerIn(book, ch)
             r == RootAtOf(t, book)
             x == book.child[ChildToken(t)]
         IN  /\ ChildMapOK(t, book, ch) <=> PairOK(c, r, x)
             /\ ChildMapMay(t, book, ch) <=> PairMay(c, r, x)
BY DEF ChildMapOK, ChildMapMay, PairOK, PairMay

\* A manager that keeps its pairs keeps its part of what migration 5 did.
LEMMA SamePairs ==
  ASSUME NEW book, NEW ch, NEW ch2, ChildManagerIn(book, ch2).slots = ChildManagerIn(book, ch).slots
  PROVE  /\ \A t \in TokenType : ChildMapOK(t, book, ch) => ChildMapOK(t, book, ch2)
         /\ PairsMay(book, ch) => PairsMay(book, ch2)
BY DEF ChildMapOK, ChildMapMay, PairsMay, Slot

\* The manager's role stays.
LEMMA SyncerStays ==
  ASSUME NEW book, NEW ch, NEW ch2, FiledChild(book, ch), KeepsRoles(ch, ch2), ChildTook(1, book, ch)
  PROVE  ChildTook(1, book, ch2)
<1> DEFINE a == book.child[ChildManagerProxy]
<1>1. a \in DOMAIN ch /\ ch[a].inited
  BY NamesIn DEF FiledChild
<1>2. <<"STATE_SYNCER", StateReceiver>> \in ch[a].roles
  BY DEF ChildTook, ChildManagerIn
<1>3. \A role \in ch[a].roles : role[1] # "DEFAULT_ADMIN" => role \in ch2[a].roles
  BY <1>1 DEF KeepsRoles
<1>4. <<"STATE_SYNCER", StateReceiver>> \in ch2[a].roles
  BY <1>2, <1>3
<1> QED
  BY <1>4 DEF ChildTook, ChildManagerIn

\* A child token's manager may go on depositing.
LEMMA DepositorStays ==
  ASSUME NEW book, NEW ch, NEW ch2, KeepsRoles(ch, ch2), NEW t \in TokenType,
         book[ChildToken(t)] \in DOMAIN ch, book[ChildToken(t)][1] = ChildToken(t), DepositorIn(t, book, ch)
  PROVE  DepositorIn(t, book, ch2)
<1> DEFINE a == book[ChildToken(t)]  m == book[ChildManagerProxy]
<1>1. a[1] \notin Proxies
  BY NamesIn
<1>2. \A role \in ch[a].roles : role[1] # "DEFAULT_ADMIN" => role \in ch2[a].roles
  BY <1>1 DEF KeepsRoles
<1>3. <<"DEPOSITOR", m>> \in ch[a].roles
  BY DEF DepositorIn
<1>4. <<"DEPOSITOR", m>>[1] # "DEFAULT_ADMIN"
  OBVIOUS
<1> HIDE DEF a, m
<1>5. <<"DEPOSITOR", m>> \in ch2[a].roles
  BY <1>2, <1>3, <1>4
<1> QED
  BY <1>5 DEF DepositorIn, a, m

\* What takes nothing takes nothing that migration 5 did.
LEMMA GentleChild ==
  ASSUME NEW book, NEW ch, NEW ch2, FiledChild(book, ch), Gentle(ch, ch2)
  PROVE  /\ \A j \in 1..6 : ChildTook(j, book, ch) => ChildTook(j, book, ch2)
         /\ PairsMay(book, ch) => PairsMay(book, ch2)
<1>1. ChildManagerIn(book, ch2).slots = ChildManagerIn(book, ch).slots
  <2>1. book.child[ChildManagerProxy] \in DOMAIN ch
    BY NamesIn DEF FiledChild
  <2> QED
    BY <2>1 DEF Gentle, ChildManagerIn
<1>2. ASSUME NEW j \in 1..6, ChildTook(j, book, ch) PROVE ChildTook(j, book, ch2)
  <2>1. CASE j = 1
    BY <1>2, <2>1, SyncerStays DEF Gentle
  <2>2. CASE j # 1
    <3>1. j - 1 \in 1..5
      BY <2>2
    <3>2. TypeList[j - 1] \in TokenType
      BY <3>1, Types
    <3>3. ChildMapOK(TypeList[j - 1], book, ch)
      BY <1>2, <2>2 DEF ChildTook
    <3>4. ChildMapOK(TypeList[j - 1], book, ch2)
      BY <1>1, <3>2, <3>3, SamePairs
    <3> QED
      BY <2>2, <3>4 DEF ChildTook
  <2> QED
    BY <2>1, <2>2
<1> QED
  BY <1>1, <1>2, SamePairs

\* The root tokens and the child tokens of two types differ, and none is zero.
LEMMA PairsApart ==
  ASSUME NEW book, NEW chr, NEW ch, FiledRoot(book, chr), FiledChild(book, ch), NEW s \in TokenType, NEW t \in TokenType,
         s # t
  PROVE  /\ RootAtOf(s, book) \notin {RootAtOf(t, book), None}
         /\ book.child[ChildToken(s)] \notin {book.child[ChildToken(t)], None}
<1>1. RootAtOf(s, book) # RootAtOf(t, book)
  BY RootAtDiffers
<1>2. RootAtOf(s, book) # None
  BY RootAtIs
<1>3. book.child[ChildToken(s)] # book.child[ChildToken(t)]
  BY ChildAtDiffers
<1>4. book.child[ChildToken(s)] # None
  BY NamesIn DEF FiledChild
<1> QED
  BY <1>1, <1>2, <1>3, <1>4

\* What a call of migration 5 leaves of what was there.
LEMMA ChildActsKeeps ==
  ASSUME NEW k \in 1..6, NEW book, NEW chr, NEW ch, NEW ch2, FiledRoot(book, chr), FiledChild(book, ch),
         ChildActs(k, book, ch, ch2), PairsMay(book, ch)
  PROVE  /\ KeepsRoles(ch, ch2) /\ PairsMay(book, ch2) /\ ChildTook(k, book, ch2)
         /\ \A j \in 1..6 : ChildTook(j, book, ch) => ChildTook(j, book, ch2)
<1> DEFINE a == book.child[ChildManagerProxy]
           t == TypeList[k - 1]
           r == RootAtOf(t, book)
           x == book.child[ChildToken(t)]
<1>1. /\ a \in DOMAIN ch /\ DOMAIN ch2 = DOMAIN ch /\ \A b \in DOMAIN ch : b # a => ch2[b] = ch[b]
      /\ DOMAIN ch[a] = Fields
  BY DEF ChildActs, FiledChild
<1>2. ChildManagerIn(book, ch) = ch[a] /\ ChildManagerIn(book, ch2) = ch2[a]
  BY DEF ChildManagerIn
<1>3. CASE k = 1
  <2>1. /\ ch2[a].inited = ch[a].inited /\ ch2[a].slots = ch[a].slots
        /\ ch2[a].roles = ch[a].roles \cup {<<"STATE_SYNCER", StateReceiver>>}
    BY <1>3 DEF ChildActs
  <2>2. KeepsRoles(ch, ch2)
    BY <1>1, <2>1 DEF KeepsRoles
  <2>3. Gentle(ch, ch2)
    BY <1>1, <2>1, <2>2 DEF Gentle
  <2>4. ChildTook(k, book, ch2)
    BY <1>2, <1>3, <2>1 DEF ChildTook
  <2> QED
    BY <2>2, <2>3, <2>4, GentleChild
<1>4. CASE k # 1
  <2>1. ch2[a] = ChildMapped(ch[a], r, x)
    BY <1>4 DEF ChildActs
  <2>2. k - 1 \in 1..5 /\ t \in TokenType
    BY <1>4, Types
  <2>3. PairMay(ch[a], r, x)
    <3>1. ChildMapMay(t, book, ch)
      BY <2>2 DEF PairsMay
    <3> QED
      BY <1>2, <3>1, PairIs
  <2> HIDE DEF r, x, a, t
  <2>4. /\ ch2[a].inited = ch[a].inited /\ ch2[a].roles = ch[a].roles
        /\ PairOK(ch2[a], r, x)
        /\ \A s, y : s \notin {r, None} /\ y \notin {x, None} =>
              /\ PairOK(ch[a], s, y) => PairOK(ch2[a], s, y)
              /\ PairMay(ch[a], s, y) => PairMay(ch2[a], s, y)
    BY <1>1, <2>1, <2>3, ChildMappedIs
  <2>5. KeepsRoles(ch, ch2)
    BY <1>1, <2>4 DEF KeepsRoles
  <2>6. ChildMapOK(t, book, ch2)
    BY <1>2, <2>4, PairIs DEF r, x
  <2>7. ASSUME NEW s \in TokenType, s # t
        PROVE  /\ ChildMapOK(s, book, ch) => ChildMapOK(s, book, ch2)
               /\ ChildMapMay(s, book, ch) => ChildMapMay(s, book, ch2)
    <3>1. /\ RootAtOf(s, book) \notin {r, None}
          /\ book.child[ChildToken(s)] \notin {x, None}
      BY <2>2, <2>7, PairsApart DEF r, x
    <3>2. /\ PairOK(ch[a], RootAtOf(s, book), book.child[ChildToken(s)])
               => PairOK(ch2[a], RootAtOf(s, book), book.child[ChildToken(s)])
          /\ PairMay(ch[a], RootAtOf(s, book), book.child[ChildToken(s)])
               => PairMay(ch2[a], RootAtOf(s, book), book.child[ChildToken(s)])
      BY <2>4, <3>1
    <3> QED
      BY <1>2, <3>2, PairIs
  <2>8. ChildMapMay(t, book, ch2)
    BY <2>6 DEF ChildMapOK, ChildMapMay
  <2>9. PairsMay(book, ch2)
    BY <2>7, <2>8 DEF PairsMay
  <2>10. ChildTook(k, book, ch2)
    BY <1>4, <2>6 DEF ChildTook, t
  <2>11. ASSUME NEW j \in 1..6, ChildTook(j, book, ch) PROVE ChildTook(j, book, ch2)
    <3>1. CASE j = 1
      BY <2>5, <2>11, <3>1, SyncerStays
    <3>2. CASE j # 1
      <4>1. j - 1 \in 1..5
        BY <3>2
      <4>2. TypeList[j - 1] \in TokenType
        BY <4>1, Types
      <4>3. ChildMapOK(TypeList[j - 1], book, ch)
        BY <2>11, <3>2 DEF ChildTook
      <4>4. ChildMapOK(TypeList[j - 1], book, ch2)
        BY <2>6, <2>7, <4>2, <4>3
      <4> QED
        BY <3>2, <4>4 DEF ChildTook
    <3> QED
      BY <3>1, <3>2
  <2> QED
    BY <2>5, <2>9, <2>10, <2>11
<1> QED
  BY <1>3, <1>4

\* The k-th call of migration 5 is under way.
MapsChild(k) ==
  /\ Runs("migration5") /\ script.pc = k
  /\ ChildActs(k, file, chain.child, chain'.child)
  /\ file' = file /\ next > ChildFiled

\* What the calls of migration 5 are, and their arguments with the file's addresses.
LEMMA ChildStepIs ==
  ASSUME NEW k \in 1..6, NEW book, NEW chr, NEW ch, FiledRoot(book, chr), FiledChild(book, ch)
  PROVE  LET s == Migration5[k]
             t == TypeList[k - 1]
         IN  /\ s.op = "call" /\ s.at = Child(ChildManagerProxy)
             /\ k = 1 => /\ s.method = "grantRole"
                         /\ ResolveAll(s.args, book) = <<"STATE_SYNCER", StateReceiver>>
             /\ k # 1 => /\ s.method = "mapChildToken"
                         /\ ResolveAll(s.args, book) = <<RootAtOf(t, book), book.child[ChildToken(t)]>>
<1>1. CASE k = 1
  <2>1. Migration5[1] = Call(Child(ChildManagerProxy), "grantRole", <<Value("STATE_SYNCER"), Value(StateReceiver)>>)
    BY Migration5At DEF GrantSyncer
  <2>2. ResolveAll(<<Value("STATE_SYNCER"), Value(StateReceiver)>>, book) = <<"STATE_SYNCER", StateReceiver>>
    <3>1. Resolve(Value("STATE_SYNCER"), book) = "STATE_SYNCER" /\ Resolve(Value(StateReceiver), book) = StateReceiver
      BY RefIs
    <3> QED
      BY <3>1, ResolvedTwo
  <2> QED
    BY <1>1, <2>1, <2>2 DEF Call
<1>2. CASE k # 1
  <2> DEFINE t == TypeList[k - 1]
  <2>1. k - 1 \in 1..5 /\ 1 + (k - 1) = k
    BY <1>2
  <2>2. Migration5[k] = MapChild(t) /\ t \in TokenType
    BY <2>1, Migration5At, Types
  <2> HIDE DEF t
  <2>3. Resolve(RootTokenOf(t), book) = RootAtOf(t, book)
    <3>1. CASE HasRootToken(t)
      <4>1. RootToken(t) \in DOMAIN book.root
        BY <2>2, <3>1, NamesIn DEF FiledRoot
      <4> QED
        BY <3>1, <4>1, RefIs DEF RootTokenOf, RootAtOf
    <3>2. CASE ~HasRootToken(t)
      BY <3>2, RefIs DEF RootTokenOf, RootAtOf
    <3> QED
      BY <3>1, <3>2
  <2>4. Resolve(Child(ChildToken(t)), book) = book.child[ChildToken(t)]
    <3>1. ChildToken(t) \in DOMAIN book.child
      BY <2>2, NamesIn DEF FiledChild
    <3> QED
      BY <3>1, RefIs
  <2>5. ResolveAll(<<RootTokenOf(t), Child(ChildToken(t))>>, book) = <<RootAtOf(t, book), book.child[ChildToken(t)]>>
    BY <2>3, <2>4, ResolvedTwo
  <2>6. /\ MapChild(t).op = "call" /\ MapChild(t).at = Child(ChildManagerProxy) /\ MapChild(t).method = "mapChildToken"
        /\ MapChild(t).args = <<RootTokenOf(t), Child(ChildToken(t))>>
    BY DEF MapChild, Call
  <2> QED
    BY <1>2, <2>2, <2>5, <2>6 DEF t
<1> QED
  BY <1>1, <1>2

\* A call of migration 5 does what it is for.
LEMMA MigrationMaps ==
  ASSUME Inv1, FileReady, Runs("migration5"), Sent(chain, chain', Step, script.book), script.book = file,
         file' = file
  PROVE  script.pc \in 1..6 /\ MapsChild(script.pc)
<1> DEFINE k == script.pc
           a == file.child[ChildManagerProxy]
           t == TypeList[k - 1]
           ch == chain["child"]
           ch2 == chain'["child"]
           args == ResolveAll(Step.args, file)
<1>1. script # NoScript /\ script.name = "migration5" /\ k \in 1..6
  BY RunningIs DEF Runs, Length
<1>2. next > ChildFiled /\ next > RootFiled
  <2>1. next > ChildFiled
    BY CallsAreLate
  <2>2. next \in Nat
    BY <1>1, RunningIs
  <2> QED
    BY <2>1, <2>2 DEF ChildFiled, RootFiled
<1>3. FiledRoot(file, chain.root) /\ FiledChild(file, chain.child)
  BY <1>2, FiledNow
<1>4. Step = Migration5[k]
  BY <1>1 DEF Step, Steps
<1>5. /\ Step.op = "call" /\ Step.at = Child(ChildManagerProxy)
      /\ k = 1 => Step.method = "grantRole" /\ args = <<"STATE_SYNCER", StateReceiver>>
      /\ k # 1 => Step.method = "mapChildToken" /\ args = <<RootAtOf(t, file), file.child[ChildToken(t)]>>
  BY <1>1, <1>3, <1>4, ChildStepIs
<1>6. Step.at[1] = "child" /\ Step.at[2] = ChildManagerProxy
  BY <1>5 DEF Child
<1>7. Calls(ch, ch2, a, Step.method, args) /\ a \in DOMAIN ch /\ a[1] = ChildManagerProxy
  BY <1>5, <1>6 DEF Sent
<1>8. ch[a].impl # None /\ ch[a].inited \in BOOLEAN
  BY <1>3, <1>7, NamesIn DEF FiledChild
<1>9. Reaches(ch, a, Step.method)
  BY <1>7, <1>8 DEF Reaches, Forwards
<1> HIDE DEF k, a, t, ch, ch2, args
<1>10. /\ DOMAIN ch2 = DOMAIN ch
       /\ \A b \in DOMAIN ch : b # a => ch2[b] = ch[b]
       /\ IsResult(ch2[a], a[1], ch[a], Step.method, args)
       /\ ch2[a] = Result(a[1], ch[a], Step.method, args)
  BY <1>7, <1>9 DEF Calls
<1>11. CASE k = 1
  <2>1. Step.method = "grantRole" /\ args = <<"STATE_SYNCER", StateReceiver>>
    BY <1>5, <1>11
  <2>2. /\ ch2[a].inited = ch[a].inited /\ ch2[a].slots = ch[a].slots
        /\ ch2[a].roles = ch[a].roles \cup {<<"STATE_SYNCER", StateReceiver>>}
    BY <1>8, <1>10, <2>1 DEF IsResult
  <2>3. ChildActs(k, file, ch, ch2)
    BY <1>7, <1>10, <1>11, <2>2 DEF ChildActs, a
  <2> QED
    BY <1>1, <1>2, <2>3 DEF MapsChild, k, ch, ch2
<1>12. CASE k # 1
  <2>1. Step.method = "mapChildToken" /\ args = <<RootAtOf(t, file), file.child[ChildToken(t)]>>
    BY <1>5, <1>12
  <2>2. Result(a[1], ch[a], "mapChildToken", args) = ChildMapped(ch[a], args[1], args[2])
    BY DEF Result
  <2>3. ch2[a] = ChildMapped(ch[a], RootAtOf(t, file), file.child[ChildToken(t)])
    BY <1>10, <2>1, <2>2
  <2>4. ChildActs(k, file, ch, ch2)
    BY <1>7, <1>10, <1>12, <2>3 DEF ChildActs, a, t
  <2> QED
    BY <1>1, <1>2, <2>4 DEF MapsChild, k, ch, ch2
<1> QED
  BY <1>1, <1>11, <1>12 DEF k

\* What changes the contracts of the child chain: a call of migration 5, or a step
\* that takes nothing from them.
LEMMA ChildGoes ==
  ASSUME Inv1, Inv2, [Next]_vars
  PROVE  Gentle(chain.child, chain'.child) \/ \E k \in 1..6 : MapsChild(k)
<1>0. ChainsOK(chain) /\ "child" \in Sides
  BY DEF Inv1, Sides
<1>1. CASE chain'.child = chain.child
  BY <1>1, GentleStays
<1>2. CASE ScriptTransacts /\ chain'.child # chain.child
  <2>1. /\ script # NoScript /\ Sent(chain, chain', Step, script.book) /\ file' = file
        /\ KindOK(script.name, script.pc, Step) /\ script.name \in ScriptNames
        /\ Step \in StepSet(script.name)
    BY <1>2, RunningIs, StepIn DEF ScriptTransacts
  <2>2. Step.at[1] = "child" /\ Step.op \in {"new", "call", "try"}
    BY <1>2 DEF ScriptTransacts, Sent, Sides
  <2>3. GentleStep(Step, script.book) => Gentle(chain.child, chain'.child)
    BY <1>0, <2>1, <2>2, GentleSends
  <2>4. CASE Step.op = "new"
    BY <2>3, <2>4 DEF GentleStep
  <2>5. CASE Step.op = "call" /\ script.name = "migration3"
    <3>1. Step \in ChildDeploys
      BY <2>1, <2>5 DEF StepSet, WriteAddresses
    <3>2. Step = Call(Child(ChildManagerProxy), "updateAndCall", <<Child(ChildManager)>>)
      BY <2>5, <3>1 DEF ChildDeploys, New, Call
    <3>3. Step.method = "updateAndCall" /\ Step.at[2] \in Proxies
      BY <3>2, NamesIn DEF Call, Child
    <3> QED
      BY <2>3, <3>3 DEF GentleStep
  <2>6. CASE Step.op = "call" /\ script.name = "migration5"
    <3>1. Runs("migration5") /\ script.book = file
      BY <2>1, <2>6 DEF Runs, Inv1, ScriptOK, Readers
    <3> QED
      BY <2>1, <3>1, MigrationMaps DEF Inv2
  <2>7. CASE Step.op = "try"
    <3>1. ChangesOwners("child")
      BY <2>1, <2>2, <2>7, OwnersAre DEF KindOK, ChangesOwners, Sides
    <3> QED
      BY <1>0, <2>3, <3>1, OwnersGently
  <2> QED
    BY <2>1, <2>2, <2>4, <2>5, <2>6, <2>7 DEF KindOK
<1>3. CASE WorkerTransacts
  <2>1. TaskOK /\ Sent(chain, chain', Task.step, TaskBook)
    BY <1>3 DEF WorkerTransacts
  <2>2. chain'.child = chain.child
    BY <2>1 DEF Sent, TaskOK, Sides
  <2> QED
    BY <2>2, GentleStays
<1> QED
  BY <1>1, <1>2, <1>3, ChainGoes DEF ChainMoves

\* No step takes a role on the child chain but the admin's, and once migration 3 is
\* done none takes what migration 5 did.
LEMMA ChildKept ==
  ASSUME Inv1, Inv2, ChildFile, [Next]_vars
  PROVE  /\ KeepsRoles(chain.child, chain'.child)
         /\ next > ChildFiled =>
              /\ file' = file /\ PairsMay(file', chain'.child)
              /\ \A j \in 1..6 : ChildTook(j, file, chain.child) => ChildTook(j, file', chain'.child)
<1>1. next > ChildFiled =>
        /\ file' = file /\ PairsMay(file, chain.child)
        /\ FiledRoot(file, chain.root) /\ FiledChild(file, chain.child)
  <2>1. SUFFICES ASSUME next > ChildFiled
                 PROVE  /\ file' = file /\ PairsMay(file, chain.child)
                        /\ FiledRoot(file, chain.root) /\ FiledChild(file, chain.child)
    OBVIOUS
  <2>2. next > RootFiled
    BY <2>1 DEF ChildFiled, RootFiled, Inv1, Control
  <2> QED
    BY <2>1, <2>2, FileStays, FiledNow DEF Inv2, ChildFile, PairsMay
<1>2. CASE Gentle(chain.child, chain'.child)
  <2>1. KeepsRoles(chain.child, chain'.child)
    BY <1>2 DEF Gentle
  <2>2. FiledChild(file, chain.child) =>
          /\ \A j \in 1..6 : ChildTook(j, file, chain.child) => ChildTook(j, file, chain'.child)
          /\ PairsMay(file, chain.child) => PairsMay(file, chain'.child)
    BY <1>2, GentleChild
  <2>3. file' = file => /\ PairsMay(file', chain'.child) <=> PairsMay(file, chain'.child)
                        /\ \A j \in 1..6 : ChildTook(j, file', chain'.child) <=> ChildTook(j, file, chain'.child)
    OBVIOUS
  <2> QED
    BY <1>1, <2>1, <2>2, <2>3
<1>3. ASSUME NEW k \in 1..6, MapsChild(k)
      PROVE  /\ KeepsRoles(chain.child, chain'.child)
             /\ file' = file /\ PairsMay(file', chain'.child)
             /\ \A j \in 1..6 : ChildTook(j, file, chain.child) => ChildTook(j, file', chain'.child)
  <2>1. ChildActs(k, file, chain.child, chain'.child) /\ next > ChildFiled
    BY <1>3 DEF MapsChild
  <2>2. /\ KeepsRoles(chain.child, chain'.child) /\ PairsMay(file, chain'.child)
        /\ \A j \in 1..6 : ChildTook(j, file, chain.child) => ChildTook(j, file, chain'.child)
    BY <1>1, <2>1, ChildActsKeeps
  <2> QED
    BY <1>1, <2>1, <2>2
<1> QED
  BY <1>2, <1>3, ChildGoes

\* What a call of migration 5 has left when it was done.
LEMMA MapsTakes ==
  ASSUME Inv1, Inv2, ChildFile, NEW k \in 1..6, MapsChild(k) PROVE ChildTook(k, file', chain'.child)
<1>1. ChildActs(k, file, chain.child, chain'.child) /\ next > ChildFiled /\ file' = file
  BY DEF MapsChild
<1>2. next > RootFiled
  BY <1>1 DEF ChildFiled, RootFiled, Inv1, Control
<1>3. FiledRoot(file, chain.root) /\ FiledChild(file, chain.child) /\ PairsMay(file, chain.child)
  BY <1>1, <1>2, FiledNow DEF Inv2, ChildFile, PairsMay
<1>4. ChildTook(k, file, chain'.child)
  BY <1>1, <1>3, ChildActsKeeps
<1> QED
  BY <1>1, <1>4

\* Migration 3 deploys the child tokens after their manager.
LEMMA ChildDeployStep ==
  ASSUME Inv1, Runs("migration3"), script.pc \in 1..8
  PROVE  \/ script.pc > 3 /\ \E t \in TokenType : Step = New(Child(ChildToken(t)), <<Child(ChildManagerProxy)>>)
         \/ script.pc <= 3 /\ Step.at[2] \notin ChildTokens
<1>1. Step = Migration3[script.pc]
  BY DEF Runs, Step, Steps
<1>2. CASE script.pc > 3
  <2>1. script.pc - 3 \in 1..5 /\ 3 + (script.pc - 3) = script.pc
    BY <1>2
  <2>2. TypeList[script.pc - 3] \in TokenType
    BY <2>1, Types
  <2>3. Step = New(Child(ChildToken(TypeList[script.pc - 3])), <<Child(ChildManagerProxy)>>)
    BY <1>1, <2>1, Migration3At
  <2> QED
    BY <1>2, <2>2, <2>3
<1>3. CASE script.pc <= 3
  <2>1. script.pc \in {1, 2, 3}
    BY <1>3
  <2>2. Step \in {New(Child(ChildManager), << >>), New(Child(ChildManagerProxy), << >>),
                  Call(Child(ChildManagerProxy), "updateAndCall", <<Child(ChildManager)>>)}
    BY <1>1, <2>1, Migration3At
  <2>3. Step.at[2] \in {ChildManager, ChildManagerProxy}
    BY <2>2 DEF New, Call, Child
  <2>4. Step.at[2] \notin ChildTokens
    BY <2>3 DEF ChildTokens, ChildToken, ChildManager, ChildManagerProxy
  <2> QED
    BY <1>3, <2>4
<1> QED
  BY <1>2, <1>3

\* How migration 3 goes on.
DeploysNext ==
  /\ script'.pc = script.pc + 1 /\ script.pc \in 1..8
  /\ Sent(chain, chain', Step, script.book) /\ Step.at[1] = "child"
  /\ \/ Step.op = "call" /\ script'.book = script.book
     \/ /\ Step.op = "new"
        /\ IsPut(script'.book.child, script.book.child, Step.at[2], NextAddress(chain.child, Step.at[2]))

\* Migration 3 stays at its step, or takes it.
LEMMA Migration3Goes ==
  ASSUME Inv1, [Next]_vars, Runs("migration3"), script' # NoScript
  PROVE  script' = script \/ DeploysNext
<1>1. /\ script # NoScript /\ script.name = "migration3" /\ script.pc \in 1..9 /\ Length(script.name) = 9
      /\ script.errors \in BOOLEAN /\ BookOK(script.book, chain) /\ KindOK(script.name, script.pc, Step)
  BY RunningIs DEF Runs, Length
<1>2. Step.op \in {"new", "call", "write"} /\ (Step.op = "write" <=> script.pc = 9)
  BY <1>1, MigrationSteps DEF Step, Length
<1>3. script.pc + 1 \in Nat
  BY <1>1
<1>4. CASE DeployContract
  <2>1. Step.op = "new" /\ Sent(chain, chain', Step, script.book)
    BY <1>4, DeployContractInv1
  <2>2. Step.at[1] = "child" /\ script.pc \in 1..8
    BY <1>1, <1>2, <2>1 DEF KindOK
  <2> DEFINE book == [script.book EXCEPT ![Step.at[1]] = Put(@, Step.at[2], AddressOfNew(Step))]
  <2>3. Advance(book)
    BY <1>4 DEF DeployContract
  <2>4. book["child"] = Put(script.book["child"], Step.at[2], NextAddress(chain["child"], Step.at[2]))
    BY <1>1, <2>2 DEF BookOK, Sides, AddressOfNew
  <2> HIDE DEF book
  <2>5. ScriptMoves(script.pc + 1, book, script.errors)
    BY <1>1, <1>3, <2>3, Moves DEF Advance
  <2>6. script'.pc = script.pc + 1 /\ script'.book = book
    BY <1>1, <2>2, <2>5 DEF ScriptMoves
  <2> QED
    BY <2>1, <2>2, <2>4, <2>6, PutIs DEF DeploysNext
<1>5. CASE CallContract
  <2>1. Step.op = "call" /\ Sent(chain, chain', Step, script.book)
    BY <1>5, CallContractInv1
  <2>2. Step.at[1] = "child" /\ script.pc \in 1..8
    BY <1>1, <1>2, <2>1 DEF KindOK
  <2>3. Advance(script.book)
    BY <1>5 DEF CallContract
  <2>5. ScriptMoves(script.pc + 1, script.book, script.errors)
    BY <1>1, <1>3, <2>3, Moves DEF Advance
  <2>6. script'.pc = script.pc + 1 /\ script'.book = script.book
    BY <1>1, <2>2, <2>5 DEF ScriptMoves
  <2> QED
    BY <2>1, <2>2, <2>6 DEF DeploysNext
<1>6. CASE WriteFile
  <2>1. Step.op = "write" /\ Advance(script.book)
    BY <1>6 DEF WriteFile, Running, Step
  <2>2. script.pc = 9
    BY <1>2, <2>1
  <2>3. ScriptMoves(script.pc + 1, script.book, script.errors)
    BY <1>1, <1>3, <2>1, Moves DEF Advance
  <2> QED
    BY <1>1, <2>2, <2>3 DEF ScriptMoves
<1>7. CASE TryCall \/ TryFails \/ QueueTask \/ ExtractFile
  <2>1. Step.op \in {"try", "queue", "extract"}
    BY <1>7 DEF TryCall, TryFails, QueueTask, ExtractFile, Running, Step
  <2> QED
    BY <1>2, <2>1
<1>8. CASE CallReverts \/ InterruptScript \/ Restart \/ StartScript
  BY <1>1, <1>8 DEF CallReverts, InterruptScript, Restart, StartScript
<1>9. CASE StartWorker \/ SendTask \/ SaveStatus \/ AckTask \/ InterruptWorker \/ QueueProcessed \/ UNCHANGED vars
  BY <1>9 DEF StartWorker, SendTask, SaveStatus, AckTask, InterruptWorker, QueueProcessed, vars
<1> QED
  BY <1>4, <1>5, <1>6, <1>7, <1>8, <1>9 DEF Next

\* The tokens that migration 3 has deployed are those in its book.
LEMMA ScriptTokens ==
  ASSUME Inv1, Runs("migration3"), NEW t \in TokenType, ChildToken(t) \in DOMAIN script.book.child
  PROVE  /\ script.book.child[ChildToken(t)] \in DOMAIN chain.child
         /\ script.book.child[ChildToken(t)][1] = ChildToken(t)
<1>1. BookOK(script.book, chain)
  BY RunningIs DEF Runs
<1> QED
  BY <1>1 DEF BookOK, Sides

\* A new child token takes deposits from the manager that the script deployed.
LEMMA NewDepositor ==
  ASSUME Inv1, Runs("migration3"), DeploysNext, Step.op = "new", script.pc > 3, NEW t \in TokenType,
         Step = New(Child(ChildToken(t)), <<Child(ChildManagerProxy)>>)
  PROVE  DepositorIn(t, script'.book.child, chain'.child)
<1> DEFINE name == ChildToken(t)
           new == NextAddress(chain.child, name)
           m == script.book.child[ChildManagerProxy]
<1>1. /\ Step.at[1] = "child" /\ Step.at[2] = name /\ Step.args = <<Child(ChildManagerProxy)>>
  BY DEF New, Child
<1>2. Deploys(chain["child"], chain'["child"], name, ResolveAll(Step.args, script.book))
  BY <1>1 DEF DeploysNext, Sent
<1>3. ChildManagerProxy \in DOMAIN script.book.child
  BY DEF Inv1, ScriptOK, Runs
<1>4. ResolveAll(Step.args, script.book) = <<m>>
  <2>1. Resolve(Child(ChildManagerProxy), script.book) = m
    BY <1>3, RefIs
  <2> QED
    BY <1>1, <2>1, ResolvedOne
<1>5. chain'["child"][new] = Constructed(name, <<m>>)
  BY <1>2, <1>4 DEF Deploys
<1>6. <<"DEPOSITOR", m>> \in Constructed(name, <<m>>).roles
  <2>1. name # RootToken("MintableERC721") /\ name \in {ChildToken(s) : s \in TokenType}
    BY DEF ChildToken, RootToken
  <2> HIDE DEF name, m
  <2>2. ConstructorRoles(name, <<m>>) = {<<"DEFAULT_ADMIN", Deployer>>, <<"DEPOSITOR", m>>}
    BY <2>1 DEF ConstructorRoles
  <2> QED
    BY <2>2 DEF Constructed
<1>7. IsPut(script'.book.child, script.book.child, name, new)
  BY <1>1 DEF DeploysNext
<1>8. ChildManagerProxy # name
  BY DEF ChildToken, ChildManagerProxy
<1> HIDE DEF name, new, m
<1>9. script'.book.child[name] = new /\ script'.book.child[ChildManagerProxy] = script.book.child[ChildManagerProxy]
  BY <1>3, <1>7, <1>8 DEF IsPut
<1> QED
  BY <1>5, <1>6, <1>9 DEF DepositorIn, name, m

\* Every step keeps the deployed child tokens open to the deployed manager.
LEMMA ChildDeployingNext ==
  ASSUME Inv1, Inv2, ChildFile, ChildDeploying, [Next]_vars PROVE ChildDeploying'
<1> SUFFICES ASSUME script' # NoScript, script'.name = "migration3",
                    NEW t \in TokenType, ChildToken(t) \in DOMAIN script'.book.child
             PROVE  script'.pc > 3 /\ DepositorIn(t, script'.book.child, chain'.child)
  BY DEF ChildDeploying, Runs
<1>0. KeepsRoles(chain.child, chain'.child)
  BY ChildKept
<1>1. StartScript \/ Runs("migration3")
  BY ScriptGoes DEF Runs
<1>2. CASE StartScript
  <2>1. script' = [name |-> Current, pc |-> 1, errors |-> FALSE,
                   book |-> IF Current \in Readers THEN file ELSE NoAddresses]
    BY <1>2 DEF StartScript
  <2>2. script'.book = NoAddresses
    BY <2>1 DEF Readers
  <2>3. DOMAIN NoAddresses.child = {}
    BY DEF NoAddresses
  <2> QED
    BY <2>2, <2>3
<1>3. CASE Runs("migration3")
  <2>1. ASSUME ChildToken(t) \in DOMAIN script.book.child
        PROVE  script.pc > 3 /\ DepositorIn(t, script.book.child, chain'.child)
    <3>1. script.pc > 3 /\ DepositorIn(t, script.book.child, chain.child)
      BY <1>3, <2>1 DEF ChildDeploying
    <3>2. DepositorIn(t, script.book.child, chain'.child)
      BY <1>0, <1>3, <2>1, <3>1, ScriptTokens, DepositorStays
    <3> QED
      BY <3>1, <3>2
  <2>2. CASE script' = script
    BY <2>1, <2>2
  <2>3. CASE DeploysNext
    <3>1. script'.pc = script.pc + 1 /\ script.pc \in 1..8
      BY <2>3 DEF DeploysNext
    <3>2. CASE Step.op = "call"
      <4>1. script'.book = script.book
        BY <2>3, <3>2 DEF DeploysNext
      <4> QED
        BY <2>1, <3>1, <4>1
    <3>3. CASE Step.op = "new"
      <4>1. IsPut(script'.book.child, script.book.child, Step.at[2], NextAddress(chain.child, Step.at[2]))
        BY <2>3, <3>3 DEF DeploysNext
      <4>2. CASE Step.at[2] = ChildToken(t)
        <5>1. Step.at[2] \in ChildTokens
          BY <4>2 DEF ChildTokens
        <5>2. PICK s \in TokenType : script.pc > 3 /\ Step = New(Child(ChildToken(s)), <<Child(ChildManagerProxy)>>)
          BY <1>3, <3>1, <5>1, ChildDeployStep
        <5>3. s = t
          BY <4>2, <5>2 DEF New, Child, ChildToken
        <5> QED
          BY <1>3, <2>3, <3>1, <3>3, <5>2, <5>3, NewDepositor
      <4>3. CASE Step.at[2] # ChildToken(t)
        <5>1. ChildToken(t) \in DOMAIN script.book.child
          BY <4>1, <4>3 DEF IsPut
        <5>2. script.pc > 3 /\ DepositorIn(t, script.book.child, chain'.child)
          BY <2>1, <5>1
        <5>3. Step.at[2] # ChildManagerProxy
          <6>1. PICK s \in TokenType : Step = New(Child(ChildToken(s)), <<Child(ChildManagerProxy)>>)
            BY <1>3, <3>1, <5>2, ChildDeployStep
          <6> QED
            BY <6>1 DEF New, Child, ChildToken, ChildManagerProxy
        <5>4. ChildManagerProxy \in DOMAIN script.book.child
          BY <1>3, <5>2 DEF Inv1, ScriptOK, Runs
        <5>5. /\ script'.book.child[ChildToken(t)] = script.book.child[ChildToken(t)]
              /\ script'.book.child[ChildManagerProxy] = script.book.child[ChildManagerProxy]
          BY <4>1, <4>3, <5>1, <5>3, <5>4 DEF IsPut
        <5> QED
          BY <3>1, <5>2, <5>5 DEF DepositorIn
      <4> QED
        BY <4>2, <4>3
    <3> QED
      BY <2>3, <3>2, <3>3 DEF DeploysNext
  <2> QED
    BY <1>3, <2>2, <2>3, Migration3Goes
<1> QED
  BY <1>1, <1>2, <1>3

\* A manager without settings has mapped nothing.
LEMMA NoPairs ==
  ASSUME NEW book, NEW ch, ChildManagerIn(book, ch).slots = << >> PROVE PairsMay(book, ch)
BY EmptySlots DEF PairsMay, ChildMapMay

\* Every step keeps the child chain's contracts in the file to one another.
LEMMA ChildFileNext ==
  ASSUME Inv1, Inv2, ChildFile, ChildDeploying, [Next]_vars PROVE ChildFile'
<1>0. path' = path /\ ChildFiled' = ChildFiled /\ next \in Nat \ {0} /\ next' \in Nat
  BY ChainGoes, NextGrows DEF ChildFiled, Truffle
<1> SUFFICES ASSUME next' > ChildFiled
             PROVE  PairsMay(file', chain'.child) /\ \A t \in TokenType : DepositorIn(t, file'.child, chain'.child)
  BY <1>0 DEF ChildFile, PairsMay
<1>1. CASE next > ChildFiled
  <2>1. file' = file /\ PairsMay(file', chain'.child) /\ KeepsRoles(chain.child, chain'.child)
    BY <1>1, ChildKept
  <2>2. FiledChild(file, chain.child)
    BY <1>1, FiledNow DEF Inv2
  <2>3. ASSUME NEW t \in TokenType PROVE DepositorIn(t, file.child, chain'.child)
    <3>1. DepositorIn(t, file.child, chain.child)
      BY <1>1 DEF ChildFile
    <3>2. file.child[ChildToken(t)] \in DOMAIN chain.child /\ file.child[ChildToken(t)][1] = ChildToken(t)
      BY <2>2, NamesIn DEF FiledChild
    <3> QED
      BY <2>1, <3>1, <3>2, DepositorStays
  <2> QED
    BY <2>1, <2>3
<1>2. CASE ~(next > ChildFiled)
  <2>1. next = ChildFiled /\ next' = next + 1
    <3>1. ChildFiled \in {2, 4}
      BY DEF ChildFiled
    <3>2. next' = next \/ next' = next + 1 \/ next' = 1
      BY NextGoes DEF NextMoves, ScriptEnds, QueueProcessed
    <3> QED
      BY <1>0, <1>2, <3>1, <3>2
  <2>2. Current = "migration3"
    BY <2>1, RunbookIs DEF ChildFiled, Current, Truffle, Moonwalker, Inv1, Control
  <2>3. ScriptEnds
    BY <2>1, <2>2, NextGoes DEF NextMoves, QueueProcessed, ChildFiled
  <2>4. Runs("migration3") /\ script.pc = 9
    BY <2>2, <2>3, RunningIs, EndsWith DEF ScriptEnds, Runs, Length
  <2>5. Step.op = "write"
    BY <2>4, Migration3At DEF Step, Steps, Runs, WriteAddresses
  <2>6. WriteFile
    BY <2>3, <2>5, EndsWith
  <2>7. IsOver(file'.child, script.book.child, file.child) /\ chain' = chain
    BY <2>6, WriteIs
  <2>8. CollectedIn("migration3", 9, script.book["child"], chain["child"])
    BY <2>4 DEF Inv2, MigrationOK, Runs, Collected
  <2>9. ASSUME NEW name \in ChildNames
        PROVE  name \in DOMAIN script.book.child /\ file'.child[name] = script.book.child[name]
    <3>1. PICK j \in 1..8 : /\ Steps("migration3")[j].op = "new"
                            /\ Steps("migration3")[j].at[2] = name
      BY MigrationNames
    <3>2. j \in 1..(9 - 1)
      BY <3>1
    <3>3. name \in DOMAIN script.book["child"]
      BY <2>8, <3>1, <3>2 DEF CollectedIn
    <3> QED
      BY <2>7, <3>3 DEF IsOver
  <2>10. PairsMay(file', chain'.child)
    <3>1. ChildManagerProxy \in DOMAIN script.book["child"]
      BY <2>9, NamesIn
    <3>2. chain.child[script.book.child[ChildManagerProxy]].slots = << >>
      BY <2>8, <3>1, NamesIn DEF CollectedIn
    <3>3. file'.child[ChildManagerProxy] = script.book.child[ChildManagerProxy]
      BY <2>9, NamesIn
    <3>4. ChildManagerIn(file', chain'.child).slots = << >>
      BY <2>7, <3>2, <3>3 DEF ChildManagerIn
    <3> QED
      BY <3>4, NoPairs
  <2>11. ASSUME NEW t \in TokenType PROVE DepositorIn(t, file'.child, chain'.child)
    <3>1. ChildToken(t) \in ChildNames
      BY NamesIn
    <3>2. DepositorIn(t, script.book.child, chain.child)
      BY <2>4, <2>9, <3>1 DEF ChildDeploying
    <3>3. /\ file'.child[ChildToken(t)] = script.book.child[ChildToken(t)]
          /\ file'.child[ChildManagerProxy] = script.book.child[ChildManagerProxy]
      BY <2>9, <3>1, NamesIn
    <3> QED
      BY <2>7, <3>2, <3>3 DEF DepositorIn
  <2> QED
    BY <2>10, <2>11
<1> QED
  BY <1>1, <1>2

\* Every step keeps what migration 5 has done so far.
LEMMA ChildInitsRunNext ==
  ASSUME Inv1, Inv2, ChildFile, ChildInitsRun, [Next]_vars PROVE ChildInitsRun'
<1> SUFFICES ASSUME script' # NoScript, script'.name = "migration5", NEW j \in 1..(script'.pc - 1)
             PROVE  ChildTook(j, file', chain'.child)
  BY DEF ChildInitsRun, Runs
<1>1. \/ script'.pc = 1
      \/ /\ Runs("migration5") /\ script' = script
      \/ /\ Runs("migration5")
         /\ \/ script'.pc = script.pc + 1
            \/ TryFails
  BY ScriptGoes DEF Runs
<1>2. script'.pc # 1
  <2>1. 1..(1 - 1) = {}
    OBVIOUS
  <2> QED
    BY <2>1
<1>3. Runs("migration5") /\ next > ChildFiled /\ script.pc \in 1..6
  BY <1>1, <1>2, CallsAreLate, CallsOnly DEF Length
<1>4. ~TryFails
  BY <1>3, CallsOnly DEF TryFails, Running, Step
<1>5. \A i \in 1..(script.pc - 1) : ChildTook(i, file, chain.child)
  BY <1>3 DEF ChildInitsRun
<1>6. \A i \in 1..6 : ChildTook(i, file, chain.child) => ChildTook(i, file', chain'.child)
  BY <1>3, ChildKept
<1>7. CASE script' = script
  <2>1. j \in 1..(script.pc - 1) /\ j \in 1..6
    BY <1>3, <1>7
  <2> QED
    BY <1>5, <1>6, <2>1
<1>8. CASE script'.pc = script.pc + 1
  <2>1. script' # script
    BY <1>3, <1>8
  <2>2. Sent(chain, chain', Step, script.book) /\ script.book = file /\ file' = file
    BY <1>3, <2>1, CallsOnly
  <2>3. MapsChild(script.pc)
    BY <1>3, <2>2, MigrationMaps DEF Inv2
  <2>4. CASE j = script.pc
    BY <1>3, <2>3, <2>4, MapsTakes
  <2>5. CASE j # script.pc
    <3>1. j \in 1..(script.pc - 1) /\ j \in 1..6
      BY <1>3, <1>8, <2>5
    <3> QED
      BY <1>5, <1>6, <3>1
  <2> QED
    BY <2>4, <2>5
<1> QED
  BY <1>1, <1>2, <1>4, <1>7, <1>8

\* When migration 5 is done, all that it was for has been done, and stays.
LEMMA ChildInitsDoneNext ==
  ASSUME Inv1, Inv2, ChildFile, ChildInitsRun, ChildInitsDone, [Next]_vars PROVE ChildInitsDone'
<1>0. /\ path' = path /\ ChildInited' = ChildInited /\ next \in Nat \ {0} /\ next' \in Nat
      /\ ChildInited \in {4, 7} /\ ChildFiled < ChildInited
  BY ChainGoes, NextGrows DEF ChildInited, ChildFiled, Truffle
<1> SUFFICES ASSUME next' > ChildInited, NEW k \in 1..6 PROVE ChildTook(k, file', chain'.child)
  BY <1>0 DEF ChildInitsDone
<1>1. CASE next > ChildInited
  <2>1. ChildTook(k, file, chain.child)
    BY <1>1 DEF ChildInitsDone
  <2>2. next > ChildFiled
    BY <1>0, <1>1 DEF ChildFiled
  <2> QED
    BY <2>1, <2>2, ChildKept
<1>2. CASE ~(next > ChildInited)
  <2>1. next = ChildInited /\ next' = next + 1
    <3>1. next' = next \/ next' = next + 1 \/ next' = 1
      BY NextGoes DEF NextMoves, ScriptEnds, QueueProcessed
    <3> QED
      BY <1>0, <1>2, <3>1
  <2>2. next > ChildFiled
    BY <1>0, <2>1 DEF ChildFiled
  <2>3. Current = "migration5"
    BY <2>1, RunbookIs DEF ChildInited, Current, Truffle, Moonwalker, Inv1, Control
  <2>4. ScriptEnds
    BY <2>1, <2>3, NextGoes DEF NextMoves, QueueProcessed, ChildInited
  <2>5. Runs("migration5") /\ script.pc = 6
    BY <2>3, <2>4, RunningIs, EndsWith DEF ScriptEnds, Runs, Length
  <2>6. Sent(chain, chain', Step, script.book) /\ script.book = file /\ file' = file
    <3>1. next' # next
      BY <1>0, <2>1
    <3> QED
      BY <2>5, <3>1, CallsOnly
  <2>7. MapsChild(script.pc)
    BY <2>5, <2>6, MigrationMaps DEF Inv2
  <2>8. CASE k = 6
    BY <2>5, <2>7, <2>8, MapsTakes
  <2>9. CASE k # 6
    <3>1. k \in 1..(script.pc - 1)
      BY <2>5, <2>9
    <3>2. ChildTook(k, file, chain.child)
      BY <2>5, <3>1 DEF ChildInitsRun
    <3> QED
      BY <2>2, <3>2, ChildKept
  <2> QED
    BY <2>8, <2>9
<1> QED
  BY <1>1, <1>2

\* At first there is nothing on the child chain.
LEMMA InitInv5 == Init => Inv5
<1> SUFFICES ASSUME Init PROVE Inv5
  OBVIOUS
<1>1. next = 1 /\ script = NoScript
  BY DEF Init
<1> QED
  BY <1>1 DEF Inv5, ChildFile, ChildDeploying, ChildInitsRun, ChildInitsDone, Runs, ChildFiled, ChildInited

\* Every step keeps Inv5.
LEMMA NextInv5 == Inv1 /\ Inv2 /\ Inv5 /\ [Next]_vars => Inv5'
BY ChildFileNext, ChildDeployingNext, ChildInitsRunNext, ChildInitsDoneNext DEF Inv5

\* The fifth invariant: the child chain's contracts in the file know one another.
LEMMA Inv5Holds == Spec => []Inv5
<1>1. Inv1 /\ Inv2 /\ Inv1' /\ Inv2' /\ Inv5 /\ [Next]_vars => Inv5'
  BY NextInv5
<1> QED
  BY Inv1Holds, Inv2Holds, InitInv5, <1>1, PTL DEF Spec

\* What the initializations leave makes the root chain's part of a working portal.
RootWired(t, book, ch) ==
  /\ Slot(ManagerIn(book, ch), <<"typeToPredicate", t>>) = book.root[PredicateProxy(t)]
  /\ <<"MANAGER", book.root[RootManagerProxy]>> \in ch[book.root[PredicateProxy(t)]].roles
  /\ Slot(ManagerIn(book, ch), <<"rootToChildToken", RootAtOf(t, book)>>) = book.child[ChildToken(t)]

\* All nineteen initializations together wire the root chain.
LEMMA TookWires ==
  ASSUME NEW book, NEW ch, TookUpTo(19, book, ch)
  PROVE  /\ Slot(ManagerIn(book, ch), <<"stateSender">>) = book.root[StateSender]
         /\ Slot(ManagerIn(book, ch), <<"childChainManagerAddress">>) = book.child[ChildManagerProxy]
         /\ Slot(ManagerIn(book, ch), <<"checkpointManager">>) = PlasmaRootChain
         /\ <<"PREDICATE", book.root[PredicateProxy("MintableERC721")]>>
              \in ch[book.root[RootToken("MintableERC721")]].roles
         /\ \A t \in TokenType : RootWired(t, book, ch)
<1>1. ASSUME NEW k \in 1..19, k \notin 4..9 PROVE Slot(ManagerIn(book, ch), InitKey(k, book)) = InitValue(k, book)
  <2>1. Took(k, book, ch)
    BY DEF TookUpTo
  <2> QED
    BY <1>1, <2>1 DEF Took
<1>2. ASSUME NEW k \in 4..9 PROVE InitArgs(k, book) \in ch[book.root[InitName(k)]].roles
  <2>1. k \in 1..19
    OBVIOUS
  <2>2. Took(k, book, ch)
    BY <2>1 DEF TookUpTo
  <2> QED
    BY <2>2 DEF Took
<1>3. Slot(ManagerIn(book, ch), <<"stateSender">>) = book.root[StateSender]
  <2>1. 1 \in 1..19 /\ 1 \notin 4..9
    OBVIOUS
  <2>2. InitKey(1, book) = <<"stateSender">> /\ InitValue(1, book) = book.root[StateSender]
    BY <2>1, InitIs
  <2>3. Slot(ManagerIn(book, ch), InitKey(1, book)) = InitValue(1, book)
    BY <1>1, <2>1
  <2> QED
    BY <2>2, <2>3
<1>4. Slot(ManagerIn(book, ch), <<"childChainManagerAddress">>) = book.child[ChildManagerProxy]
  <2>1. 2 \in 1..19 /\ 2 \notin 4..9
    OBVIOUS
  <2>2. InitKey(2, book) = <<"childChainManagerAddress">> /\ InitValue(2, book) = book.child[ChildManagerProxy]
    BY <2>1, InitIs
  <2>3. Slot(ManagerIn(book, ch), InitKey(2, book)) = InitValue(2, book)
    BY <1>1, <2>1
  <2> QED
    BY <2>2, <2>3
<1>5. Slot(ManagerIn(book, ch), <<"checkpointManager">>) = PlasmaRootChain
  <2>1. 3 \in 1..19 /\ 3 \notin 4..9
    OBVIOUS
  <2>2. InitKey(3, book) = <<"checkpointManager">> /\ InitValue(3, book) = PlasmaRootChain
    BY <2>1, InitIs
  <2>3. Slot(ManagerIn(book, ch), InitKey(3, book)) = InitValue(3, book)
    BY <1>1, <2>1
  <2> QED
    BY <2>2, <2>3
<1>6. <<"PREDICATE", book.root[PredicateProxy("MintableERC721")]>>
        \in ch[book.root[RootToken("MintableERC721")]].roles
  <2>1. 9 \in 4..9 /\ 9 \in 1..19
    OBVIOUS
  <2>2. InitArgs(9, book) \in ch[book.root[InitName(9)]].roles
    BY <1>2, <2>1
  <2>3. /\ InitName(9) = RootToken("MintableERC721")
        /\ InitArgs(9, book) = <<"PREDICATE", book.root[PredicateProxy("MintableERC721")]>>
    BY <2>1, InitIs
  <2> QED
    BY <2>2, <2>3
<1>7. ASSUME NEW t \in TokenType PROVE RootWired(t, book, ch)
  <2>1. PICK i \in 1..5 : t = TypeList[i]
    BY Types DEF TokenType
  <2>2. Slot(ManagerIn(book, ch), <<"typeToPredicate", t>>) = book.root[PredicateProxy(t)]
    <3> DEFINE k == 9 + i
    <3>1. k \in 1..19 /\ k \in 10..14 /\ k \notin 4..9 /\ k - 9 = i
      OBVIOUS
    <3>2. InitType(k) = t
      BY <2>1, <3>1, InitTypes
    <3> HIDE DEF k
    <3>3. InitKey(k, book) = <<"typeToPredicate", t>> /\ InitValue(k, book) = book.root[PredicateProxy(t)]
      BY <3>1, <3>2, InitIs
    <3> QED
      BY <1>1, <3>1, <3>3
  <2>3. <<"MANAGER", book.root[RootManagerProxy]>> \in ch[book.root[PredicateProxy(t)]].roles
    <3> DEFINE k == 3 + i
    <3>1. k \in 1..19 /\ k \in 4..8 /\ k \in 4..9 /\ k - 3 = i
      OBVIOUS
    <3>2. InitType(k) = t
      BY <2>1, <3>1, InitTypes
    <3> HIDE DEF k
    <3>3. InitName(k) = PredicateProxy(t) /\ InitArgs(k, book) = <<"MANAGER", book.root[RootManagerProxy]>>
      BY <3>1, <3>2, InitIs
    <3>4. InitArgs(k, book) \in ch[book.root[InitName(k)]].roles
      BY <1>2, <3>1
    <3> QED
      BY <3>3, <3>4
  <2>4. Slot(ManagerIn(book, ch), <<"rootToChildToken", RootAtOf(t, book)>>) = book.child[ChildToken(t)]
    <3> DEFINE k == 14 + i
    <3>1. k \in 1..19 /\ k \in 15..19 /\ k \notin 4..9 /\ k - 14 = i
      OBVIOUS
    <3>2. InitType(k) = t
      BY <2>1, <3>1, InitTypes
    <3> HIDE DEF k
    <3>3. InitKey(k, book) = <<"rootToChildToken", RootAtOf(t, book)>> /\ InitValue(k, book) = book.child[ChildToken(t)]
      BY <3>1, <3>2, InitIs
    <3> QED
      BY <1>1, <3>1, <3>3
  <2> QED
    BY <2>2, <2>3, <2>4 DEF RootWired
<1> QED
  BY <1>3, <1>4, <1>5, <1>6, <1>7

\* What migrations 3 and 5 leave is the child chain's part.
ChildWired(t, book, ch) == ChildMapOK(t, book, ch) /\ DepositorIn(t, book.child, ch)

\* A portal both of whose parts are there is complete.
LEMMA PartsWire ==
  ASSUME NEW book, TookUpTo(19, book, chain.root), ChildTook(1, book, chain.child),
         \A t \in TokenType : ChildWired(t, book, chain.child)
  PROVE  Wired(book)
<1>1. /\ Slot(ManagerIn(book, chain.root), <<"stateSender">>) = book.root[StateSender]
      /\ Slot(ManagerIn(book, chain.root), <<"childChainManagerAddress">>) = book.child[ChildManagerProxy]
      /\ Slot(ManagerIn(book, chain.root), <<"checkpointManager">>) = PlasmaRootChain
      /\ <<"PREDICATE", book.root[PredicateProxy("MintableERC721")]>>
           \in chain.root[book.root[RootToken("MintableERC721")]].roles
      /\ \A t \in TokenType : RootWired(t, book, chain.root)
  BY TookWires
<1>2. <<"STATE_SYNCER", StateReceiver>> \in ChildManagerIn(book, chain.child).roles
  BY DEF ChildTook
<1>3. ASSUME NEW t \in TokenType
      PROVE  LET manager == chain.root[book.root[RootManagerProxy]]
                 childManager == chain.child[book.child[ChildManagerProxy]]
                 r == IF HasRootToken(t) THEN book.root[RootToken(t)] ELSE EtherAddress
                 c == book.child[ChildToken(t)]
             IN  /\ Slot(manager, <<"typeToPredicate", t>>) = book.root[PredicateProxy(t)]
                 /\ <<"MANAGER", book.root[RootManagerProxy]>> \in chain.root[book.root[PredicateProxy(t)]].roles
                 /\ Slot(manager, <<"rootToChildToken", r>>) = c
                 /\ Slot(childManager, <<"rootToChildToken", r>>) = c
                 /\ Slot(childManager, <<"childToRootToken", c>>) = r
                 /\ <<"DEPOSITOR", book.child[ChildManagerProxy]>> \in chain.child[c].roles
  <2>1. RootWired(t, book, chain.root) /\ ChildWired(t, book, chain.child)
    BY <1>1
  <2> QED
    BY <2>1 DEF RootWired, ChildWired, ChildMapOK, DepositorIn, RootAtOf, ManagerIn, ChildManagerIn
<1> QED
  BY <1>1, <1>2, <1>3 DEF Wired, ManagerIn, ChildManagerIn

\* When the deployment is done both parts of the portal are there.
LEMMA DoneIsWired == ASSUME Inv1, Inv4, Inv5 PROVE ReadyIsWired
<1> SUFFICES ASSUME Deployed PROVE Wired(file)
  BY DEF ReadyIsWired
<1>1. next > ChildInited /\ next > RootInited /\ next > ChildFiled
  <2>1. Len(Runbook[path]) = Final
    BY CurrentIs DEF Inv1
  <2>2. next \in Nat
    BY DEF Inv1, Control
  <2>3. next > Final - 2
    BY <2>1 DEF Deployed
  <2> QED
    BY <2>2, <2>3 DEF Final, ChildInited, RootInited, ChildFiled
<1>2. TookUpTo(19, file, chain.root)
  BY <1>1 DEF Inv4, InitsDone
<1>3. \A k \in 1..6 : ChildTook(k, file, chain.child)
  BY <1>1 DEF Inv5, ChildInitsDone
<1>4. ASSUME NEW t \in TokenType PROVE ChildWired(t, file, chain.child)
  <2>1. PICK i \in 1..5 : t = TypeList[i]
    BY Types DEF TokenType
  <2>2. 1 + i \in 1..6 /\ 1 + i # 1 /\ (1 + i) - 1 = i
    OBVIOUS
  <2>3. ChildTook(1 + i, file, chain.child)
    BY <1>3, <2>2
  <2>4. ChildMapOK(t, file, chain.child)
    BY <2>1, <2>2, <2>3 DEF ChildTook
  <2>5. DepositorIn(t, file.child, chain.child)
    BY <1>1 DEF Inv5, ChildFile
  <2> QED
    BY <2>4, <2>5 DEF ChildWired
<1> QED
  BY <1>2, <1>3, <1>4, PartsWire

\* When the last step of a deployment is done the portal in the file is complete,
\* whatever was interrupted, failed or was done again before, and it stays so while
\* its owners change.
THEOREM DeployedIsWired == Spec => []ReadyIsWired
<1>1. Inv1 /\ Inv4 /\ Inv5 => ReadyIsWired
  BY DoneIsWired
<1> QED
  BY <1>1, Inv1Holds, Inv4Holds, Inv5Holds, PTL
===============================================================================
