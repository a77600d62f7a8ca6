--------------------------- MODULE PortalDeployment ---------------------------
(***************************************************************************)
(* The deployment of the portal, by either of the two runbooks of the      *)
(* repository's README.md: "npm run migrate" runs the truffle migrations 2 *)
(* to 5; on mainnet the root chain's transactions go through a queue       *)
(* instead, that a moonwalker worker processes.  After that change-owners  *)
(* gives the contracts to a new owner.                                     *)
(*                                                                         *)
(* A script is a sequence of transactions and file writes; between any two *)
(* it may be interrupted, and the operator runs it again.  The worker may  *)
(* be interrupted too, after it sent the transaction of a task and before  *)
(* it recorded or acknowledged it: the task is then done twice.            *)
(***************************************************************************)
EXTENDS PortalContracts, SequencesExt

CONSTANTS
  MaxCrashes        \* bound of the model: interruptions, of scripts or the worker,
                    \* and errors that a script logs

ASSUME DeploymentAssumption == MaxCrashes \in Nat

VARIABLES
  path,       \* the runbook that is followed
  chain,      \* the contracts of the root and of the child chain
  file,       \* contractAddresses.json
  status,     \* build/status.json: what the worker recorded of each task id
  queue,      \* the tasks of default-deposit-q
  worker,     \* "down", or how far it is with the first task
  mined,      \* the address that the worker's last deployment got
  script,     \* the script that is running, at which step, with which addresses
  next,       \* the step of the runbook that is under way
  failed,     \* whether a script was stopped by a transaction that reverted
  crashes     \* interruptions so far

workerVars == <<status, worker, mined>>
vars == <<path, chain, file, queue, workerVars, script, next, failed, crashes>>

-----------------------------------------------------------------------------
\* Steps of scripts.  An argument says where its value is from: a name that is
\* looked up in the addresses of a chain, or the value itself.
Root(name)  == <<"root", name>>
Child(name) == <<"child", name>>
Value(v)    == <<"value", v>>

New(at, args) == [op |-> "new", at |-> at, method |-> "constructor", args |-> args]
Call(at, method, args) == [op |-> "call", at |-> at, method |-> method, args |-> args]
Queue(id, step) == [op |-> "queue", id |-> id, step |-> step]

\* A call in a try block in which there are so many more after it.
Try(at, method, args, more) ==
  [op |-> "try", at |-> at, method |-> method, args |-> args, more |-> more]

WriteAddresses   == [op |-> "write"]
ExtractAddresses == [op |-> "extract"]

\* A contract and its proxy, constructed with no implementation and initialised
\* by updateAndCall.
Proxied(code, proxy) == <<New(code, << >>), New(proxy, << >>), Call(proxy, "updateAndCall", <<code>>)>>

ForTypes(F(_)) == [i \in DOMAIN TypeList |-> F(TypeList[i])]

HasRootToken(t) == t # "Ether"

RootTokenOf(t) == IF HasRootToken(t) THEN Root(RootToken(t)) ELSE Value(EtherAddress)

RootDeployments ==
  Proxied(Root(RootManager), Root(RootManagerProxy))
  \o FlattenSeq(ForTypes(LAMBDA t : Proxied(Root(Predicate(t)), Root(PredicateProxy(t)))))
  \o <<New(Root(StateSender), << >>)>>
  \o [i \in 1..4 |-> New(Root(RootToken(TypeList[i])), << >>)]

\* What the root chain's contracts are told of one another.
ManagerSettings ==
  << Call(Root(RootManagerProxy), "setStateSender", <<Root(StateSender)>>),
     Call(Root(RootManagerProxy), "setChildChainManagerAddress", <<Child(ChildManagerProxy)>>),
     Call(Root(RootManagerProxy), "setCheckpointManager", <<Value(PlasmaRootChain)>>) >>

RoleGrants ==
  ForTypes(LAMBDA t : Call(Root(PredicateProxy(t)), "grantRole",
                           <<Value("MANAGER"), Root(RootManagerProxy)>>))
  \o << Call(Root(RootToken("MintableERC721")), "grantRole",
             <<Value("PREDICATE"), Root(PredicateProxy("MintableERC721"))>>) >>

Registrations ==
  ForTypes(LAMBDA t : Call(Root(RootManagerProxy), "registerPredicate",
                           <<Value(t), Root(PredicateProxy(t))>>))

RootMappings ==
  ForTypes(LAMBDA t : Call(Root(RootManagerProxy), "mapRootToken",
                           <<RootTokenOf(t), Child(ChildToken(t)), Value(t)>>))

\* A plausible bug, not the code: the tokens are mapped before the predicates
\* know the manager.
RootInitializationsMapFirst == ManagerSettings \o Registrations \o RootMappings \o RoleGrants

RootInitializations == ManagerSettings \o RoleGrants \o Registrations \o RootMappings

Migration2 == RootDeployments \o <<WriteAddresses>>

Migration3 ==
  Proxied(Child(ChildManager), Child(ChildManagerProxy))
  \o ForTypes(LAMBDA t : New(Child(ChildToken(t)), <<Child(ChildManagerProxy)>>))
  \o <<WriteAddresses>>

Migration4 == RootInitializations

Migration5 ==
  <<Call(Child(ChildManagerProxy), "grantRole", <<Value("STATE_SYNCER"), Value(StateReceiver)>>)>>
  \o ForTypes(LAMBDA t : Call(Child(ChildManagerProxy), "mapChildToken",
                              <<RootTokenOf(t), Child(ChildToken(t))>>))

\* Tasks have the ids from first on, in the order in which they are queued.
Tasks(first, steps) ==
  [i \in DOMAIN steps |-> Queue(first + i - 1, steps[i])]

Libraries == <<"Merkle", "MerklePatriciaProof", "RLPReader", "SafeERC20", "SafeMath">>

QueuedDeployments ==
  [i \in DOMAIN Libraries |-> New(Root(<<Libraries[i], "library">>), << >>)] \o RootDeployments

\* The contracts that are deployed first are there to encode initialize with.
QueueRootDeployment ==
  <<New(Root(RootManager), << >>)>>
  \o ForTypes(LAMBDA t : New(Root(Predicate(t)), << >>))
  \o Tasks(0, QueuedDeployments)

\* A plausible bug, not the code: a task was added to the deployment's and this
\* is the number there was before.
FirstInitIdStale == 27

\* The number of tasks that queue-root-deployment.js queues, as a literal.
FirstInitId == 28

QueueRootInitializations == Tasks(FirstInitId, RootInitializations)

\* The contracts that are given to the new owner, by the list in the script.
OwnedRoot ==
  Append([i \in DOMAIN TypeList |-> PredicateProxy(TypeList[i])], RootManagerProxy)
  \o <<RootToken("MintableERC721")>>

OwnedChild == <<ChildManagerProxy>> \o [i \in DOMAIN TypeList |-> ChildToken(TypeList[i])]

\* A plausible bug, not the code: the deployer's role is revoked first.
GiveAwayRevokesFirst(at) ==
  << Try(at, "transferProxyOwnership", <<Value(NewOwner)>>, 0),
     Try(at, "revokeRole", <<Value("DEFAULT_ADMIN"), Value(Deployer)>>, 1),
     Try(at, "grantRole", <<Value("DEFAULT_ADMIN"), Value(NewOwner)>>, 0) >>

\* The proxy, if it is one and the deployer's; then the role, if she has it.
GiveAway(at) ==
  << Try(at, "transferProxyOwnership", <<Value(NewOwner)>>, 0),
     Try(at, "grantRole", <<Value("DEFAULT_ADMIN"), Value(NewOwner)>>, 1),
     Try(at, "revokeRole", <<Value("DEFAULT_ADMIN"), Value(Deployer)>>, 0) >>

ChangeOwners(list) == FlattenSeq([i \in DOMAIN list |-> GiveAway(list[i])])

Steps(name) ==
  CASE name = "migration2" -> Migration2
    [] name = "migration3" -> Migration3
    [] name = "migration4" -> Migration4
    [] name = "migration5" -> Migration5
    [] name = "queueRootDeployment" -> QueueRootDeployment
    [] name = "queueRootInitializations" -> QueueRootInitializations
    [] name = "extractAddresses" -> <<ExtractAddresses>>
    [] name = "changeRootOwners"  -> ChangeOwners([i \in DOMAIN OwnedRoot |-> Root(OwnedRoot[i])])
    [] name = "changeChildOwners" -> ChangeOwners([i \in DOMAIN OwnedChild |-> Child(OwnedChild[i])])

Runbook ==
  [truffle    |-> <<"migration2", "migration3", "migration4", "migration5",
                    "changeRootOwners", "changeChildOwners">>,
   moonwalker |-> <<"queueRootDeployment", "processQueue", "extractAddresses", "migration3",
                    "queueRootInitializations", "processQueue", "migration5",
                    "changeRootOwners", "changeChildOwners">>]

Current == Runbook[path][next]

Done == next > Len(Runbook[path])

\* The deployment is done, the change of owners may not be.
Deployed == next > Len(Runbook[path]) - 2

-----------------------------------------------------------------------------
\* Books of addresses: for each chain, a function from names.
NoAddresses == [root |-> << >>, child |-> << >>]

Lookup(book, name) == IF name \in DOMAIN book THEN book[name] ELSE None

Resolve(ref, book) == IF ref[1] = "value" THEN ref[2] ELSE Lookup(book[ref[1]], ref[2])

ResolveAll(args, book) == [i \in DOMAIN args |-> Resolve(args[i], book)]

Known(ref, book) == ref[1] # "value" => ref[2] \in DOMAIN book[ref[1]]

\* A script throws on an address that is undefined, and on a revert.
Succeeds(step, book) ==
  step.op \in {"call", "try"} =>
    /\ Known(step.at, book)
    /\ \A i \in DOMAIN step.args : Known(step.args[i], book)
    /\ CallPasses(chain[step.at[1]], Resolve(step.at, book), step.method, ResolveAll(step.args, book))

Transact(step, book) ==
  chain' = [chain EXCEPT ![step.at[1]] =
              IF step.op = "new"
              THEN AfterDeploy(@, step.at[2], ResolveAll(step.args, book))
              ELSE AfterCall(@, Resolve(step.at, book), step.method, ResolveAll(step.args, book))]

AddressOfNew(step) == NextAddress(chain[step.at[1]], step.at[2])

\* The addresses in build/status.json: of every name, the entry with the last id.
Extracted(entries) ==
  LET Ids(name) == {id \in DOMAIN entries : entries[id].type = "new" /\ entries[id].name = name}
      names == {entries[id].name : id \in {i \in DOMAIN entries : entries[i].type = "new"}}
  IN  [name \in names |-> entries[Max(Ids(name))].address]

-----------------------------------------------------------------------------
NoScript == [name |-> "none"]

Init ==
  /\ path \in DOMAIN Runbook
  /\ chain = [root |-> << >>, child |-> << >>]
  /\ file = NoAddresses
  /\ status = << >>
  /\ queue = << >>
  /\ worker = "down"
  /\ mined = None
  /\ script = NoScript
  /\ next = 1
  /\ failed = FALSE
  /\ crashes = 0

\* Migrations 4 and 5, the queueing of the initializations and the change of owners
\* read the addresses when they start; the others collect those of what they deploy.
Readers == {"migration4", "migration5", "queueRootInitializations",
            "changeRootOwners", "changeChildOwners"}

StartScript ==
  /\ script = NoScript
  /\ ~Done
  /\ Current # "processQueue"
  /\ script' = [name |-> Current, pc |-> 1, errors |-> FALSE,
                book |-> IF Current \in Readers THEN file ELSE NoAddresses]
  /\ UNCHANGED <<path, chain, file, queue, workerVars, next, failed, crashes>>

Running(op) ==
  /\ script # NoScript
  /\ Steps(script.name)[script.pc].op = op

Step == Steps(script.name)[script.pc]

\* To a step of the script, or after the last one to the next step of the runbook:
\* unless errors were logged, for then the operator runs the script again.
GoTo(pc, book, errors) ==
  IF pc <= Len(Steps(script.name))
  THEN /\ script' = [script EXCEPT !.pc = pc, !.book = book, !.errors = errors]
       /\ next' = next
  ELSE /\ script' = NoScript
       /\ next' = IF errors THEN next ELSE next + 1

Advance(book) == GoTo(script.pc + 1, book, script.errors)

DeployContract ==
  /\ Running("new")
  /\ Transact(Step, script.book)
  /\ Advance([script.book EXCEPT ![Step.at[1]] = Put(@, Step.at[2], AddressOfNew(Step))])
  /\ UNCHANGED <<path, file, queue, workerVars, failed, crashes>>

CallContract ==
  /\ Running("call")
  /\ Succeeds(Step, script.book)
  /\ Transact(Step, script.book)
  /\ Advance(script.book)
  /\ UNCHANGED <<path, file, queue, workerVars, failed, crashes>>

CallReverts ==
  /\ Running("call")
  /\ ~Succeeds(Step, script.book)
  /\ script' = NoScript
  /\ failed' = TRUE
  /\ UNCHANGED <<path, chain, file, queue, workerVars, next, crashes>>

\* A step that the script skips if it does not apply to the contract, or is done
\* already.
TryCall ==
  /\ Running("try")
  /\ IF Succeeds(Step, script.book)
     THEN Transact(Step, script.book)
     ELSE UNCHANGED chain
  /\ Advance(script.book)
  /\ UNCHANGED <<path, file, queue, workerVars, failed, crashes>>

\* The call fails for a reason outside the contract, before or after it was mined.
\* The error is caught and logged, and the rest of the try block is left out.
TryFails ==
  /\ Running("try")
  /\ crashes < MaxCrashes
  /\ crashes' = crashes + 1
  /\ \/ Succeeds(Step, script.book) /\ Transact(Step, script.book)
     \/ UNCHANGED chain
  /\ GoTo(script.pc + 1 + Step.more, script.book, TRUE)
  /\ UNCHANGED <<path, file, queue, workerVars, failed>>

\* Names of the root chain stay names in a task; an address of the child chain
\* is put in as it is in the file.
Fixed(ref, book) == IF ref[1] = "child" THEN Value(Resolve(ref, book)) ELSE ref

FixedStep(step, book) ==
  [step EXCEPT !.args = [i \in DOMAIN step.args |-> Fixed(step.args[i], book)]]

QueueTask ==
  /\ Running("queue")
  /\ queue' = Append(queue, [id |-> Step.id, step |-> FixedStep(Step.step, script.book)])
  /\ Advance(script.book)
  /\ UNCHANGED <<path, chain, file, workerVars, failed, crashes>>

\* A plausible bug, not the code: the books of the two chains are mixed up.
WriteFileSwapped ==
  /\ Running("write")
  /\ file' = [root |-> Over(script.book.child, file.root), child |-> Over(script.book.root, file.child)]
  /\ Advance(script.book)
  /\ UNCHANGED <<path, chain, queue, workerVars, failed, crashes>>

\* The end of migrations 2 and 3: the file keeps what they do not know.
WriteFile ==
  /\ Running("write")
  /\ file' = [root |-> Over(script.book.root, file.root), child |-> Over(script.book.child, file.child)]
  /\ Advance(script.book)
  /\ UNCHANGED <<path, chain, queue, workerVars, failed, crashes>>

ExtractFile ==
  /\ Running("extract")
  /\ file' = [file EXCEPT !.root = Over(Extracted(status), @)]
  /\ Advance(script.book)
  /\ UNCHANGED <<path, chain, queue, workerVars, failed, crashes>>

InterruptScript ==
  /\ script # NoScript
  /\ crashes < MaxCrashes
  /\ script' = NoScript
  /\ crashes' = crashes + 1
  /\ UNCHANGED <<path, chain, file, queue, workerVars, next, failed>>

\* After a revert "npm run migrate" may be started over.  The runbook of mainnet
\* does not say what to do then.
Restart ==
  /\ path = "truffle"
  /\ script = NoScript
  /\ failed
  /\ next' = 1
  /\ failed' = FALSE
  /\ UNCHANGED <<path, chain, file, queue, workerVars, script, crashes>>

-----------------------------------------------------------------------------
\* The worker, one task at a time.  A task that fails is dropped.
StartWorker ==
  /\ script = NoScript
  /\ ~Done /\ Current = "processQueue"
  /\ worker = "down"
  /\ worker' = "idle"
  /\ UNCHANGED <<path, chain, file, status, queue, mined, script, next, failed, crashes>>

Task == Head(queue)

TaskBook == [root |-> Extracted(status), child |-> << >>]

SendTask ==
  /\ worker = "idle" /\ queue # << >>
  /\ IF Succeeds(Task.step, TaskBook)
     THEN /\ Transact(Task.step, TaskBook)
          /\ mined' = IF Task.step.op = "new" THEN AddressOfNew(Task.step) ELSE None
          /\ worker' = "sent"
     ELSE /\ worker' = "handled"
          /\ UNCHANGED <<chain, mined>>
  /\ UNCHANGED <<path, file, status, queue, script, next, failed, crashes>>

SaveStatus ==
  /\ worker = "sent"
  /\ status' = Put(status, Task.id, [type |-> Task.step.op, name |-> Task.step.at[2], address |-> mined])
  /\ worker' = "handled"
  /\ UNCHANGED <<path, chain, file, queue, mined, script, next, failed, crashes>>

AckTask ==
  /\ worker = "handled"
  /\ queue' = Tail(queue)
  /\ worker' = "idle"
  /\ UNCHANGED <<path, chain, file, status, mined, script, next, failed, crashes>>

\* What is not acknowledged is delivered again.
InterruptWorker ==
  /\ worker # "down"
  /\ crashes < MaxCrashes
  /\ worker' = "down"
  /\ crashes' = crashes + 1
  /\ UNCHANGED <<path, chain, file, status, queue, mined, script, next, failed>>

\* The operator sees that the queue is empty, and stops the worker or leaves it.
QueueProcessed ==
  /\ script = NoScript
  /\ ~Done /\ Current = "processQueue"
  /\ worker = "idle" /\ queue = << >>
  /\ worker' \in {"idle", "down"}
  /\ next' = next + 1
  /\ UNCHANGED <<path, chain, file, status, queue, mined, script, failed, crashes>>

-----------------------------------------------------------------------------
Next ==
  \/ StartScript \/ DeployContract \/ CallContract \/ CallReverts \/ TryCall
  \/ QueueTask \/ WriteFile \/ ExtractFile
  \/ InterruptScript \/ TryFails \/ Restart
  \/ StartWorker \/ SendTask \/ SaveStatus \/ AckTask
  \/ InterruptWorker \/ QueueProcessed

Spec == Init /\ [][Next]_vars

\* A script that runs goes on, and the operator runs what the runbook says.  She
\* may run a migration that reverted again, but not for ever: after that she
\* starts over.
FairSpec ==
  /\ Spec
  /\ WF_vars(StartScript)
  /\ WF_vars(DeployContract \/ CallContract \/ CallReverts \/ TryCall
               \/ QueueTask \/ WriteFile \/ ExtractFile)
  /\ WF_vars(StartWorker)
  /\ WF_vars(SendTask \/ SaveStatus \/ AckTask)
  /\ WF_vars(QueueProcessed)
  /\ SF_vars(Restart)

-----------------------------------------------------------------------------
\* Every contract is at an address of its name, with roles of known accounts or
\* contracts; the queue holds tasks of the runbook, and every deployment that was
\* recorded is there.
TypeOK ==
  /\ path \in DOMAIN Runbook
  /\ \A side \in {"root", "child"} : \A a \in DOMAIN chain[side] :
       /\ a[2] > 0
       /\ \A role \in chain[side][a].roles :
            role[2] \in {Deployer, NewOwner, StateReceiver} \cup DOMAIN chain[side]
       /\ chain[side][a].inited <=> chain[side][a].impl \in DOMAIN chain[side]
  /\ \A side \in {"root", "child"} : \A name \in DOMAIN file[side] :
       file[side][name] \in DOMAIN chain[side] /\ file[side][name][1] = name
  /\ \A id \in DOMAIN status : status[id].type = "new" => status[id].address \in DOMAIN chain.root
  /\ \A i \in DOMAIN queue : queue[i].id \in 0..46
  /\ worker \in {"down", "idle", "sent", "handled"}
  /\ next \in 1..(Len(Runbook[path]) + 1)
  /\ failed \in BOOLEAN
  /\ crashes \in 0..MaxCrashes

\* The portal at the addresses of a book works: each manager knows its partner,
\* the registries of the two chains agree, predicates take orders from the root
\* manager and child tokens from the child manager.
Wired(book) ==
  LET manager == chain.root[book.root[RootManagerProxy]]
      childManager == chain.child[book.child[ChildManagerProxy]]
      RootAt(t) == IF HasRootToken(t) THEN book.root[RootToken(t)] ELSE EtherAddress
  IN  /\ Slot(manager, <<"stateSender">>) = book.root[StateSender]
      /\ Slot(manager, <<"childChainManagerAddress">>) = book.child[ChildManagerProxy]
      /\ Slot(manager, <<"checkpointManager">>) = PlasmaRootChain
      /\ <<"STATE_SYNCER", StateReceiver>> \in childManager.roles
      /\ <<"PREDICATE", book.root[PredicateProxy("MintableERC721")]>>
           \in chain.root[book.root[RootToken("MintableERC721")]].roles
      /\ \A t \in TokenType :
           LET c == book.child[ChildToken(t)]
           IN  /\ Slot(manager, <<"typeToPredicate", t>>) = book.root[PredicateProxy(t)]
               /\ <<"MANAGER", book.root[RootManagerProxy]>>
                    \in chain.root[book.root[PredicateProxy(t)]].roles
               /\ Slot(manager, <<"rootToChildToken", RootAt(t)>>) = c
               /\ Slot(childManager, <<"rootToChildToken", RootAt(t)>>) = c
               /\ Slot(childManager, <<"childToRootToken", c>>) = RootAt(t)
               /\ <<"DEPOSITOR", book.child[ChildManagerProxy]>> \in chain.child[c].roles

\* When the last step of a deployment is done, the portal whose addresses are in
\* contractAddresses.json is complete, whatever was interrupted and run again on
\* the way there, and it stays so while its owners change.
ReadyIsWired == Deployed => Wired(file)

\* The root chain's side of a deposit is ready before the token is mapped: at no
\* moment of a deployment does a manager map a token whose predicate is not
\* initialized or does not obey it, or a mintable token that its predicate may not
\* mint on an exit.  The child chain's side may come later: root tokens are mapped
\* before migration 5 sets up the child chain, and only ReadyIsWired has both.
MappedCanDeposit ==
  \A m \in {a \in DOMAIN chain.root : a[1] = RootManagerProxy} :
    \A t \in TokenType :
      LET p == Slot(chain.root[m], <<"typeToPredicate", t>>)
          tokens == {a \in DOMAIN chain.root : a[1] = RootToken(t)}
                      \cup (IF HasRootToken(t) THEN {} ELSE {EtherAddress})
      IN  \A r \in tokens :
            Slot(chain.root[m], <<"rootToChildToken", r>>) # None =>
              /\ p # None /\ chain.root[p].inited
              /\ <<"MANAGER", m>> \in chain.root[p].roles
              /\ t = "MintableERC721" => <<"PREDICATE", p>> \in chain.root[r].roles

\* The contracts never lose their admin: where the deployer is none any more, the
\* new owner is.  When the scripts are done all that they list is the new owner's,
\* proxies and roles, although they go on after an error, may be interrupted
\* anywhere, and find some of it done when they are run again.
NoneOrphaned ==
  LET Given(contract) ==
        /\ <<"DEFAULT_ADMIN", NewOwner>> \in contract.roles
        /\ ~Has(contract, "DEFAULT_ADMIN")
        /\ contract.proxyOwner # Deployer
      Owned == [root |-> Range(OwnedRoot), child |-> Range(OwnedChild)]
  IN  \A side \in DOMAIN Owned :
        /\ \A a \in DOMAIN chain[side] :
             LET contract == chain[side][a]
             IN  a[1] \in Owned[side] /\ (a[1] \in Proxies => contract.inited) =>
                   Has(contract, "DEFAULT_ADMIN")
                     \/ <<"DEFAULT_ADMIN", NewOwner>> \in contract.roles
        /\ Done => \A name \in Owned[side] : Given(chain[side][file[side][name]])

\* However it is interrupted, a deployment that is run again from where it was
\* gets to its end.  Only migration 4 may have to be given up, as the root manager
\* refuses to map a token twice, and then all of it starts over; no step of the
\* mainnet runbook may.
Completes == <>Done
=============================================================================
