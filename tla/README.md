# A verification of the PoS portal

TLA+ models of the contracts under `contracts/`: a token bridge between a root
chain (Ethereum) and a child chain (Matic). Tokens are locked on the root chain
and minted on the child chain, or burned on the child chain and released on the
root chain. The two chains never call each other. Root to child, a call becomes
a *state sync* that the child chain executes some time later. Child to root, a
burn leaves an *event log*, and whoever wants the token proves to the root
chain that the log is part of a checkpointed block.

What can go wrong is therefore never inside one call, which reverts as a whole
if any of it fails, but between calls: the chains disagree for as long as a sync
or a proof is on its way, and everybody goes on using them.

## 1. The system

| component | state | operations |
|---|---|---|
| `RootChainManager`, registry | `rootToChildToken`, `childToRootToken`, `tokenToType`, `typeToPredicate` | `mapToken`, `remapToken`, `registerPredicate` |
| `RootChainManager`, deposits | `_stateSender`, `childChainManagerAddress`, syncs sent | `depositFor`, `depositEtherFor`, the setters |
| `RootChainManager`, exits | `processedExits`, `_checkpointManager` | `exit` |
| `ChildChainManager` | its own `rootToChildToken`, `childToRootToken` | `onStateReceive` (DEPOSIT, MAP_TOKEN), `mapToken` |
| predicates (ERC20, Ether, ERC721, MintableERC721, ERC1155, AERC20) | the tokens they hold | `lockTokens`, `exitTokens`, token receiver hooks |
| child tokens (ERC20, UERC20, DAI, WETH, ERC721, MintableERC721, ERC1155) | balances or owners, `withdrawnTokens` | `deposit`, `withdraw`, `withdrawBatch`, `mint`, `permit` |
| aToken bridge | as both managers, in one contract on each chain; the child token is created by CREATE2 | `mapToken`, `remapToken`, `depositFor`, `exit`, rounding conversions |
| tunnels | `processedExits`, `childTunnel` | `receiveMessage`, `onStateReceive` |
| potato migration | balances, `plantedAmount` | `plantOnChildFarm`, `onStateReceive`, `plantFor` |
| meta-transactions | `nonces`, `domainSeperator` | `executeMetaTransaction` |
| initialisation, roles, proxies | `inited`, roles, implementation slot | `initialize`, `updateImplementation`, `updateAndCall` |
| deployment | `contractAddresses.json`, `build/status.json`, the task queue | migrations 2 to 5, `queue-root-*.js`, `process-queue.js`, `extract-addresses.js`, `change-owners.js` |
| operation of the aToken bridge | owner, mapper, proxy owners, implementations | `map-atoken.js`, `upgradeAToken*.js`, the two transfer scripts |
| proof libraries | none | `checkMembership`, `verify`, the RLP reader |

Interactions: the manager calls the predicate of the token's type to lock or
release, and the state sender to send a sync; the child manager calls the child
token to mint; child tokens call nobody. Predicates accept calls from the
manager only, child tokens' `deposit` from the child manager only.

The behaviours that are hard, and what makes each part correct:

- *Registries.* Any sequence of `mapToken` and `remapToken` must leave the two
  directions inverse to each other, and types only on mapped tokens. `depositFor`
  reads one direction, `exit` the other.
- *Two registries.* The root's changes reach the child late; the child cleans up
  by other code than the root, without types, and ignores the state id. A deposit
  that is in flight while its token is remapped is credited through the child's
  registry as it is on arrival. It must be the token that was promised.
- *Custody.* Of every token there must be one claim on both chains together,
  counting what is on its way. Burns wait for a checkpoint and a proof, are
  proved in any order, by anybody, more than once, and the token may have come
  back in the meantime. Deposits wait for delivery while an admin mints on the
  child chain.
- *Progress.* A sync that reverts is gone, with the tokens locked; a burn whose
  exit reverts can be proved again. So a deposit must never revert on arrival,
  and nothing may make an exit revert for good.
- *Operation.* The contracts know each other only because scripts told them to, one
  transaction at a time, and every script can be interrupted between any two. The
  addresses travel through a file or the records of a queue worker that may do a task
  twice. What is left after an interruption must be possible to go on from, or at
  least not be taken for a finished portal; and a bridge that is handed over must not
  be left with two masters.
- *Numbers.* aToken conversions round half up both ways; the Merkle and nibble
  code works at byte boundaries; test tunnels wrap.

`PROJECT.json` lists these as hazards, each at its line, with the properties that
cover it or the reason why none does.

## 2. The modules

| module | what it is |
|---|---|
| `RootChainManager` | the root registry and the log of syncs it sends |
| `ChildChainManager` | the child registry |
| `MappingSync` | both of them with the delivery of syncs in between |
| `DepositPromise` | abstract: one pairing of tokens, deposits are promises, kept in order |
| `TokenCustody` | abstract: each token is in one place, in somebody's name |
| `MintableERC721Bridge` | a collection minted on the child chain |
| `MintableERC721BridgeProofs` | theorems about it |
| `ERC721Bridge` | a collection minted on the root chain, with batches |
| `ERC721BridgeProofs` | theorems about it |
| `Wallets` | abstract: money in wallets on both chains and on the way between them |
| `FungibleBridge` | ERC20, ether and ERC1155 |
| `FungibleBridgeProofs` | theorems about it |
| `ATokenMath` | the two rounding conversions, on machine words |
| `ATokenBridge` | the aToken bridge: both registries, values, maTokens |
| `SumTheorems` | what the proofs of these two bridges need to know of sums over sets |
| `UChildDAI` | a child token with allowances, relayed calls and permits |
| `RegistryAndTokenProofs` | theorems about `MappingSync` and about `UChildDAI` |
| `PortalContracts` | what the transactions of a deployment do to the contracts of a chain |
| `PortalDeployment` | the two runbooks of the deployment: scripts, files, queue and worker; the change of owners after it |
| `PortalDeploymentProofs` | theorems about it: types and owners |
| `PortalWiringProofs` | theorems about it: what is wired and can be deposited |
| `ATokenHandover` | the scripts that map, upgrade and hand over the aToken bridge |
| `ATokenProofs` | theorems about `ATokenMath`, `ATokenBridge` and `ATokenHandover` |
| `MC*` | instances for TLC |

### How they correspond to the code

A call that reverts changes nothing, so a `require` is a guard, and a call is one
step: what a manager, a predicate and a token do in one transaction is one
action, in the order of the code.

**`RootChainManager`.** `MapToken`, `RemapToken`, `RegisterPredicate`,
`SetStateSender`, `SetChildChainManagerAddress` and `DepositFor` are the external
functions. `MapTokenOver` is `_mapToken`; `UnmapRoot` and `UnmapChild` are the
clean-up of `remapToken`, which reads both old partners before it writes. The
mappings are total, as Solidity's are, so address(0) is in their domains: the
clean-up reads and could write there. `DepositFor` is both kinds of deposit; the
amounts and the receiver are not read by the registries.

**`ChildChainManager`.** `OnStateReceive` dispatches on the kind of sync;
`MappedRoots` and `MappedChildren` are the private `_mapToken`. `credited` is
history: which child token each delivered deposit was handed to.

**`MappingSync`.** `Deliver` takes the next sync in the order of the state ids,
as the comment of `DummyStateSender` describes. It reaches `onStateReceive` only
if the sender is the one the child chain listens to and the receiver is the
`ChildChainManager`. `versions` is history: the root registry after each sync.
`SyncedSpec` is normal operation, `OpenSpec` everything that role holders can do,
`ZeroChildSpec` normal operation but for mappers who name address(0).

**`MintableERC721Bridge`.** `Exit` is `RootChainManager.exit` and
`exitTokens` together. Its two branches on `token.exists` are one: the
token's owner on the root chain is the predicate (it is transferred) or nobody
(it is minted). `Deliver` has a second disjunct for `_mint` that reverts: the sync is
consumed. Logs stand for receipts, since every transaction of this token has one
Transfer log. `sunk` is history: tokens sent to the predicate with no deposit.

**`ERC721Bridge`.** A receipt is one transaction: the tokens it moves, from whom
to whom, and whether a `WithdrawnBatch` log follows the Transfer logs. An exit
names a receipt and a log in it, which is what `exitHash` is made of. `redeemed`
is history.

**`FungibleBridge`.** `Transfer` is what the token contracts do to their
balances, with SafeMath at both ends: mints come from `NoOne`, burns go to it.
`Deliver` has a second disjunct for the mint that overflows. One
module serves three kinds of token; `standard` is chosen at the start and never changes. ERC1155
has several ids, a call moves a function from ids to amounts and one log tells all of it.
ERC20 has one id and `TotalSupply`, whose mint adds up the supply as well.
Ether is ERC20 without the transfers to the predicate, which `receive` rejects.

**`ATokenMath`.** An operator is the set of what the call returns, empty if it
reverts. `Wrap` is the modulo of the word that Solidity 0.6 leaves unchecked;
the tests by division are the code's.

**`ATokenBridge`.** A CREATE2 address is the triple that is hashed: creator, root
token, bytecode hash. `childTokenAddress` computes it from the root manager's
configuration, `CreateToken` from the code that the child manager has; the owner
changes the one (`SetChildChainManagerAddressAndHash`), an upgrade the other.
`Cleaned` is the clean-up that both `_mapToken`s share. `Deliver` is
`onStateReceive`, with a disjunct for syncs that revert (no such token, or a
contract at the address already) or go to another address. `held` counts units, as the
aToken's own books do: `TransferUnits` is external and rounds as `p27Div`. In the record
of a sync, `child` is history: the child token the root chain had in mind; and
`kept` is: whether every mapping delivered so far created that token.

**`UChildDAI`.** What a call does is a set of ledgers, empty if it reverts, so a
relayed call is its effect together with the nonce or no step at all, as in the code,
where `require(success)` restores the nonce. `Effect` is the dispatch on the function selector with
`msg.sender` and the appended address as arguments; `msgSender` chooses between them.
Nobody holds signatures: anybody may present any signature that is good now, which covers
every order in which they could be held back. One that is not (another nonce, another name
of the token, an expired permit) reverts. `uses` and `last` are history.

**`PortalContracts`.** A chain is a function from addresses to contracts, an address the name of a
contract and how many of that name there are. `Passes` is whether a call of the deployer reverts and `Result` what
it leaves. A proxy is constructed with no implementation (`Constructed`); until `updateAndCall`
every other call to it is forwarded to address(0), succeeds and does nothing (`Forwards`). The
two managers differ where the code does: the root manager refuses a pair that is mapped (`RootMaps`), the child
manager takes it and cleans up (`ChildMapped`).

**`PortalDeployment`.** A script is the sequence of its steps in the order of its file: `Migration2` to
`Migration5`, `QueueRootDeployment` and `QueueRootInitializations`, built from the parts that the truffle
migrations and the queue scripts have in common. An argument is looked up in the addresses the script read when it started
(`StartScript`) or collected as it deployed. `Extracted` is `extract-addresses.js`: the entry with the highest id wins
for each name, as the keys of an object that are integers come in their order. A task is sent, recorded in
`build/status.json` and acknowledged in three steps (`SendTask`, `SaveStatus`, `AckTask`), and a worker stopped
in between leaves the task in the queue. The worker, moonwalker, is not in the repository; it is
modelled from how the scripts use it. `ChangeOwners` is `change-owners.js` over the contracts in the file: `TryCall` does
a call or skips it where the script's conditions say so, `TryFails` is a call that fails with the error caught, after which the
rest of its `try` block is left out and the operator, who reads the log, runs the script again.

**`ATokenHandover`.** A script waits for the receipt of each transaction before it sends the next one;
`Send` also asks for the estimate, and `Throw` is the estimate that fails. `Interrupt` leaves what was sent in the
mempool. `Mine` executes the first transaction of the account on a chain and lets the script that waits go on
(`Receipt`). A call to a maToken that does not exist goes to an address without code: it succeeds.
`NewChildToken` is the sync of a mapping, which creates the proxy with the child manager's owner as its own.
`succeeded` is history.

Definitions that are marked as plausible bugs are not the code: each replaces the definition
it stands before in a run that shows that a property would notice.

## 3. The runs

| run | specification | bounds | shows |
|---|---|---|---|
| `mapping_synced` | `FairSyncedSpec` | 2 root tokens, 2 child tokens, 2 types, 4 syncs | a token has a type exactly while it is mapped; the child is a past state of the root; deposits in flight are credited as promised, all of them in the end; the whole implements `DepositPromise` |
| `mapping_open` | `OpenSpec` | 2 managers, 1 sender or none, 3 syncs | each registry is one-to-one although syncs get lost and mappers write by hand |
| `mapping_zero_child` | `ZeroChildSpec` | 3 syncs | finding: a clean-up that is not one |
| `mintable_safety` | `FairSpec` | 2 tokens, 2 users, 5 logs of users and the admin, 2 deposits | one claim on each token, none lost, the flag, `TokenCustody`; every burn releases its token |
| `erc721_custody` | `SpecOneWay` | 2 tokens, 2 users, 5 receipts of users, 2 deposits, batches of up to 2 | the same for batches but for liveness; no burn gets stuck, whatever was exited before |
| `erc721_batch` | `Spec` | 4 receipts, 2 deposits | finding: one burn, two exits |
| `fungible` | `FairSpec` | ERC20: 1 id, numbers up to 2, 5 logs of users, 3 deposits; ERC1155: 2 ids, numbers up to 1, 3 logs, 2 deposits, no bound on the supply | every unit is backed, `Wallets`; every ERC20 burn is paid |
| `atoken` | `Spec` | 2 aTokens, 2 hashes, 2 managers, index from 1 to 1.5, 3 syncs, 2 burns | registries one-to-one; what the conversions return for every word; every unit is backed at any index; deposits in flight are credited as promised while mappings create what was announced |
| `dai` | `Spec` | 2 users and the token itself, numbers up to 2, 2 signatures of each | each nonce used once by whatever kind of signature; relayed calls do what direct ones would; tokens move by consent |
| `dai_pull` | `Spec` | the same, `pull` signed | finding: whom a relayed `pull` pays |
| `deployment` | `FairSpec` | both runbooks in full, 1 interruption or caught error anywhere | the portal on file is wired when the deployment is done; no root token is mapped before its predicate is ready; no contract ever lacks an admin, and in the end all are the new owner's; the runbook can be finished |
| `handover` | `Spec` | 1 token, 2 scripts at once, 2 pending transactions, 2 new implementations; any number of runs and interruptions | order and completeness of the handover; where it gets stuck; upgrades only go forward |

*Why the bounds are enough.* Two tokens on each side make every way in which
pairs can steal each other's partners: free or taken on either side, with the
same or with different partners. Four syncs are a mapping, a remap and two
deposits around them, or three mappings and remaps and one deposit, in every
order. In the bridges, five logs and two deposits are two full
round trips of a token with transfers, or one round trip of each of two; the
errors that the mutants plant show within one round trip and a second deposit.
`MaxUint` is the largest number of the fungible tokens: 2 is the least at which an
amount can be split, merged and overflow; with 1 every sum of two amounts of an id
overflows, and the two ids of a batch fail separately.
In the aToken runs the unit is 4, not 10^27:
with indices 5 and 6 products leave every remainder, an exact half among them, and quotients are
rounded both ways, and `ConversionsExact` goes through every word of the instance in every state, the products that
wrap included: a word has 128 values, so that there are products that wrap to zero (4 times 32), to something
else, and only once the half is added (6 times 21). Three syncs are a mapping, a remap and a deposit in any order.
In `dai`, two signatures of each user are the least that can be nested in each other, of one
signer or of two, with a permit next to them; a limit of 2 is enough for an allowance that is unlimited,
one that is used up and one in between.
In `deployment` a second interruption is a repetition of the first at another place, and a mainnet
run without any is some two hundred steps, of which each can be the one that is interrupted (the longest behaviour has 376 states). `handover`
bounds what is pending, never how often something happens.
The bounds stop users from burning and depositing, never the deliverer, the
checkpoints or the exits. `CHECK_DEADLOCK` is off for the bridges, where users
who have reached the bounds may have nothing left to do, and for the scripts, which end.

*Fairness.* `EveryDepositCredited` assumes `WF(Deliver)`: the child chain keeps
executing syncs, which is what it is for. Mappers and users are not fair.
`WithdrawalsRelease` assumes also that checkpoints keep being submitted and that
each burn is proved in the end if its exit is possible for good: whoever burned
the token wants it. `Completes` assumes that scripts that run go on, that the operator
runs what the runbook says next, and, strongly, that she does not for ever repeat a migration that reverts instead of starting
over. Everything else is fair only weakly.

*Findings.* (1) `remapToken` says it "properly cleans up old mapping". It
tests for a partner by comparing with address(0), and nothing stops a mapper from naming
address(0) as a token; then the registry can end with a child token that points at
a root token that does not point back. The other runs let mappers name real
tokens only. (2) `exit` says that it checks whether an exit was processed, by the
position of its log. `withdrawBatch` leaves two logs for each burn and
`ERC721Predicate` accepts both; a token that was exited by one of them and deposited
again is released by the other. `erc721_custody` assumes that users use one of the
two ways for a batch; for all other burns it assumes nothing. (3) A comment in
`UChildERC20` says never to use `msg.sender` directly, for the sake of relayed calls. `push`
and `pull` of `UChildDAI` do: a relayed `pull` moves the tokens to the token contract, for good.
The run `dai` lets users sign every other call and make these two directly. (4) Not a run that fails,
as no document rules it out: `p27Mul` returns early if the wrapped product is zero, before it tests for
overflow, so a product that is a multiple of 2^256 gives zero and does not revert. `ConversionsExact` and
`MulRoundsHalfUp` have this case apart, for every pair of words. No exit can get there, the public `getATokenValue` can.

## 4. The theorems

For every set of tokens, users and types and every bound, from the named
assumptions of the modules only (distinct addresses, natural bounds).

**Registries** (`RegistryAndTokenProofs`). `SyncedInv` is the inductive invariant. Two
things have to be added to what is wanted. Address(0) must have no partner and no type
(`ZeroUnmapped`), or the clean-ups of `remapToken`, which read through a free
side of the pair, would write there. And the history must relate each sync to the
versions around it: a deposit leaves the registry alone and is made on a mapped
token, and a mapping sync turns a version into the next one *by the child's code*.
This is the heart of the argument: two implementations of the same clean-up, and
that they agree needs the one-to-one property of every version. From it follow
`SyncedTypeOK`, `SyncedRegistry`, `ChildLagsRoot` (the child registry is a past
root registry), `DepositsKept`, `MapTokenSafe` and the refinement `PromiseKept`.
`OpenOneToOne` needs an invariant of its own, without any relation between the chains.

**Mintable collections** (`MintableERC721BridgeProofs`). `CustodyInvariant` gives
each token a *stage* (unborn, on the root, on the child, on its way there, on its
way back, sunk) and says for each stage what every variable holds for that token:
who owns it on either chain, which syncs are pending, which burns are open,
whether it is flagged. The stages exclude each other, which is why there is one
claim; every action moves a token along one edge, which is why the bridge
implements `TokenCustody`. From it follow `MintableTypeOK`, `MintableCustody`
(no double claim, no loss), `MintableFlag`, `MintableDelivery`, `MintableImplementsCustody`; and
`MintableReleasable`, the safety that `WithdrawalsRelease` rests on: an open burn can be exited as soon as it is
in a checkpoint, and stays so until it is.

**Collections with batches** (`ERC721BridgeProofs`). The same stages, but a step moves a set of tokens along an edge
and a burn may have two logs. So the invariant needs `BurnsRecorded` as well: a burn that released its token is in
`processedExits` under its own Transfer log unless its receipt is a batch. With it an exit is the first of its tokens (`ExitIsFirst`):
by the record for a single burn, by the premise of `SpecOneWay` for a batch, which is the only use of that premise; the finding
shows that it is needed. That a burn releases its token once is therefore no claim of `SpecOneWay`, and only
the run of the finding has it as a property; claimed is what follows from it, `ERC721TypeOK`, `ERC721Custody`, `ERC721Delivery` and
`ERC721ImplementsCustody`, for any number of tokens and any `BATCH_LIMIT`. `ERC721Releasable` is the other
direction, that no burn gets stuck. It needs the converse of `BurnsRecorded` (`RecordsReleased`): a log that was exited, a
WithdrawnBatch log too, did release the tokens it names, and it names one at least. So a log of which no token was released is
not recorded, and the stages say that the predicate still holds what it names.

**Sums** (`SumTheorems`). The values of the other bridges are sums over accounts, syncs and logs, folds of the
community modules. Induction with a predicate as a parameter is not available to the provers, so it is made over
sets instead: a set of numbers that holds 0 and every successor holds them all (`NatSetInduction`, from the least
element outside of it), and in the same way a set of subsets of a finite set (`SubsetInduction`). `IterationExists` builds the function
that the fold's recursion describes, and `SumRemove` is the result: the sum is the value at any element and the sum of
the rest. The lemmas that follow say what happens to a sum if one element or one value changes. They assume no more than that
the set is finite and the values are numbers.

**Fungible tokens** (`FungibleBridgeProofs`). For any number of users, ids, deposits and burns, and any largest number; ERC20 and
ERC1155 in one proof. That the set of users is finite is assumed, addresses have 20 bytes. `IInv` is
`TypeOK`, `Backed` and that burns are somebody's, and the parts need each other: `sunk` and what is minted
stay in their word only because the predicate's balance is in one and covers them. `FungibleTypeOK` and `FungibleBacked` are its
parts. `FungibleDelivery` says that no delivery ever reverts: a deposit on its way is a part of what the predicate holds, hence it and
the supply of the child token fit a word together (`PendingFits`), although no check on the root chain looks at
the child token. `FungiblePayable` is the other direction: an open burn is a part of what the predicate holds as well, so its exit is
covered in whatever order burns are proved; and as an ERC20 bounds its supply (`Bounded`) the receiver's balance has
room for it. For an ERC1155, which does not, that is not so, and `WithdrawalsRelease` does not claim it.
`FungibleImplementsWallets` maps every step: transfers to `Give`, a burn to `Withdraw`, an exit and a delivery to `Arrive`, a lock to
`Deposit`, a transfer to the predicate to `Sink`, a checkpoint to nothing. A wallet on its way is a sum over
the syncs or burns of one account, so each of these steps is proved to add or remove one element of one of these
sums and to leave those of all others alone (`SendTransit`, `DeliverTransit`, `BurnTransit`, `ExitTransit`).

**aTokens** (`ATokenProofs`). `DivRoundsHalfUp` and
`MulRoundsHalfUp` give the conversions in closed form: the test `a == c / P27` holds
exactly if the product did not wrap, and `p27Mul` alone lets the wrapped product zero pass before its test. `RoundTripExact` says that units
survive the two roundings: the value is within half a unit of fixed point of the product, and as the index is not
below 1 that is at most half an index, which the second rounding takes back. `ATokenConversionsExact`: so it is in every
reachable state, for every word and index, the round trip as long as the product is a word.
For the registries, `IInv` adds to `OneToOne` that address zero has no partner and
that a child token is only ever paired with the root token in its address:
`mapToken` cleans nothing up and relies on it. `ATokenDepositsKept` follows from a second
invariant, `PInv`, about the log of syncs: a deposit is for the token of the last mapping of its root token
before it, and the child registry has, while mappings are kept, the last mapping delivered.
`ATokenBacked` rests on both halves, the conversions and the registries. An exit takes no more than the units that were burned: as
many if their value is a word, and none if the product wraps to zero (`ExitTakes`), so backing is an inequality and the proof need
not know that no supply gets that large. And it
takes them from the root token in the burned token's address, whatever that is mapped to by then, because `IInv` pairs
child tokens with no other. Units that leave a sum, with a sync or a burn, enter another one or
are lost; a token that is created has no supply. `ATokenPayable` follows: the manager has what the exit of any open burn
takes, at every index. Assumed are the index of a reserve between 1 and a word, and the aToken's rounding.

**Signed calls** (`RegistryAndTokenProofs`). `SpendOnce` says that spending a nonce and counting its use keep
step, also twice in one transaction, for one signer or two; `CallEffect` that every function, whoever
`msg.sender` is, moves tokens of the sender or out of an allowance to the sender. `DAIRelayedAsDirect` assumes that
`push` and `pull` are not signed, which the finding shows to be needed.

**Operating the aToken bridge** (`ATokenProofs`). For a list of maTokens of any length, any number of scripts at
once and of pending transactions. `HandoverInv` adds two things to what is wanted. `QueueOK` says what the
mempool can hold: an awaited transaction is the step its script is at, and there is one of each script at most;
`Reached` says what has been handed over for good once a script has got to some step, or left a transaction
of that step in the mempool, awaited or not. From it follow `HandoverTypeSafe`, `HandoverInOrder`, `HandoverComplete` and
`HandoverSplitStays`. `HandoverNeverDowngraded` needs `UpgradeInv` as well: the versions in
a mempool rise from the one installed, because nonces keep the order in which they were sent.

**Deployment** (`PortalDeploymentProofs`, `PortalWiringProofs`). For any number of interruptions, on both runbooks. The scripts
are lists built by concatenation and flattening, so the proof first says what each list has at each position
(`DeploymentsAt`, `InitsAt`, `QueueRootDeploymentAt`, `ChangeOwnersAt` and others), and what each transaction changes (`DeployKeeps`,
`CallKeeps`, `ResultIs`). `Inv1` adds to `TypeOK` that the books of addresses, the status file, the tasks in the queue and the script
are of this deployment; `TypeSafe` follows. `Inv2` follows a deployment through the queue: a task that left the queue is
recorded in the status file (`Deploying`) and its proxy is initialized (`Initializing`), since a task is acknowledged only after it
was recorded, whatever is interrupted and delivered twice in between; so what `extract-addresses.js` reads is complete
(`AllDeployed`, `RootFile`), and the file has all addresses that the next script needs (`FileReady`). `Inv3` is about the change of owners:
the deployer's role is revoked only after the same script gave it to the new owner (`RevokeOK`), so that there always is an
owner (`HasOwner`), and a run of the script that logged no error has handed over all contracts it passed (`Handed`).
`OrphansNever` follows.

`Inv4` (from here on `PortalWiringProofs`) says how the root chain is initialized. Migration 4 and the queue keep the order of the tasks: before each one of the
queue all those it follows are done, or are queued ahead of it (`InitsInOrder`). A task that the worker has handled took effect, also
one that reverted: the only ones that can are those already done, by an earlier delivery of the task or by the run before
(`RefusedIsMapped`, `InitTaken`). A manager has only predicates and tokens of the file (`Registered`, `Mapped`), and `ManagersOK`
holds of every root manager on the chain, those of abandoned deployments too: its predicates keep what they need, as a step that
is not an initialization takes no role but the admin's and changes no setting (`RootGoes`). `DepositsReady` follows, which is about the root chain alone: its tokens are mapped before migration 5 writes
the child chain's registry. `Inv5` is its
counterpart on the child chain: a child token takes deposits from the manager deployed before it (`ChildDeploying`, `ChildFile`), and
migration 5 may be repeated (`ChildInitsRun`), because the pairs of its manager are mapped to one another or to nothing, so what
`mapToken` cleans up is the pair that it writes again (`ChildMappedIs`). `DeployedIsWired` puts `InitsDone` and `ChildInitsDone` together.

**Model-checked only.** The liveness properties, `EveryDepositCredited`, `WithdrawalsRelease` and `Completes`: they need
fairness and `ENABLED`. The theorems on deliveries and on burns that can be exited are their safety halves. And the findings,
which are counterexamples. Every other property of a passing run is a theorem.

## 5. What is abstracted, what is left out

- The proof of an exit is the condition that the log is in a checkpointed
  receipt. The bytes that show it (RLP, Merkle, Patricia) are not modelled.
- `registerPredicate` accepts the type `bytes32(0)`, the models leave it out. A token mapped with it would be mapped and
  have no type, against `TypedIffMapped`; `depositFor` refuses such a token, `exit` does not.
- Approvals, gas and re-entrance are left out. Token receiver hooks run inside
  `safeTransferFrom`; `exit` records the exit before it calls the predicate.
- Users of the bridges accept the tokens they are sent. A contract that burns but
  cannot receive will not get its token (a hazard without a property).
- In the bridges the collection stays mapped and its predicate stays registered,
  the sync goes to the right contract and is delivered in order: `MappingSync` has
  what happens otherwise to the registries.
- Moving no tokens is not modelled (`Amounts` and `Batches` leave it out). In the bridges, allowances,
  the names of tokens and the repetition of an id in one ERC1155 batch, which adds up, are left out.
- Role holders are honest in the sense that nothing but the contract's functions
  is called. Who holds a role is modelled for the deployment and, in the aToken bridge, for owners and mappers.
- In the aToken bridge a maToken is its supply: who owns it, and how balances move, is in
  `FungibleBridge`. The state sender and the checkpoint manager are fixed. Two outside
  facts are assumed: the index never falls below 1, and the aToken's transfer
  rounds units as `p27Div` does.
- `UChildDAI` leaves out `changeName` and the expiry of permits: both only make signatures revert.

- A task that reverts is dropped by the worker, and the rest of the queue goes on; one worker runs at a time. The
  three seconds that `queue-root-deployment.js` waits are taken to be enough for its tasks to be queued.
  Step 11 of the runbook, on a `StateSender` outside the repository, is left out. Starting over after
  a revert is on the truffle path only, the runbook of mainnet has no step for it.
- Estimates of gas fail if the transaction would revert, and transactions of an account are mined in the order of their nonces.
  One multisig stands for the new owners of the two chains.

### Not modelled

- *Tunnels* and the *potato migration*: examples under `test/` of what can be built on state syncs. The order of
  syncs and the replay of proofs, which they rely on, are in `MappingSync` and the bridges.
- *Proof libraries* (`Merkle`, `MerklePatriciaProof`, `RLPReader`): bytes and hashes; a model of them would say nothing
  about the order of steps.
- `changeName`, `renounceRole` and upgrades of the portal's own proxies.
- *Scripts* that send or read one transaction (`deploy-*`, `send-*`, `read-*`, `convert-*`, `exit-manager.js`,
  `update-implementation.js`) and those that generate files
  (`process-templates`, `flatten-contracts`, `generate-artifacts`); the configurations of truffle and hardhat.
- `artifacts/` and `flat/`, which are generated.

## 6. Observations

Met while reading the scripts, none of them a run, as no document claims otherwise:

- The transfer scripts cannot be run again after `setOwner` was mined: `SplitStays` says so of the root chain; on
  the child chain the first call is `setOwner` itself. What is left has to be done by hand: by the new
  owner, except for the proxies, which are still the deployer's.
- `childTransferOwnership.js` lists three maTokens, `map-atoken.js` names nine aTokens. maTokens that were created before the
  handover and are not listed stay with the deployer; `SuccessIsComplete` is about the list.
- An upgrade of the child manager may change the bytecode of child tokens, and the root manager goes on
  with the old hash until its owner sets it: the premise of `CreditedAsPromised`.
- Both runbooks map the root tokens before the child chain's registry is written. A deposit made in between would be
  locked, and its sync revert. Nobody deposits during a deployment in the models; `MappedCanDeposit` has the root chain's side only.
- `queue-root-initializations.js:5` repeats the number of tasks of another file. `ReadyIsWired` fails with any smaller one
  that makes two tasks share an id.
- Two workers at a time would reorder tasks; nothing in the scripts prevents it.
- `change-owners.js` can be run again after any interruption or error, unlike the transfer scripts, as it asks each contract what
  is left to do. It hands over neither `MAPPER_ROLE` nor `MANAGER_ROLE`, and its success says nothing: errors are only in the log.
- `deploy-child-manager.js:21` passes four arguments to an `initialize` of three; `exit-manager.js:5` has a string that does
  not end; the scripts that `package.json` runs from `scripts/` are in `scripts/truffle/`; the `6_change_owners.js` of the README
  does not exist.

## 7. What could follow

- A composition of exits, remaps and replaced predicates for the portal, as the aToken bridge has it for exits and remaps.
- The proof libraries as functions, against reference definitions over small inputs.
