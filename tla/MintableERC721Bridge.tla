------------------------- MODULE MintableERC721Bridge -------------------------
(***************************************************************************)
(* An NFT collection that is minted on the child chain, from mint to exit  *)
(* and back: ChildMintableERC721 on the child chain, a token that obeys    *)
(* IMintableERC721 on the root chain, MintableERC721Predicate between      *)
(* them, and the part of the two managers that carries its deposits        *)
(* (depositFor, onStateReceive) and its burns (exit).  The collection is   *)
(* mapped and stays mapped; MappingSync is about the mapping.              *)
(*                                                                         *)
(* Deposits travel as state syncs, delivered in order.  Burns travel as    *)
(* event logs: an exit proves that a log is part of a checkpointed block.  *)
(***************************************************************************)
EXTENDS Naturals, Sequences

CONSTANTS
  TokenId,
  User,
  Predicate,      \* the MintableERC721Predicate, as an owner of root tokens
  NoOne,          \* no owner: address(0), the owner of a token not minted
  MaxLogs,        \* bound of the model: users and the admin stop moving tokens
                  \* on the child chain once it has emitted this many logs
  MaxSyncs        \* bound of the model: deposits

ASSUME AccountAssumption ==
  /\ NoOne \notin User \cup {Predicate}
  /\ Predicate \notin User
  /\ MaxLogs \in Nat /\ MaxSyncs \in Nat

VARIABLES
  rootOwner,        \* owners in the root token contract
  processedExits,   \* indices of the logs that were exited
  syncs,            \* syncs[i]: the i-th deposit sent to the child chain
  childOwner,       \* owners in the child token contract
  withdrawnTokens,
  delivered,        \* how many of the syncs the child chain consumed
  logs,             \* the Transfer logs of the child token, in block order
  checkpointed,     \* how many of them are in checkpointed blocks
  sunk              \* tokens transferred to the predicate directly (history)

rootVars  == <<rootOwner, processedExits, syncs, sunk>>
childVars == <<childOwner, withdrawnTokens, logs>>
vars == <<rootVars, childVars, delivered, checkpointed>>

Transfer == [from : User \cup {NoOne}, to : User \cup {NoOne}, id : TokenId]
Deposit  == [user : User, id : TokenId]

TypeOK ==
  /\ rootOwner \in [TokenId -> User \cup {Predicate, NoOne}]
  /\ processedExits \subseteq 1..Len(logs)
  /\ syncs \in Seq(Deposit)
  /\ childOwner \in [TokenId -> User \cup {NoOne}]
  /\ withdrawnTokens \in [TokenId -> BOOLEAN]
  /\ delivered \in 0..Len(syncs)
  /\ logs \in Seq(Transfer)
  /\ checkpointed \in 0..Len(logs)
  /\ sunk \subseteq TokenId

\* Nothing is minted: "make sure minting is done only by this function" says
\* IMintableERC721 of the predicate's mint.
Init ==
  /\ rootOwner = [id \in TokenId |-> NoOne]
  /\ processedExits = {}
  /\ syncs = << >>
  /\ childOwner = [id \in TokenId |-> NoOne]
  /\ withdrawnTokens = [id \in TokenId |-> FALSE]
  /\ delivered = 0
  /\ logs = << >>
  /\ checkpointed = 0
  /\ sunk = {}

-----------------------------------------------------------------------------
\* The child chain.

\* Every change of owner in the child token (ERC721's _mint, _burn and
\* _transfer) emits a Transfer log.
MoveOnChild(id, from, to) ==
  /\ childOwner[id] = from
  /\ childOwner' = [childOwner EXCEPT ![id] = to]
  /\ logs' = Append(logs, [from |-> from, to |-> to, id |-> id])

\* A plausible bug, not the code: mint does not read withdrawnTokens.
ChildMintUnchecked(user, id) ==
  /\ Len(logs) < MaxLogs
  /\ MoveOnChild(id, NoOne, user)
  /\ UNCHANGED <<rootVars, withdrawnTokens, delivered, checkpointed>>

\* mint, for the admin of the token.
ChildMint(user, id) ==
  /\ ~withdrawnTokens[id]
  /\ Len(logs) < MaxLogs
  /\ MoveOnChild(id, NoOne, user)
  /\ UNCHANGED <<rootVars, withdrawnTokens, delivered, checkpointed>>

ChildTransfer(from, to, id) ==
  /\ Len(logs) < MaxLogs
  /\ MoveOnChild(id, from, to)
  /\ UNCHANGED <<rootVars, withdrawnTokens, delivered, checkpointed>>

\* withdraw: the owner burns the token.
Withdraw(user, id) ==
  /\ Len(logs) < MaxLogs
  /\ MoveOnChild(id, user, NoOne)
  /\ withdrawnTokens' = [withdrawnTokens EXCEPT ![id] = TRUE]
  /\ UNCHANGED <<rootVars, delivered, checkpointed>>

\* A plausible bug, not the code: the flag survives the deposit.
DeliverKeepsFlag ==
  /\ delivered < Len(syncs)
  /\ LET d == syncs[delivered + 1]
     IN  \/ MoveOnChild(d.id, NoOne, d.user)
         \/ childOwner[d.id] # NoOne /\ UNCHANGED <<childOwner, logs>>
  /\ delivered' = delivered + 1
  /\ UNCHANGED <<rootVars, withdrawnTokens, checkpointed>>

\* The child manager passes the next deposit on to the token.  _mint reverts if
\* the token exists, and the flag with it; the sync is consumed either way.
Deliver ==
  /\ delivered < Len(syncs)
  /\ LET d == syncs[delivered + 1]
     IN  \/ /\ MoveOnChild(d.id, NoOne, d.user)
            /\ withdrawnTokens' = [withdrawnTokens EXCEPT ![d.id] = FALSE]
         \/ /\ childOwner[d.id] # NoOne
            /\ UNCHANGED childVars
  /\ delivered' = delivered + 1
  /\ UNCHANGED <<rootVars, checkpointed>>

\* A plausible bug, not the code: the end of the range is taken as exclusive.
SubmitCheckpointPastEnd ==
  /\ checkpointed' \in (checkpointed + 1)..(Len(logs) + 1)
  /\ UNCHANGED <<rootVars, childVars, delivered>>

\* A checkpoint covers the blocks since the one before it.
SubmitCheckpoint ==
  /\ checkpointed' \in (checkpointed + 1)..Len(logs)
  /\ UNCHANGED <<rootVars, childVars, delivered>>

-----------------------------------------------------------------------------
\* The root chain.

\* A holder transfers its token, perhaps to the predicate, whose
\* onERC721Received accepts it.
RootTransfer(from, to, id) ==
  /\ rootOwner[id] = from
  /\ rootOwner' = [rootOwner EXCEPT ![id] = to]
  /\ sunk' = IF to = Predicate THEN sunk \cup {id} ELSE sunk
  /\ UNCHANGED <<processedExits, syncs, childVars, delivered, checkpointed>>

\* depositFor and the predicate's lockTokens, with the sync that follows.
DepositFor(depositor, user, id) ==
  /\ rootOwner[id] = depositor
  /\ Len(syncs) < MaxSyncs
  /\ rootOwner' = [rootOwner EXCEPT ![id] = Predicate]
  /\ syncs' = Append(syncs, [user |-> user, id |-> id])
  /\ UNCHANGED <<processedExits, childVars, delivered, checkpointed, sunk>>

\* Plausible bugs, not the code: an exit is never recorded, accepts any Transfer,
\* only ever mints the token.
ExitReplayed(i) ==
  /\ i <= checkpointed
  /\ LET log == logs[i]
     IN  /\ log.to = NoOne
         /\ rootOwner[log.id] \in {Predicate, NoOne}
         /\ rootOwner' = [rootOwner EXCEPT ![log.id] = log.from]
  /\ UNCHANGED <<processedExits, syncs, childVars, delivered, checkpointed, sunk>>

ExitAnyTransfer(i) ==
  /\ i \notin processedExits
  /\ processedExits' = processedExits \cup {i}
  /\ i <= checkpointed
  /\ rootOwner[logs[i].id] \in {Predicate, NoOne}
  /\ rootOwner' = [rootOwner EXCEPT ![logs[i].id] = logs[i].from]
  /\ UNCHANGED <<syncs, childVars, delivered, checkpointed, sunk>>

ExitMintsOnly(i) ==
  /\ i \notin processedExits
  /\ processedExits' = processedExits \cup {i}
  /\ i <= checkpointed
  /\ LET log == logs[i]
     IN  /\ log.to = NoOne
         /\ rootOwner[log.id] = NoOne
         /\ rootOwner' = [rootOwner EXCEPT ![log.id] = log.from]
  /\ UNCHANGED <<syncs, childVars, delivered, checkpointed, sunk>>

\* exit, for anybody who proves that log i is in a checkpointed block, and the
\* predicate's exitTokens.  The predicate transfers as an owner, so a token in
\* other hands makes the call revert, with processedExits as it was.
Exit(i) ==
  /\ i \notin processedExits
  /\ processedExits' = processedExits \cup {i}
  /\ i <= checkpointed
  /\ LET log == logs[i]
     IN  /\ log.to = NoOne
         /\ rootOwner[log.id] \in {Predicate, NoOne}
         /\ rootOwner' = [rootOwner EXCEPT ![log.id] = log.from]
  /\ UNCHANGED <<syncs, childVars, delivered, checkpointed, sunk>>

-----------------------------------------------------------------------------
Next ==
  \/ \E u \in User, id \in TokenId : ChildMint(u, id)
  \/ \E u, v \in User, id \in TokenId : ChildTransfer(u, v, id)
  \/ \E u \in User, id \in TokenId : Withdraw(u, id)
  \/ Deliver
  \/ SubmitCheckpoint
  \/ \E u \in User, v \in User \cup {Predicate}, id \in TokenId : RootTransfer(u, v, id)
  \/ \E u, v \in User, id \in TokenId : DepositFor(u, v, id)
  \/ \E i \in 1..Len(logs) : Exit(i)

Spec == Init /\ [][Next]_vars

\* Syncs are delivered and checkpoints are submitted as long as there are any
\* to come, and whoever is owed a token proves its burn in the end.
FairSpec ==
  /\ Spec
  /\ WF_vars(Deliver)
  /\ WF_vars(SubmitCheckpoint)
  /\ \A i \in 1..(MaxLogs + MaxSyncs) : WF_vars(i <= Len(logs) /\ Exit(i))

-----------------------------------------------------------------------------
\* The claims on a token: a holder's on either chain, that of the receiver of
\* a deposit not delivered yet, that of the account a burn was made by, until
\* the burn has been exited.
PendingDeposits(id) == {i \in (delivered + 1)..Len(syncs) : syncs[i].id = id}

OpenBurns(id) == {i \in (1..Len(logs)) \ processedExits :
                    logs[i].id = id /\ logs[i].to = NoOne}

Claims(id) ==
  {[at |-> "root", by |-> u, ref |-> 0] : u \in User \cap {rootOwner[id]}}
  \cup {[at |-> "child", by |-> u, ref |-> 0] : u \in User \cap {childOwner[id]}}
  \cup {[at |-> "toChild", by |-> syncs[i].user, ref |-> i] : i \in PendingDeposits(id)}
  \cup {[at |-> "toRoot", by |-> logs[i].from, ref |-> i] : i \in OpenBurns(id)}

Minted(id) == \E i \in 1..Len(logs) : logs[i].id = id

\* No token is ever claimed twice, across both chains and everything that is
\* on its way between them: not by an admin's mint on the child chain while the
\* token is away, not by an exit of an old burn after the token came back.
AtMostOneClaim == \A id \in TokenId : \A x, y \in Claims(id) : x = y

\* No token is lost either: once minted, it is claimed by somebody, unless its
\* holder gave it to the predicate without a deposit.
AlwaysClaimed == \A id \in TokenId : Minted(id) /\ id \notin sunk => Claims(id) # {}

\* Both: a token is somebody's, and no two people's, wherever it is on its way.
OneClaimEach == AtMostOneClaim /\ AlwaysClaimed

\* withdrawnTokens tells the child chain's mint whether the token lives on the
\* root chain or is on its way: it is set exactly while a minted token is away.
WithdrawnMeansAway ==
  \A id \in TokenId : withdrawnTokens[id] <=> Minted(id) /\ childOwner[id] = NoOne

\* A delivered deposit always mints the token for its receiver; it never meets
\* a token that exists already, which would leave the locked one without owner.
DeliveryMints ==
  [][delivered' # delivered
       => LET d == syncs[delivered + 1] IN childOwner'[d.id] = d.user]_vars

\* The bridge implements the custody of each token id.
place ==
  [id \in TokenId |->
     IF Claims(id) # {}
     THEN LET x == CHOOSE x \in Claims(id) : TRUE IN [at |-> x.at, by |-> x.by]
     ELSE [at |-> IF id \in sunk THEN "sunk" ELSE "unborn"]]

Custody == INSTANCE TokenCustody
ImplementsCustody == Custody!Spec

\* Every burn releases its token in the end: while it waits for a checkpoint
\* and a proof nothing can happen that makes its exit revert.
WithdrawalsRelease ==
  \A i \in 1..(MaxLogs + MaxSyncs) :
    (i <= Len(logs) /\ logs[i].to = NoOne) ~> (i \in processedExits)
=============================================================================
