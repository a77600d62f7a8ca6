----------------------------- MODULE ERC721Bridge -----------------------------
(***************************************************************************)
(* An NFT collection that is minted on the root chain: an ERC721 there,    *)
(* ERC721Predicate, ChildERC721, and the part of the two managers that     *)
(* carries its deposits and its burns.  Several tokens travel together: a  *)
(* deposit of a batch is one sync, and withdrawBatch is one transaction    *)
(* with a Transfer log for each burn and a WithdrawnBatch log for all.     *)
(*                                                                         *)
(* The child chain is the sequence of its transactions' receipts.  An exit *)
(* names a receipt and a log in it, as (blockNumber, branchMask,           *)
(* receiptLogIndex) does.                                                  *)
(***************************************************************************)
EXTENDS Naturals, Sequences, FiniteSets

CONSTANTS
  TokenId,
  User,
  Predicate,      \* the ERC721Predicate, as an owner of root tokens
  NoOne,          \* no owner: address(0), the owner of a token not minted
  Batch,          \* names the WithdrawnBatch log of a receipt
  BatchLimit,     \* BATCH_LIMIT of the predicate and of the child token
  MaxReceipts,    \* bound of the model: users stop moving tokens on the child
                  \* chain once it has this many receipts
  MaxSyncs        \* bound of the model: deposits

ASSUME AccountAssumption ==
  /\ NoOne \notin User \cup {Predicate}
  /\ Predicate \notin User
  /\ Batch \notin TokenId
  /\ BatchLimit \in Nat \ {0}
  /\ MaxReceipts \in Nat /\ MaxSyncs \in Nat

VARIABLES
  rootOwner,        \* owners in the root token contract
  processedExits,   \* the logs that were exited, as <<receipt, log>>
  syncs,            \* syncs[i]: the i-th deposit sent to the child chain
  childOwner,       \* owners in the child token contract
  delivered,        \* how many of the syncs the child chain consumed
  receipts,         \* the child token's transactions, in block order
  checkpointed,     \* how many of them are in checkpointed blocks
  redeemed,         \* burns that released their token, as <<receipt, id>> (history)
  sunk              \* tokens transferred to the predicate directly (history)

rootVars  == <<rootOwner, processedExits, syncs, redeemed, sunk>>
childVars == <<childOwner, receipts>>
vars == <<rootVars, childVars, delivered, checkpointed>>

\* A transaction moves its tokens between the same two owners, with one
\* Transfer log for each; batch tells whether it has a WithdrawnBatch log.
Receipt == [from : User \cup {NoOne}, to : User \cup {NoOne},
            ids : SUBSET TokenId, batch : BOOLEAN]
Deposit == [user : User, ids : SUBSET TokenId]

\* The names of logs: a Transfer is named by its receipt and its token.
Logs == (1..Len(receipts)) \X (TokenId \cup {Batch})

TypeOK ==
  /\ rootOwner \in [TokenId -> User \cup {Predicate, NoOne}]
  /\ processedExits \subseteq Logs
  /\ syncs \in Seq(Deposit)
  /\ childOwner \in [TokenId -> User \cup {NoOne}]
  /\ delivered \in 0..Len(syncs)
  /\ receipts \in Seq(Receipt)
  /\ checkpointed \in 0..Len(receipts)
  /\ redeemed \subseteq (1..Len(receipts)) \X TokenId
  /\ sunk \subseteq TokenId

Init ==
  /\ rootOwner = [id \in TokenId |-> NoOne]
  /\ processedExits = {}
  /\ syncs = << >>
  /\ childOwner = [id \in TokenId |-> NoOne]
  /\ delivered = 0
  /\ receipts = << >>
  /\ checkpointed = 0
  /\ redeemed = {}
  /\ sunk = {}

\* Tokens ids change hands, if they are all in the hands of from.
Pass(owner, ids, from, to) ==
  /\ \A id \in ids : owner[id] = from
  /\ owner' = [id \in TokenId |-> IF id \in ids THEN to ELSE owner[id]]

-----------------------------------------------------------------------------
\* The child chain.

MoveOnChild(ids, from, to, batch) ==
  /\ Pass(childOwner, ids, from, to)
  /\ receipts' = Append(receipts, [from |-> from, to |-> to, ids |-> ids, batch |-> batch])

ChildTransfer(from, to, id) ==
  /\ Len(receipts) < MaxReceipts
  /\ MoveOnChild({id}, from, to, FALSE)
  /\ UNCHANGED <<rootVars, delivered, checkpointed>>

Withdraw(user, id) ==
  /\ Len(receipts) < MaxReceipts
  /\ MoveOnChild({id}, user, NoOne, FALSE)
  /\ UNCHANGED <<rootVars, delivered, checkpointed>>

WithdrawBatch(user, ids) ==
  /\ Len(receipts) < MaxReceipts
  /\ Cardinality(ids) <= BatchLimit
  /\ MoveOnChild(ids, user, NoOne, TRUE)
  /\ UNCHANGED <<rootVars, delivered, checkpointed>>

\* The child manager passes the next deposit on to the token.  The deposit of a
\* batch mints all of it or, if one token exists, reverts; the sync is consumed
\* either way.
Deliver ==
  /\ delivered < Len(syncs)
  /\ LET d == syncs[delivered + 1]
     IN  \/ MoveOnChild(d.ids, NoOne, d.user, FALSE)
         \/ /\ \E id \in d.ids : childOwner[id] # NoOne
            /\ UNCHANGED childVars
  /\ delivered' = delivered + 1
  /\ UNCHANGED <<rootVars, checkpointed>>

\* A plausible bug, not the code: the end of the range is taken as exclusive.
SubmitCheckpointPastEnd ==
  /\ checkpointed' \in (checkpointed + 1)..(Len(receipts) + 1)
  /\ UNCHANGED <<rootVars, childVars, delivered>>

\* A checkpoint covers the blocks since the one before it.
SubmitCheckpoint ==
  /\ checkpointed' \in (checkpointed + 1)..Len(receipts)
  /\ UNCHANGED <<rootVars, childVars, delivered>>

-----------------------------------------------------------------------------
\* The root chain.

RootMint(user, id) ==
  /\ Pass(rootOwner, {id}, NoOne, user)
  /\ UNCHANGED <<processedExits, syncs, redeemed, sunk, childVars, delivered, checkpointed>>

\* A holder transfers its token, perhaps to the predicate, whose
\* onERC721Received accepts it.
RootTransfer(from, to, id) ==
  /\ Pass(rootOwner, {id}, from, to)
  /\ sunk' = IF to = Predicate THEN sunk \cup {id} ELSE sunk
  /\ UNCHANGED <<processedExits, syncs, redeemed, childVars, delivered, checkpointed>>

\* A plausible bug, not the code: the sync is sent, nothing is locked.
DepositForUnlocked(depositor, user, ids) ==
  /\ Cardinality(ids) <= BatchLimit
  /\ Len(syncs) < MaxSyncs
  /\ \A id \in ids : rootOwner[id] = depositor
  /\ syncs' = Append(syncs, [user |-> user, ids |-> ids])
  /\ UNCHANGED <<rootOwner, processedExits, redeemed, sunk, childVars, delivered, checkpointed>>

\* depositFor and the predicate's lockTokens, of one token or of a batch, with
\* the sync that follows.
DepositFor(depositor, user, ids) ==
  /\ Cardinality(ids) <= BatchLimit
  /\ Len(syncs) < MaxSyncs
  /\ Pass(rootOwner, ids, depositor, Predicate)
  /\ syncs' = Append(syncs, [user |-> user, ids |-> ids])
  /\ UNCHANGED <<processedExits, redeemed, sunk, childVars, delivered, checkpointed>>

\* The tokens that the predicate's exitTokens releases for a log: the token of
\* a Transfer to address(0), or all those of a WithdrawnBatch.
Released(k, log) ==
  IF log = Batch THEN receipts[k].ids ELSE {log}

\* A plausible bug, not the code: any Transfer will do.
ValidLogAnyTransfer(k, log) ==
  \/ log = Batch /\ receipts[k].batch
  \/ log \in receipts[k].ids /\ receipts[k].from # NoOne

ValidLog(k, log) ==
  \/ log = Batch /\ receipts[k].batch
  \/ log \in receipts[k].ids /\ receipts[k].to = NoOne

\* Plausible bugs, not the code: the hash of an exit leaves out the index of the
\* log, so that one log of a transaction exits them all; an exit pays its caller.
ExitByTransaction(k, log) ==
  /\ <<k, log>> \notin processedExits
  /\ processedExits' = processedExits \cup {k} \X (TokenId \cup {Batch})
  /\ k <= checkpointed
  /\ ValidLog(k, log)
  /\ Pass(rootOwner, Released(k, log), Predicate, receipts[k].from)
  /\ redeemed' = redeemed \cup {<<k, id>> : id \in Released(k, log)}
  /\ UNCHANGED <<syncs, sunk, childVars, delivered, checkpointed>>

ExitToCaller(k, log) ==
  /\ <<k, log>> \notin processedExits
  /\ processedExits' = processedExits \cup {<<k, log>>}
  /\ k <= checkpointed
  /\ ValidLog(k, log)
  /\ \E caller \in User : Pass(rootOwner, Released(k, log), Predicate, caller)
  /\ redeemed' = redeemed \cup {<<k, id>> : id \in Released(k, log)}
  /\ UNCHANGED <<syncs, sunk, childVars, delivered, checkpointed>>

\* exit, for anybody who proves that the log is in a checkpointed block.  A
\* token that the predicate does not hold makes the call revert, with
\* processedExits as it was.
Exit(k, log) ==
  /\ <<k, log>> \notin processedExits
  /\ processedExits' = processedExits \cup {<<k, log>>}
  /\ k <= checkpointed
  /\ ValidLog(k, log)
  /\ Pass(rootOwner, Released(k, log), Predicate, receipts[k].from)
  /\ redeemed' = redeemed \cup {<<k, id>> : id \in Released(k, log)}
  /\ UNCHANGED <<syncs, sunk, childVars, delivered, checkpointed>>

-----------------------------------------------------------------------------
\* A batch of no token moves none.
Batches == (SUBSET TokenId) \ {{}}

\* Every operation but exit.
Move ==
  \/ \E u, v \in User, id \in TokenId : ChildTransfer(u, v, id)
  \/ \E u \in User, id \in TokenId : Withdraw(u, id)
  \/ \E u \in User, ids \in Batches : WithdrawBatch(u, ids)
  \/ Deliver
  \/ SubmitCheckpoint
  \/ \E u \in User, id \in TokenId : RootMint(u, id)
  \/ \E u \in User, v \in User \cup {Predicate}, id \in TokenId : RootTransfer(u, v, id)
  \/ \E u, v \in User, ids \in Batches : DepositFor(u, v, ids)

Next == Move \/ \E l \in Logs : Exit(l[1], l[2])
Spec == Init /\ [][Next]_vars

\* What the contracts do as long as the users exit a withdrawBatch in one way,
\* by its WithdrawnBatch log or by its Transfer logs, which nothing enforces.
ExitOneWay(k, log) ==
  /\ Exit(k, log)
  /\ receipts[k].batch => \A id \in Released(k, log) : <<k, id>> \notin redeemed

NextOneWay == Move \/ \E l \in Logs : ExitOneWay(l[1], l[2])
SpecOneWay == Init /\ [][NextOneWay]_vars

-----------------------------------------------------------------------------
\* The claims on a token, as in MintableERC721Bridge.
PendingDeposits(id) == {i \in (delivered + 1)..Len(syncs) : id \in syncs[i].ids}

OpenBurns(id) == {k \in 1..Len(receipts) : /\ id \in receipts[k].ids
                                           /\ receipts[k].to = NoOne
                                           /\ <<k, id>> \notin redeemed}

Claims(id) ==
  {[at |-> "root", by |-> u, ref |-> 0] : u \in User \cap {rootOwner[id]}}
  \cup {[at |-> "child", by |-> u, ref |-> 0] : u \in User \cap {childOwner[id]}}
  \cup {[at |-> "toChild", by |-> syncs[i].user, ref |-> i] : i \in PendingDeposits(id)}
  \cup {[at |-> "toRoot", by |-> receipts[k].from, ref |-> k] : k \in OpenBurns(id)}

\* No token is ever claimed twice, across both chains and everything that is
\* on its way between them.
AtMostOneClaim == \A id \in TokenId : \A x, y \in Claims(id) : x = y

\* No token is lost either: a token the predicate holds is claimed by somebody,
\* on the child chain or on its way, unless its holder gave it away.
LockedIsClaimed ==
  \A id \in TokenId : rootOwner[id] = Predicate /\ id \notin sunk => Claims(id) # {}

\* Both: a token is somebody's, and no two people's, wherever it is on its way.
OneClaimEach == AtMostOneClaim /\ LockedIsClaimed

\* Delivering a deposit always mints every token of the batch for its receiver.
DeliveryMints ==
  [][delivered' # delivered
       => LET d == syncs[delivered + 1]
          IN \A id \in d.ids : childOwner'[id] = d.user]_vars

\* "checking if exit has already been processed, unique exit is identified
\* using hash of (blockNumber, branchMask, receiptLogIndex)": a burn releases
\* its token once, however often and in whatever way its transaction is exited.
BurnReleasesOnce ==
  [][\A l \in Logs : Exit(l[1], l[2])
       => \A id \in Released(l[1], l[2]) : <<l[1], id>> \notin redeemed]_vars

\* Whether nothing but a checkpoint is missing for the exit of a log.
CanRelease(k, log) ==
  /\ <<k, log>> \notin processedExits
  /\ \A id \in Released(k, log) : rootOwner[id] = Predicate

\* No burn gets stuck: whatever was exited in the meantime, its neighbours in the
\* batch included, and however often its token went back and forth before, a
\* burn that did not release its token can do so by its Transfer log, and a
\* withdrawBatch of which no token was released by its WithdrawnBatch log.  It
\* needs that the exits of a receipt are recorded apart, and that no other exit
\* or deposit takes the tokens of an open burn from the predicate.
BurnsReleasable ==
  \A l \in Logs :
    /\ ValidLog(l[1], l[2])
    /\ \A id \in Released(l[1], l[2]) : l[1] \in OpenBurns(id)
    => CanRelease(l[1], l[2])

\* The bridge implements the custody of each token id.
place ==
  [id \in TokenId |->
     IF Claims(id) # {}
     THEN LET x == CHOOSE x \in Claims(id) : TRUE IN [at |-> x.at, by |-> x.by]
     ELSE [at |-> IF id \in sunk THEN "sunk" ELSE "unborn"]]

Custody == INSTANCE TokenCustody
ImplementsCustody == Custody!Spec
=============================================================================
