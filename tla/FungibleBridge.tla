---------------------------- MODULE FungibleBridge ----------------------------
(***************************************************************************)
(* Fungible tokens across the two chains.  An ERC1155 collection has many  *)
(* ids that are moved in batches; an ERC20 is the case of one id, which    *)
(* adds up its supply, and so is ether, which nobody but the manager can   *)
(* send to its predicate.  The predicate locks an amount, the child token  *)
(* mints it; a burn leaves a Transfer (or TransferSingle, TransferBatch)   *)
(* log, and the predicate releases what the log says.                      *)
(*                                                                         *)
(* As in MintableERC721Bridge, every transaction of the child token has    *)
(* one log, and logs stand for receipts.                                   *)
(***************************************************************************)
EXTENDS Naturals, Sequences, FiniteSetsExt

CONSTANTS
  Id,
  User,
  Predicate,      \* the predicate, as a holder of root tokens
  NoOne,          \* address(0): mints come from it, burns go to it
  MaxUint,        \* the largest uint256, which may be less for one standard
  MaxLogs,        \* bound of the model, by standard: users stop moving tokens on
                  \* the child chain once it has this many logs
  MaxSyncs        \* bound of the model, by standard: deposits

Standard == {"ERC20", "ERC1155"}

ASSUME FungibleAssumption ==
  /\ NoOne \notin User \cup {Predicate}
  /\ Predicate \notin User
  /\ IsFiniteSet(User)      \* addresses have 20 bytes
  /\ Id # {}
  /\ MaxUint \in [Standard -> Nat \ {0}]
  /\ MaxLogs \in [Standard -> Nat] /\ MaxSyncs \in [Standard -> Nat]

VARIABLES
  standard,         \* of the token
  rootBalance,      \* balances in the root token contract
  processedExits,   \* the logs that were exited
  syncs,            \* syncs[i]: the i-th deposit sent to the child chain
  childBalance,     \* balances in the child token contract
  delivered,        \* how many of the syncs the child chain consumed
  logs,             \* the child token's logs, in block order
  checkpointed,     \* how many of them are in checkpointed blocks
  sunk              \* transferred to the predicate directly (history)

rootVars  == <<rootBalance, processedExits, syncs, sunk>>
childVars == <<childBalance, logs>>
vars == <<standard, rootVars, childVars, delivered, checkpointed>>

\* Whether the token adds up the supply of an id.
TotalSupply == standard = "ERC20"

\* The one id of an ERC20.
ERC20Id == CHOOSE id \in Id : TRUE

\* What a call moves of each id.  Moving nothing is not modelled.
AmountsOf(s) ==
  {x \in [Id -> 0..MaxUint[s]] : /\ \E id \in Id : x[id] > 0
                                 /\ s = "ERC20" => \A id \in Id \ {ERC20Id} : x[id] = 0}

Amounts == AmountsOf(standard)
Log == [from : User \cup {NoOne}, to : User \cup {NoOne}, amounts : Amounts]
Deposit == [user : User, amounts : Amounts]

TypeOK ==
  /\ standard \in Standard
  /\ rootBalance \in [Id -> [User \cup {Predicate} -> 0..MaxUint[standard]]]
  /\ processedExits \subseteq 1..Len(logs)
  /\ syncs \in Seq(Deposit)
  /\ childBalance \in [Id -> [User -> 0..MaxUint[standard]]]
  /\ delivered \in 0..Len(syncs)
  /\ logs \in Seq(Log)
  /\ checkpointed \in 0..Len(logs)
  /\ sunk \in [Id -> 0..MaxUint[standard]]

Init ==
  /\ standard \in Standard
  /\ rootBalance = [id \in Id |-> [a \in User \cup {Predicate} |-> 0]]
  /\ processedExits = {}
  /\ syncs = << >>
  /\ childBalance = [id \in Id |-> [u \in User |-> 0]]
  /\ delivered = 0
  /\ logs = << >>
  /\ checkpointed = 0
  /\ sunk = [id \in Id |-> 0]

-----------------------------------------------------------------------------
\* Balances, with SafeMath: a call that would go below zero or above MaxUint
\* reverts.

Supply(balance, id) == SumFunction(balance[id])

Enough(balance, from, amounts) == \A id \in Id : balance[id][from] >= amounts[id]

Fits(balance, from, to, amounts) ==
  \A id \in Id :
    /\ to # from => balance[id][to] + amounts[id] <= MaxUint[standard]
    /\ TotalSupply /\ from = NoOne => Supply(balance, id) + amounts[id] <= MaxUint[standard]

\* The balances after the move: NoOne has none.
Moved(balance, from, to, amounts) ==
  [id \in Id |-> [a \in DOMAIN balance[id] |->
     LET debited == IF a = from THEN balance[id][a] - amounts[id] ELSE balance[id][a]
     IN  IF a = to THEN debited + amounts[id] ELSE debited]]

Transfer(balance, from, to, amounts) ==
  /\ from # NoOne => Enough(balance, from, amounts)
  /\ to # NoOne => Fits(balance, from, to, amounts)
  /\ balance' = Moved(balance, from, to, amounts)

-----------------------------------------------------------------------------
\* The child chain.

MoveOnChild(from, to, amounts) ==
  /\ Transfer(childBalance, from, to, amounts)
  /\ logs' = Append(logs, [from |-> from, to |-> to, amounts |-> amounts])

ChildTransfer(from, to, amounts) ==
  /\ Len(logs) < MaxLogs[standard]
  /\ MoveOnChild(from, to, amounts)
  /\ UNCHANGED <<rootVars, delivered, checkpointed>>

\* withdraw, withdrawSingle, withdrawBatch: the holder burns.
Withdraw(user, amounts) ==
  /\ Len(logs) < MaxLogs[standard]
  /\ MoveOnChild(user, NoOne, amounts)
  /\ UNCHANGED <<rootVars, delivered, checkpointed>>

\* The child manager passes the next deposit on to the token.  If the balance
\* or the supply would overflow it reverts; the sync is consumed either way.
Deliver ==
  /\ delivered < Len(syncs)
  /\ LET d == syncs[delivered + 1]
     IN  \/ MoveOnChild(NoOne, d.user, d.amounts)
         \/ ~Fits(childBalance, NoOne, d.user, d.amounts) /\ UNCHANGED childVars
  /\ delivered' = delivered + 1
  /\ UNCHANGED <<rootVars, checkpointed>>

\* A plausible bug, not the code: the end of the range is taken as exclusive.
SubmitCheckpointPastEnd ==
  /\ checkpointed' \in (checkpointed + 1)..(Len(logs) + 1)
  /\ UNCHANGED <<rootVars, childVars, delivered>>

\* A checkpoint covers the blocks since the one before it.
SubmitCheckpoint ==
  /\ checkpointed' \in (checkpointed + 1)..Len(logs)
  /\ UNCHANGED <<rootVars, childVars, delivered>>

-----------------------------------------------------------------------------
\* The root chain.

RootMint(user, amounts) ==
  /\ Transfer(rootBalance, NoOne, user, amounts)
  /\ UNCHANGED <<processedExits, syncs, sunk, childVars, delivered, checkpointed>>

\* A holder transfers, perhaps to the predicate, which accepts any ERC20 and
\* every batch of an ERC1155.
RootTransfer(from, to, amounts) ==
  /\ Transfer(rootBalance, from, to, amounts)
  /\ sunk' = IF to = Predicate THEN [id \in Id |-> sunk[id] + amounts[id]] ELSE sunk
  /\ UNCHANGED <<processedExits, syncs, childVars, delivered, checkpointed>>

\* A plausible bug, not the code: the sync is sent, nothing is locked.
DepositForUnlocked(depositor, user, amounts) ==
  /\ Len(syncs) < MaxSyncs[standard]
  /\ Enough(rootBalance, depositor, amounts)
  /\ syncs' = Append(syncs, [user |-> user, amounts |-> amounts])
  /\ UNCHANGED <<rootBalance, processedExits, sunk, childVars, delivered, checkpointed>>

\* The predicate's lockTokens.
LockTokens(depositor, amounts) == Transfer(rootBalance, depositor, Predicate, amounts)

\* depositFor, depositEtherFor, with the sync that follows the lock.
DepositFor(depositor, user, amounts) ==
  /\ Len(syncs) < MaxSyncs[standard]
  /\ LockTokens(depositor, amounts)
  /\ syncs' = Append(syncs, [user |-> user, amounts |-> amounts])
  /\ UNCHANGED <<processedExits, sunk, childVars, delivered, checkpointed>>

\* The predicate's exitTokens.
ExitTokens(log) ==
  /\ log.to = NoOne
  /\ Transfer(rootBalance, Predicate, log.from, log.amounts)

\* Plausible bugs, not the code: an exit is identified by what its log says, pays
\* only one id of a batch.
ExitKnownByLog(i) ==
  /\ \A j \in processedExits : logs[j] # logs[i]
  /\ processedExits' = processedExits \cup {i}
  /\ i <= checkpointed
  /\ ExitTokens(logs[i])
  /\ UNCHANGED <<syncs, sunk, childVars, delivered, checkpointed>>

ExitFirstId(i) ==
  /\ i \notin processedExits
  /\ processedExits' = processedExits \cup {i}
  /\ i <= checkpointed
  /\ logs[i].to = NoOne
  /\ LET first == CHOOSE id \in Id : logs[i].amounts[id] > 0
         paid  == [id \in Id |-> IF id = first THEN logs[i].amounts[id] ELSE 0]
     IN  Transfer(rootBalance, Predicate, logs[i].from, paid)
  /\ UNCHANGED <<syncs, sunk, childVars, delivered, checkpointed>>

\* exit, for anybody who proves that log i is in a checkpointed block.
Exit(i) ==
  /\ i \notin processedExits
  /\ processedExits' = processedExits \cup {i}
  /\ i <= checkpointed
  /\ ExitTokens(logs[i])
  /\ UNCHANGED <<syncs, sunk, childVars, delivered, checkpointed>>

-----------------------------------------------------------------------------
Step ==
  \/ \E u, v \in User, x \in Amounts : ChildTransfer(u, v, x)
  \/ \E u \in User, x \in Amounts : Withdraw(u, x)
  \/ Deliver
  \/ SubmitCheckpoint
  \/ \E u \in User, x \in Amounts : RootMint(u, x)
  \/ \E u \in User, v \in User \cup {Predicate}, x \in Amounts : RootTransfer(u, v, x)
  \/ \E u, v \in User, x \in Amounts : DepositFor(u, v, x)
  \/ \E i \in 1..Len(logs) : Exit(i)

Next == Step /\ UNCHANGED standard

Spec == Init /\ [][Next]_vars

\* The indices that a log may have.
LogIndex == 1..Max({MaxLogs[s] + MaxSyncs[s] : s \in Standard})

\* As in MintableERC721Bridge.
FairSpec ==
  /\ Spec
  /\ WF_vars(Deliver /\ UNCHANGED standard)
  /\ WF_vars(SubmitCheckpoint /\ UNCHANGED standard)
  /\ \A i \in LogIndex : WF_vars(i <= Len(logs) /\ Exit(i) /\ UNCHANGED standard)

-----------------------------------------------------------------------------
PendingDeposits == (delivered + 1)..Len(syncs)

OpenBurns == {i \in (1..Len(logs)) \ processedExits : logs[i].to = NoOne}

Total(entries, S, id) == SumFunction([i \in S |-> entries[i].amounts[id]])

\* What the predicate holds of each id is, to the last unit, what exists on the
\* child chain, what is on its way there or back, and what was given away: every
\* burn can be paid, in whatever order they are proved.
Backed ==
  \A id \in Id :
    rootBalance[id][Predicate]
      = Supply(childBalance, id) + Total(syncs, PendingDeposits, id)
        + Total(logs, OpenBurns, id) + sunk[id]

\* The bridge implements the wallets.  What is on its way in somebody's name is
\* what was sent to that account and has not arrived.
wallet ==
  [w \in {"root", "child", "toChild", "toRoot"} \X User |-> [id \in Id |->
     CASE w[1] = "root"    -> rootBalance[id][w[2]]
       [] w[1] = "child"   -> childBalance[id][w[2]]
       [] w[1] = "toChild" -> Total(syncs, {i \in PendingDeposits : syncs[i].user = w[2]}, id)
       [] w[1] = "toRoot"  -> Total(logs, {i \in OpenBurns : logs[i].from = w[2]}, id)]]

supply == [id \in Id |-> Supply(rootBalance, id)]

Wallets == INSTANCE Wallets WITH Amounts <- UNION {AmountsOf(s) : s \in Standard}
ImplementsWallets == Wallets!Spec

\* Every burn of an ERC20 is paid in the end: no balance it is paid to can be
\* too full for it, as the supply is bounded.
WithdrawalsRelease ==
  \A i \in LogIndex :
    (standard = "ERC20" /\ i <= Len(logs) /\ logs[i].to = NoOne) ~> (i \in processedExits)
=============================================================================
