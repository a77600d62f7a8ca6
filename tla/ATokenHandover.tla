---------------------------- MODULE ATokenHandover ----------------------------
(***************************************************************************)
(* The scripts that operate the aToken bridge after it was deployed: they  *)
(* map aTokens, upgrade the managers and hand the bridge over from the     *)
(* deployer to a multisig.  All run from the deployer's account, as often  *)
(* as she likes, at the same time, and may be interrupted anywhere.        *)
(*                                                                         *)
(* A script asks for an estimate of the transaction's gas, which throws if *)
(* the transaction would revert; it sends it, and waits for the receipt.   *)
(* An account's transactions are mined in the order in which they were     *)
(* sent, whether the script that sent them still waits or not.             *)
(***************************************************************************)
EXTENDS Naturals, Sequences, FiniteSets

CONSTANTS
  Token,         \* the aTokens; the same names stand for their maTokens
  Listed,        \* the maTokens that childTransferOwnership.js lists
  Deployer,      \* the account of the scripts
  Multisig,      \* the account that takes over
  NoOwner,       \* the owner of a maToken's proxy that does not exist
  MaxPending,    \* bound of the model: transactions that wait to be mined
  MaxVersions,   \* bound of the model: no more implementations when there are so many
  MaxRunning     \* bound of the model: scripts that run at the same time

ASSUME HandoverAssumption ==
  /\ Listed \in Seq(Token)
  /\ Deployer # Multisig /\ NoOwner \notin {Deployer, Multisig}
  /\ MaxPending \in Nat /\ MaxVersions \in Nat /\ MaxRunning \in Nat
  /\ Token # {}

Chain   == {"root", "child"}
Account == {Deployer, Multisig}
Script  == {"transferRoot", "transferChild", "upgradeRoot", "upgradeChild", "mapToken"}
Transfer == {"transferRoot", "transferChild"}

ChainOf(s) == IF s \in {"transferChild", "upgradeChild"} THEN "child" ELSE "root"

\* The transactions of each script, in their order.
\* A plausible bug, not the code: the owner changes before the mapper.
TransferRootOwnerFirst == <<"setOwner", "setMapper", "transferProxyOwnership">>

TransferRoot == <<"setMapper", "setOwner", "transferProxyOwnership">>

\* A plausible bug, not the code: the loop ends before the last token.
TransferChildMissesLast ==
  <<"setOwner", "transferProxyOwnership">> \o [i \in 1..(Len(Listed) - 1) |-> "transferToken"]

TransferChild ==
  <<"setOwner", "transferProxyOwnership">> \o [i \in 1..Len(Listed) |-> "transferToken"]

UpgradeRoot   == <<"deploy", "updateImplementation">>
UpgradeChild  == <<"deploy", "updateImplementation">>
MapAToken     == <<"mapToken">>

Steps(s) ==
  CASE s = "transferRoot"  -> TransferRoot
    [] s = "transferChild" -> TransferChild
    [] s = "upgradeRoot"   -> UpgradeRoot
    [] s = "upgradeChild"  -> UpgradeChild
    [] s = "mapToken"      -> MapAToken

VARIABLES
  owner,          \* owner of each manager
  mapper,         \* mapper of the root manager; the child manager has none
  proxyOwner,     \* owner of each manager's proxy
  implementation, \* the implementation of each manager, 0 being the first
  versions,       \* how many were deployed after that one
  mapped,         \* aTokens that are mapped on the root chain
  announced,      \* those whose mapping is on its way to the child chain
  tokenOwner,     \* owner of each maToken's proxy
  mempool,        \* the deployer's transactions that are not mined, in order
  run,            \* where each script is: at step 0 it does not run
  succeeded       \* the handovers that reported success (history)

contracts == <<owner, mapper, proxyOwner, implementation, versions, mapped, announced, tokenOwner>>
handoverVars == <<contracts, mempool, run, succeeded>>

\* A transaction is the step of a script, with the token or the implementation
\* it is about; awaited, if the script that sent it waits for the receipt.
Tx == [script : Script, step : Nat \ {0}, token : Token, version : Nat, awaited : BOOLEAN]

Run == [step : Nat, sent : BOOLEAN, token : Token, version : Nat]

Idle == [step |-> 0, sent |-> FALSE, token |-> CHOOSE t \in Token : TRUE, version |-> 0]

Running == {s \in Script : run[s].step > 0}

HandoverTypeOK ==
  /\ owner \in [Chain -> Account]
  /\ mapper \in Account
  /\ proxyOwner \in [Chain -> Account]
  /\ implementation \in [Chain -> Nat]
  /\ versions \in [Chain -> Nat]
  /\ mapped \subseteq Token
  /\ announced \subseteq mapped
  /\ tokenOwner \in [Token -> Account \cup {NoOwner}]
  /\ mempool \in [Chain -> Seq(Tx)]
  /\ run \in [Script -> Run]
  /\ \A s \in Script : run[s].step <= Len(Steps(s))
  /\ succeeded \subseteq Transfer

HandoverInit ==
  /\ owner = [c \in Chain |-> Deployer]
  /\ mapper = Deployer
  /\ proxyOwner = [c \in Chain |-> Deployer]
  /\ implementation = [c \in Chain |-> 0]
  /\ versions = [c \in Chain |-> 0]
  /\ mapped = {}
  /\ announced = {}
  /\ tokenOwner = [t \in Token |-> NoOwner]
  /\ mempool = [c \in Chain |-> << >>]
  /\ run = [s \in Script |-> Idle]
  /\ succeeded = {}

-----------------------------------------------------------------------------
Method(tx) == Steps(tx.script)[tx.step]

\* The token whose proxy a step of childTransferOwnership.js hands over.
ListedAt(step) == Listed[step - 2]

\* A plausible bug, not the code: the modifier is forgotten.
OnlyOwnerForgotten(c) == TRUE

OnlyOwner(c) == owner[c] = Deployer

OnlyProxyOwner(c) == proxyOwner[c] = Deployer

OnlyMapper == Deployer \in {mapper, owner["root"]}

\* Whether a transaction of the deployer does not revert.  A call of a maToken's
\* proxy that is not created yet goes to an address without code and succeeds.
Passes(tx) ==
  LET c == ChainOf(tx.script)
  IN  CASE Method(tx) \in {"setMapper", "setOwner"} -> OnlyOwner(c)
        [] Method(tx) \in {"transferProxyOwnership", "updateImplementation"} -> OnlyProxyOwner(c)
        [] Method(tx) = "transferToken" -> tokenOwner[ListedAt(tx.step)] # Multisig
        [] Method(tx) = "deploy" -> TRUE
        [] Method(tx) = "mapToken" -> OnlyMapper /\ tx.token \notin mapped

SetMapper ==
  /\ mapper' = Multisig
  /\ UNCHANGED <<owner, proxyOwner, implementation, versions, mapped, announced, tokenOwner>>

SetOwner(c) ==
  /\ owner' = [owner EXCEPT ![c] = Multisig]
  /\ UNCHANGED <<mapper, proxyOwner, implementation, versions, mapped, announced, tokenOwner>>

TransferProxyOwnership(c) ==
  /\ proxyOwner' = [proxyOwner EXCEPT ![c] = Multisig]
  /\ UNCHANGED <<owner, mapper, implementation, versions, mapped, announced, tokenOwner>>

TransferToken(t) ==
  /\ tokenOwner' = IF tokenOwner[t] = NoOwner THEN tokenOwner
                   ELSE [tokenOwner EXCEPT ![t] = Multisig]
  /\ UNCHANGED <<owner, mapper, proxyOwner, implementation, versions, mapped, announced>>

DeployImplementation(c) ==
  /\ versions' = [versions EXCEPT ![c] = @ + 1]
  /\ UNCHANGED <<owner, mapper, proxyOwner, implementation, mapped, announced, tokenOwner>>

UpdateImplementation(c, version) ==
  /\ implementation' = [implementation EXCEPT ![c] = version]
  /\ UNCHANGED <<owner, mapper, proxyOwner, versions, mapped, announced, tokenOwner>>

MapListed(t) ==
  /\ mapped' = mapped \cup {t}
  /\ announced' = announced \cup {t}
  /\ UNCHANGED <<owner, mapper, proxyOwner, implementation, versions, tokenOwner>>

Execute(tx) ==
  LET c == ChainOf(tx.script)
  IN  \/ Method(tx) = "setMapper" /\ SetMapper
      \/ Method(tx) = "setOwner" /\ SetOwner(c)
      \/ Method(tx) = "transferProxyOwnership" /\ TransferProxyOwnership(c)
      \/ Method(tx) = "transferToken" /\ TransferToken(ListedAt(tx.step))
      \/ Method(tx) = "deploy" /\ DeployImplementation(c)
      \/ Method(tx) = "updateImplementation" /\ UpdateImplementation(c, tx.version)
      \/ Method(tx) = "mapToken" /\ MapListed(tx.token)

-----------------------------------------------------------------------------
\* The operator runs a script.
Start(s) ==
  /\ run[s].step = 0
  /\ Cardinality(Running) < MaxRunning
  /\ IF s = "mapToken"
     THEN \E t \in Token : run' = [run EXCEPT ![s] = [Idle EXCEPT !.step = 1, !.token = t]]
     ELSE run' = [run EXCEPT ![s] = [Idle EXCEPT !.step = 1]]
  /\ UNCHANGED <<contracts, mempool, succeeded>>

TxOf(s) == [script |-> s, step |-> run[s].step, token |-> run[s].token,
            version |-> run[s].version, awaited |-> TRUE]

\* A plausible bug, not the code: a later transaction gets ahead of those that wait.
EnqueuedFirst(waiting, tx) == <<tx>> \o waiting

\* Nonces keep the order.
Enqueued(waiting, tx) == Append(waiting, tx)

IsDeployment(s) == Method(TxOf(s)) = "deploy"

Send(s) ==
  LET c == ChainOf(s)
  IN  /\ run[s].step > 0 /\ ~run[s].sent
      /\ Passes(TxOf(s))
      /\ Len(mempool["root"]) + Len(mempool["child"]) < MaxPending
      /\ IsDeployment(s) => versions["root"] + versions["child"] < MaxVersions
      /\ mempool' = [mempool EXCEPT ![c] = Enqueued(@, TxOf(s))]
      /\ run' = [run EXCEPT ![s].sent = TRUE]
      /\ UNCHANGED <<contracts, succeeded>>

\* The estimate throws.
Throw(s) ==
  /\ run[s].step > 0 /\ ~run[s].sent
  /\ ~Passes(TxOf(s))
  /\ run' = [run EXCEPT ![s] = Idle]
  /\ UNCHANGED <<contracts, mempool, succeeded>>

\* What the script sent stays sent, and nobody waits for it.
Interrupt(s) ==
  /\ run[s].step > 0
  /\ run' = [run EXCEPT ![s] = Idle]
  /\ mempool' = [c \in Chain |-> [i \in DOMAIN mempool[c] |->
                   [mempool[c][i] EXCEPT !.awaited = @ /\ mempool[c][i].script # s]]]
  /\ UNCHANGED <<contracts, succeeded>>

\* A plausible bug, not the code: a step too many.
IsLastStepMissed(tx) == tx.step > Len(Steps(tx.script))

IsLastStep(tx) == tx.step = Len(Steps(tx.script))

NextStep(r, version) == [r EXCEPT !.step = @ + 1, !.sent = FALSE, !.version = version]

\* The script that waits for the transaction goes on, or ends and reports
\* success after its last step.  A new implementation's address is known then.
Receipt(tx, c) ==
  IF ~tx.awaited THEN UNCHANGED <<run, succeeded>>
  ELSE IF IsLastStep(tx)
  THEN /\ run' = [run EXCEPT ![tx.script] = Idle]
       /\ succeeded' = succeeded \cup ({tx.script} \cap Transfer)
  ELSE /\ run' = [run EXCEPT ![tx.script] = NextStep(run[tx.script],
                       IF Method(tx) = "deploy" THEN versions'[c] ELSE 0)]
       /\ UNCHANGED succeeded

Mine(c) ==
  /\ mempool[c] # << >>
  /\ Passes(Head(mempool[c]))
  /\ mempool' = [mempool EXCEPT ![c] = Tail(@)]
  /\ Execute(Head(mempool[c]))
  /\ Receipt(Head(mempool[c]), c)

\* Something that was mined before made it revert: wait() throws.
MineReverted(c) ==
  /\ mempool[c] # << >>
  /\ LET tx == Head(mempool[c])
     IN  /\ ~Passes(tx)
         /\ run' = IF tx.awaited
                   THEN [run EXCEPT ![tx.script] = Idle]
                   ELSE run
  /\ mempool' = [mempool EXCEPT ![c] = Tail(@)]
  /\ UNCHANGED <<contracts, succeeded>>

\* The sync of a mapping: the child manager creates the maToken's proxy and gives
\* it to its own owner.
NewChildToken(t) ==
  /\ t \in announced
  /\ announced' = announced \ {t}
  /\ tokenOwner' = [tokenOwner EXCEPT ![t] = owner["child"]]
  /\ UNCHANGED <<owner, mapper, proxyOwner, implementation, versions, mapped,
                 mempool, run, succeeded>>

-----------------------------------------------------------------------------
HandoverNext ==
  \/ \E s \in Script : Start(s) \/ Send(s) \/ Throw(s) \/ Interrupt(s)
  \/ \E c \in Chain : Mine(c) \/ MineReverted(c)
  \/ \E t \in Token : NewChildToken(t)

HandoverSpec == HandoverInit /\ [][HandoverNext]_handoverVars

-----------------------------------------------------------------------------
\* The root chain's authorities change hands in one order, whatever is
\* interrupted and runs again: who took the proxy has the manager already, and
\* who took the manager is its mapper.  So a half-done handover never leaves the
\* deployer able to map tokens of a manager that is not hers.
HandedOverInOrder ==
  /\ proxyOwner["root"] = Multisig => owner["root"] = Multisig
  /\ owner["root"] = Multisig => mapper = Multisig
  /\ proxyOwner["child"] = Multisig => owner["child"] = Multisig

\* A script that reports success handed over all that it names, though it waited
\* for each transaction on its own and tokens were created in the meantime: a
\* listed maToken that did not exist when its turn came belongs to the multisig
\* from its creation.
SuccessIsComplete ==
  /\ "transferRoot" \in succeeded =>
       mapper = Multisig /\ owner["root"] = Multisig /\ proxyOwner["root"] = Multisig
  /\ "transferChild" \in succeeded =>
       /\ owner["child"] = Multisig /\ proxyOwner["child"] = Multisig
       /\ \A i \in DOMAIN Listed : tokenOwner[Listed[i]] # Deployer

\* The root manager was handed over and its proxy was not, and no run of the
\* script is past that point.
Split ==
  /\ owner["root"] = Multisig
  /\ proxyOwner["root"] = Deployer
  /\ run["transferRoot"].step < 3
  /\ \A i \in DOMAIN mempool["root"] :
       mempool["root"][i].script = "transferRoot" => mempool["root"][i].step < 3

\* A handover that was interrupted there stays half-done: no run of the script
\* gets past its first transaction again, so running it again never helps.
SplitStays == [][Split => Split']_handoverVars

\* An upgrade never puts an older implementation back, though its transactions
\* may be mined after the script was interrupted and run again.
NeverDowngraded == [][\A c \in Chain : implementation'[c] >= implementation[c]]_handoverVars
=============================================================================
