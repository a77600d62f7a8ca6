----------------------------- MODULE MappingSync -----------------------------
(***************************************************************************)
(* The two token registries and the state sync between them: every write   *)
(* to the RootChainManager's registry is followed, some time later, by the *)
(* delivery of its sync to the ChildChainManager.  In between, users go on *)
(* depositing and mappers go on remapping, and a deposit is credited       *)
(* through the child's registry as it is when the deposit arrives.         *)
(***************************************************************************)
EXTENDS RootChainManager

CONSTANTS
  ChildManager,   \* the address of the ChildChainManager
  StateSender     \* the sender whose syncs the child chain delivers

ASSUME WiringAssumption == ChildManager \in Manager /\ StateSender \in Sender

VARIABLES
  childRootToChildToken,
  childChildToRootToken,
  credited,
  versions        \* versions[i + 1]: the root registry right after the i-th
                  \* sync was sent (history)

childVars == <<childRootToChildToken, childChildToRootToken, credited>>
vars == <<rootVars, childVars, versions>>

Child == INSTANCE ChildChainManager
           WITH rootToChildToken <- childRootToChildToken,
                childToRootToken <- childChildToRootToken

RootRegistry  == [r2c |-> rootToChildToken, c2r |-> childToRootToken]
ChildRegistry == [r2c |-> childRootToChildToken, c2r |-> childChildToRootToken]

Registry == [r2c : [RootAddress -> ChildAddress], c2r : [ChildAddress -> RootAddress]]

TypeOK ==
  /\ RootTypeOK
  /\ Child!ChildTypeOK
  /\ versions \in Seq(Registry)
  /\ Len(versions) = Len(syncs) + 1
  /\ Len(credited) <= Len(syncs)

-----------------------------------------------------------------------------
\* Deployment as the migrations leave it: both contracts fresh, the root
\* contract wired to the state sender and to the child contract.
WiredInit ==
  /\ typeToPredicate = [t \in TokenType |-> Zero]
  /\ rootToChildToken = [r \in RootAddress |-> Zero]
  /\ childToRootToken = [c \in ChildAddress |-> Zero]
  /\ tokenToType = [r \in RootAddress |-> NoType]
  /\ stateSender = StateSender
  /\ childChainManagerAddress = ChildManager
  /\ syncs = << >>
  /\ Child!ChildInit
  /\ versions = <<RootRegistry>>

FreshInit ==
  /\ RootInit
  /\ Child!ChildInit
  /\ versions = <<RootRegistry>>

\* A step of the root contract; the history notes the registry at each sync.
RootStep(A) ==
  /\ A
  /\ versions' = IF syncs' = syncs THEN versions ELSE Append(versions, RootRegistry')
  /\ UNCHANGED childVars

\* The child chain consumes the next sync, in the order of the state ids.  Only
\* a sync that went through the sender it listens to and is addressed to the
\* ChildChainManager calls its onStateReceive.
Reaches(sync) == sync.sender = StateSender /\ sync.receiver = ChildManager

Deliver ==
  /\ Len(credited) < Len(syncs)
  /\ LET sync == syncs[Len(credited) + 1]
     IN  \/ Reaches(sync) /\ Child!OnStateReceive(sync)
         \/ ~Reaches(sync) /\ Child!Missed
  /\ UNCHANGED <<rootVars, versions>>

ManualMapToken(r, c) ==
  /\ Child!MapToken(r, c)
  /\ UNCHANGED <<rootVars, versions>>

\* Normal operation: "normally mapping should happen automatically using state
\* sync", so the wiring is left alone and nobody maps by hand.
SyncedNext == RootStep(Operate) \/ Deliver

SyncedSpec == WiredInit /\ [][SyncedNext]_vars

\* The child chain keeps delivering syncs that were sent.
FairSyncedSpec == SyncedSpec /\ WF_vars(Deliver)

\* Everything the role holders can do, in any order, from fresh contracts.
OpenNext ==
  \/ RootStep(RootNext)
  \/ Deliver
  \/ \E r \in RootToken, c \in ChildToken : ManualMapToken(r, c)

OpenSpec == FreshInit /\ [][OpenNext]_vars

\* Normal operation, but for mappers who may name address(0) as the child.
ZeroChildSpec == WiredInit /\ [][RootStep(OperateAnyChild) \/ Deliver]_vars

-----------------------------------------------------------------------------
ChildOneToOne == Child!ChildOneToOne

\* Both registries pair tokens one to one, each on its own.
BothOneToOne == RootOneToOne /\ ChildOneToOne

\* "Remap a token that has already been mapped, properly cleans up old
\* mapping": after any mapToken or remapToken, no child token is left naming a
\* root token that does not name it.
OldMappingCleanedUp ==
  \A c \in ChildToken :
    childToRootToken[c] # Zero => rootToChildToken[childToRootToken[c]] = c

\* The child registry is always an exact past state of the root registry: the
\* one that followed the last sync delivered.  The two contracts run different
\* code for it: the root cleans up in remapToken only and clears types, the
\* child cleans up on every sync.
ChildIsPastRoot == ChildRegistry = versions[Len(credited) + 1]

\* The child token that was mapped when the i-th sync was sent, if the sync is
\* a deposit.
promised ==
  [i \in 1..Len(syncs) |->
     IF syncs[i].kind = "DEPOSIT" THEN versions[i + 1].r2c[syncs[i].root] ELSE Zero]

\* A deposit that has been delivered called the deposit function of the child
\* token that was mapped when the user deposited, although _syncDeposit looks
\* the token up on arrival: it neither reverted on a missing mapping (which
\* would leave the tokens locked) nor credited the token of a later remap.
DepositsCreditedAsPromised == \A i \in 1..Len(credited) : credited[i] = promised[i]

\* The mappings and deposits implement the promise of DepositPromise.
Promise == INSTANCE DepositPromise
             WITH partner  <- [r \in RootToken |-> rootToChildToken[r]],
                  kept     <- credited,
                  Nobody   <- Zero
ImplementsPromise == Promise!Spec

\* Every deposit is credited in the end, to the promised child token.
EveryDepositCredited ==
  \A i \in 1..MaxSyncs :
    (i <= Len(syncs) /\ syncs[i].kind = "DEPOSIT")
      ~> (i <= Len(credited) /\ credited[i] = promised[i] /\ credited[i] # Zero)
=============================================================================
