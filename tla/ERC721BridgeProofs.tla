-------------------------- MODULE ERC721BridgeProofs --------------------------
(***************************************************************************)
(* Proofs about ERC721Bridge, for every set of tokens and users, every     *)
(* size of batch and every number of transfers, deposits and exits, as     *)
(* long as the users exit each withdrawBatch in one way (SpecOneWay).      *)
(***************************************************************************)
EXTENDS ERC721Bridge, TLAPS

-----------------------------------------------------------------------------
\* The inductive invariant.  What the exits know of the burns: one that
\* released its token is recorded under its own name, except in a batch, which
\* may have been exited as a whole; and a burn is by somebody.
BurnsRecorded ==
  /\ \A l \in redeemed : receipts[l[1]].batch \/ l \in processedExits
  /\ \A k \in 1..Len(receipts) :
       /\ receipts[k].batch => receipts[k].to = NoOne
       /\ receipts[k].to = NoOne => receipts[k].from \in User

\* The stages a token id can be in: how its two owners, its deposits and its
\* burns go together.
Quiet(id) == PendingDeposits(id) = {} /\ OpenBurns(id) = {}

Unborn(id) ==
  rootOwner[id] = NoOne /\ childOwner[id] = NoOne /\ Quiet(id) /\ id \notin sunk

OnRoot(id) ==
  rootOwner[id] \in User /\ childOwner[id] = NoOne /\ Quiet(id) /\ id \notin sunk

IsSunk(id) ==
  rootOwner[id] = Predicate /\ childOwner[id] = NoOne /\ Quiet(id) /\ id \in sunk

OnChild(id) ==
  rootOwner[id] = Predicate /\ childOwner[id] \in User /\ Quiet(id) /\ id \notin sunk

ToChild(id, i) ==
  /\ rootOwner[id] = Predicate /\ childOwner[id] = NoOne /\ id \notin sunk
  /\ PendingDeposits(id) = {i} /\ OpenBurns(id) = {}

ToRoot(id, k) ==
  /\ rootOwner[id] = Predicate /\ childOwner[id] = NoOne /\ id \notin sunk
  /\ PendingDeposits(id) = {} /\ OpenBurns(id) = {k}

InOneStage(id) ==
  \/ Unborn(id) \/ OnRoot(id) \/ IsSunk(id) \/ OnChild(id)
  \/ \E i \in Nat : ToChild(id, i)
  \/ \E k \in Nat : ToRoot(id, k)

CustodyInv == TypeOK /\ BurnsRecorded /\ \A id \in TokenId : InOneStage(id)

-----------------------------------------------------------------------------
\* What each stage says of the claims on the token, and of its place.
LEMMA ClaimsOfStage ==
  ASSUME TypeOK, NEW id \in TokenId
  PROVE  /\ Unborn(id) \/ IsSunk(id) => Claims(id) = {}
         /\ OnChild(id) => Claims(id) = {[at |-> "child", by |-> childOwner[id], ref |-> 0]}
         /\ OnRoot(id) => Claims(id) = {[at |-> "root", by |-> rootOwner[id], ref |-> 0]}
         /\ \A i : ToChild(id, i)
              => Claims(id) = {[at |-> "toChild", by |-> syncs[i].user, ref |-> i]}
         /\ \A k : ToRoot(id, k)
              => Claims(id) = {[at |-> "toRoot", by |-> receipts[k].from, ref |-> k]}
<1> USE AccountAssumption DEF Claims, Quiet
<1>1. Unborn(id) \/ IsSunk(id) => Claims(id) = {}
  BY DEF Unborn, IsSunk
<1>2. OnChild(id) => Claims(id) = {[at |-> "child", by |-> childOwner[id], ref |-> 0]}
  BY DEF OnChild
<1>3. OnRoot(id) => Claims(id) = {[at |-> "root", by |-> rootOwner[id], ref |-> 0]}
  BY DEF OnRoot
<1>4. ASSUME NEW i, ToChild(id, i)
      PROVE  Claims(id) = {[at |-> "toChild", by |-> syncs[i].user, ref |-> i]}
  BY <1>4 DEF ToChild
<1>5. ASSUME NEW k, ToRoot(id, k)
      PROVE  Claims(id) = {[at |-> "toRoot", by |-> receipts[k].from, ref |-> k]}
  BY <1>5 DEF ToRoot
<1> QED
  BY <1>1, <1>2, <1>3, <1>4, <1>5

PlaceFitsStage(id) ==
  /\ Unborn(id) => place[id] = Custody!Unborn
  /\ IsSunk(id) => place[id] = Custody!Sunk
  /\ OnChild(id) => place[id] = Custody!In("child", childOwner[id])
  /\ OnRoot(id) => place[id] = Custody!In("root", rootOwner[id])
  /\ \A i : ToChild(id, i) => place[id] = Custody!In("toChild", syncs[i].user)
  /\ \A k : ToRoot(id, k) => place[id] = Custody!In("toRoot", receipts[k].from)

LEMMA PlaceOfStage == TypeOK => \A id \in TokenId : PlaceFitsStage(id)
<1> SUFFICES ASSUME TypeOK, NEW id \in TokenId PROVE PlaceFitsStage(id)
  OBVIOUS
<1>1. Claims(id) = {} => place[id] = [at |-> IF id \in sunk THEN "sunk" ELSE "unborn"]
  BY DEF place
<1>2. ASSUME NEW w, NEW u, NEW i, Claims(id) = {[at |-> w, by |-> u, ref |-> i]}
      PROVE  place[id] = Custody!In(w, u)
  <2> DEFINE x == [at |-> w, by |-> u, ref |-> i]
  <2>1. (CHOOSE y \in Claims(id) : TRUE) = x /\ Claims(id) # {}
    BY <1>2
  <2>2. x.at = w /\ x.by = u
    OBVIOUS
  <2> HIDE DEF x
  <2>3. place[id] = [at |-> x.at, by |-> x.by]
    BY <2>1 DEF place
  <2> QED
    BY <2>2, <2>3 DEF Custody!In
<1>3. Unborn(id) => place[id] = Custody!Unborn
  BY <1>1, ClaimsOfStage DEF Unborn, Custody!Unborn
<1>4. IsSunk(id) => place[id] = Custody!Sunk
  BY <1>1, ClaimsOfStage DEF IsSunk, Custody!Sunk
<1>5. OnChild(id) => place[id] = Custody!In("child", childOwner[id])
  BY <1>2, ClaimsOfStage
<1>6. OnRoot(id) => place[id] = Custody!In("root", rootOwner[id])
  BY <1>2, ClaimsOfStage
<1>7. \A i : ToChild(id, i) => place[id] = Custody!In("toChild", syncs[i].user)
  BY <1>2, ClaimsOfStage
<1>8. \A k : ToRoot(id, k) => place[id] = Custody!In("toRoot", receipts[k].from)
  BY <1>2, ClaimsOfStage
<1> QED
  BY <1>3, <1>4, <1>5, <1>6, <1>7, <1>8 DEF PlaceFitsStage

LEMMA PlaceOfNextStage == TypeOK' => \A id \in TokenId : PlaceFitsStage(id)'
<1>1. (TypeOK => \A id \in TokenId : PlaceFitsStage(id))'
  BY PlaceOfStage, PTL
<1> QED
  BY <1>1

\* Which stage the guard of a step implies.
LEMMA StageByOwner ==
  ASSUME CustodyInv, NEW id \in TokenId
  PROVE  /\ childOwner[id] \in User => OnChild(id)
         /\ rootOwner[id] = NoOne => Unborn(id)
         /\ rootOwner[id] \in User => OnRoot(id)
         /\ \A i \in PendingDeposits(id) : ToChild(id, i)
         /\ \A k \in OpenBurns(id) : ToRoot(id, k)
<1>1. InOneStage(id)
  BY DEF CustodyInv
<1> QED
  BY <1>1, AccountAssumption
     DEF InOneStage, Unborn, OnChild, OnRoot, IsSunk, ToChild, ToRoot, Quiet

-----------------------------------------------------------------------------
\* A token that a step does not touch stays in its stage and in its place.
Untouched(id) ==
  /\ rootOwner'[id] = rootOwner[id]
  /\ childOwner'[id] = childOwner[id]
  /\ id \in sunk' <=> id \in sunk
  /\ PendingDeposits(id)' = PendingDeposits(id)
  /\ OpenBurns(id)' = OpenBurns(id)
  /\ \A i \in PendingDeposits(id) : syncs'[i] = syncs[i]
  /\ \A k \in OpenBurns(id) : receipts'[k] = receipts[k]

LEMMA UntouchedStays ==
  ASSUME NEW id \in TokenId, InOneStage(id), Untouched(id)
  PROVE  InOneStage(id)' /\ place'[id] = place[id]
<1>1. InOneStage(id)'
  BY DEF Untouched, InOneStage, Unborn, OnChild, OnRoot, IsSunk, ToChild, ToRoot, Quiet
<1>2. Claims(id)' = Claims(id)
  BY DEF Untouched, Claims
<1>3. place'[id] = place[id]
  BY <1>2 DEF place, Untouched
<1> QED
  BY <1>1, <1>3

\* Each step moves some tokens to the same place, and touches no other.
LEMMA SomeMove ==
  ASSUME CustodyInv, NEW ids \in SUBSET TokenId, NEW to,
         \A x \in ids : InOneStage(x)' /\ place'[x] = to,
         \A x \in TokenId \ ids : Untouched(x)
  PROVE  /\ \A x \in TokenId : InOneStage(x)'
         /\ place' = [x \in TokenId |-> IF x \in ids THEN to ELSE place[x]]
<1>1. \A x \in TokenId \ ids : InOneStage(x)' /\ place'[x] = place[x]
  BY UntouchedStays DEF CustodyInv
<1>2. place' = [x \in TokenId |-> place'[x]]
  BY DEF place
<1> QED
  BY <1>1, <1>2

LEMMA OneMoves ==
  ASSUME CustodyInv, NEW id \in TokenId, NEW to, InOneStage(id)', place'[id] = to,
         \A x \in TokenId \ {id} : Untouched(x)
  PROVE  /\ \A x \in TokenId : InOneStage(x)'
         /\ place' = [place EXCEPT ![id] = to]
<1>1. /\ \A x \in TokenId : InOneStage(x)'
      /\ place' = [x \in TokenId |-> IF x \in {id} THEN to ELSE place[x]]
  <2>1. \A x \in {id} : InOneStage(x)' /\ place'[x] = to
    OBVIOUS
  <2>2. {id} \in SUBSET TokenId
    OBVIOUS
  <2> QED
    BY <2>1, <2>2, SomeMove
<1>2. place = [x \in TokenId |-> place[x]]
  BY DEF place
<1> QED
  BY <1>1, <1>2

LEMMA NoneMoves ==
  ASSUME CustodyInv, \A x \in TokenId : Untouched(x)
  PROVE  (\A x \in TokenId : InOneStage(x)') /\ place' = place
<1>1. \A x \in TokenId : InOneStage(x)' /\ place'[x] = place[x]
  BY UntouchedStays DEF CustodyInv
<1>2. /\ place = [x \in TokenId |-> place[x]]
      /\ place' = [x \in TokenId |-> place'[x]]
  BY DEF place
<1> QED
  BY <1>1, <1>2

-----------------------------------------------------------------------------
\* What the steps do to the receipts, deposits and burns.
LEMMA ReceiptAppended ==
  ASSUME TypeOK, NEW r \in Receipt, receipts' = Append(receipts, r),
         redeemed' = redeemed, NEW id \in TokenId
  PROVE  /\ OpenBurns(id)' = IF id \in r.ids /\ r.to = NoOne
                             THEN OpenBurns(id) \cup {Len(receipts) + 1} ELSE OpenBurns(id)
         /\ \A k \in OpenBurns(id) : receipts'[k] = receipts[k]
         /\ receipts'[Len(receipts) + 1] = r
         /\ Len(receipts) + 1 \in Nat
<1>1. /\ Len(receipts) \in Nat /\ Len(receipts') = Len(receipts) + 1
      /\ \A k \in 1..Len(receipts) : receipts'[k] = receipts[k]
      /\ receipts'[Len(receipts) + 1] = r
  BY DEF TypeOK
<1>2. \A x : <<Len(receipts) + 1, x>> \notin redeemed
  BY <1>1 DEF TypeOK
<1>3. OpenBurns(id)' = IF id \in r.ids /\ r.to = NoOne
                       THEN OpenBurns(id) \cup {Len(receipts) + 1} ELSE OpenBurns(id)
  BY <1>1, <1>2 DEF OpenBurns
<1>4. \A k \in OpenBurns(id) : receipts'[k] = receipts[k]
  BY <1>1 DEF OpenBurns
<1>5. Len(receipts) + 1 \in Nat
  BY <1>1
<1> QED
  BY <1>1, <1>3, <1>4, <1>5, Zenon

LEMMA SyncAppended ==
  ASSUME TypeOK, NEW d \in Deposit, syncs' = Append(syncs, d),
         delivered' = delivered, NEW id \in TokenId
  PROVE  /\ PendingDeposits(id)' = IF id \in d.ids THEN PendingDeposits(id) \cup {Len(syncs) + 1}
                                                   ELSE PendingDeposits(id)
         /\ \A i \in PendingDeposits(id) : syncs'[i] = syncs[i]
         /\ syncs'[Len(syncs) + 1] = d
         /\ Len(syncs) + 1 \in Nat
<1>1. /\ Len(syncs) \in Nat /\ Len(syncs') = Len(syncs) + 1
      /\ \A i \in 1..Len(syncs) : syncs'[i] = syncs[i]
      /\ syncs'[Len(syncs) + 1] = d
      /\ delivered \in 0..Len(syncs)
  BY DEF TypeOK
<1>2. PendingDeposits(id)' = IF id \in d.ids THEN PendingDeposits(id) \cup {Len(syncs) + 1}
                                             ELSE PendingDeposits(id)
  BY <1>1 DEF PendingDeposits
<1>3. \A i \in PendingDeposits(id) : syncs'[i] = syncs[i]
  BY <1>1 DEF PendingDeposits
<1>4. Len(syncs) + 1 \in Nat
  BY <1>1
<1> QED
  BY <1>1, <1>2, <1>3, <1>4, Zenon

-----------------------------------------------------------------------------
\* Type correctness of each step, and that it keeps the record of the burns.
LEMMA MoveKeeps ==
  ASSUME TypeOK, BurnsRecorded, NEW ids \in SUBSET TokenId,
         NEW from \in User \cup {NoOne}, NEW to \in User \cup {NoOne},
         NEW batch \in BOOLEAN, MoveOnChild(ids, from, to, batch),
         batch => to = NoOne, to = NoOne => from \in User,
         delivered' \in 0..Len(syncs), UNCHANGED <<rootVars, checkpointed>>
  PROVE  TypeOK' /\ BurnsRecorded'
<1> DEFINE r == [from |-> from, to |-> to, ids |-> ids, batch |-> batch]
<1>1. /\ r \in Receipt /\ receipts' = Append(receipts, r)
      /\ r.from = from /\ r.to = to /\ r.batch = batch
  BY DEF MoveOnChild, Receipt
<1> HIDE DEF r
<1>2. /\ receipts' \in Seq(Receipt)
      /\ Len(receipts) \in Nat /\ Len(receipts') = Len(receipts) + 1
      /\ \A k \in 1..Len(receipts) : receipts'[k] = receipts[k]
      /\ receipts'[Len(receipts) + 1] = r
  BY <1>1 DEF TypeOK
<1>3. childOwner' \in [TokenId -> User \cup {NoOne}]
  BY DEF TypeOK, MoveOnChild, Pass
<1>4. /\ processedExits' \subseteq Logs'
      /\ redeemed' \subseteq (1..Len(receipts')) \X TokenId
      /\ checkpointed' \in 0..Len(receipts')
  BY <1>2 DEF TypeOK, Logs, rootVars
<1>5. TypeOK'
  BY <1>2, <1>3, <1>4 DEF TypeOK, rootVars
<1>6. ASSUME NEW l \in redeemed' PROVE receipts'[l[1]].batch \/ l \in processedExits'
  <2>1. l[1] \in 1..Len(receipts) /\ l \in redeemed
    BY <1>6 DEF TypeOK, rootVars
  <2> QED
    BY <1>2, <2>1 DEF BurnsRecorded, rootVars
<1>7. ASSUME NEW k \in 1..Len(receipts')
      PROVE  /\ receipts'[k].batch => receipts'[k].to = NoOne
             /\ receipts'[k].to = NoOne => receipts'[k].from \in User
  <2>1. CASE k \in 1..Len(receipts)
    BY <1>2, <2>1 DEF BurnsRecorded
  <2>2. CASE k = Len(receipts) + 1
    BY <1>1, <1>2, <2>2
  <2> QED
    BY <1>2, <2>1, <2>2
<1> QED
  BY <1>5, <1>6, <1>7 DEF BurnsRecorded

\* An exit releases tokens that the receipt burned, for somebody.
LEMMA ExitReleases ==
  ASSUME TypeOK, BurnsRecorded, NEW k \in 1..Len(receipts), NEW log, ValidLog(k, log)
  PROVE  /\ receipts[k].to = NoOne /\ receipts[k].from \in User
         /\ Released(k, log) \subseteq receipts[k].ids
         /\ Released(k, log) \in SUBSET TokenId
<1>1. receipts[k] \in Receipt
  BY DEF TypeOK
<1> QED
  BY <1>1 DEF ValidLog, Released, BurnsRecorded, Receipt

LEMMA ExitKeeps ==
  ASSUME TypeOK, BurnsRecorded, NEW l \in Logs, Exit(l[1], l[2])
  PROVE  TypeOK' /\ BurnsRecorded'
<1>n. PICK k, log : k = l[1] /\ log = l[2] /\ l = <<k, log>> /\ k \in 1..Len(receipts)
  BY DEF Logs
<1>1. /\ ValidLog(k, log)
      /\ rootOwner' = [id \in TokenId |->
                         IF id \in Released(k, log) THEN receipts[k].from ELSE rootOwner[id]]
      /\ processedExits' = processedExits \cup {l}
      /\ redeemed' = redeemed \cup {<<k, id>> : id \in Released(k, log)}
      /\ UNCHANGED <<syncs, sunk, childVars, delivered, checkpointed>>
  BY <1>n DEF Exit, Pass
<1>2. receipts[k].from \in User /\ Released(k, log) \in SUBSET TokenId
  BY <1>n, <1>1, ExitReleases
<1>3. TypeOK'
  BY <1>n, <1>1, <1>2 DEF TypeOK, Logs, childVars
<1>4. log # Batch => Released(k, log) = {log}
  BY DEF Released
<1>5. log = Batch => receipts[k].batch
  <2>1. receipts[k] \in Receipt
    BY <1>n DEF TypeOK
  <2> QED
    BY <1>1, <2>1, AccountAssumption DEF ValidLog, Receipt
<1>6. ASSUME NEW m \in redeemed' PROVE receipts'[m[1]].batch \/ m \in processedExits'
  <2>1. CASE m \in redeemed
    BY <1>1, <2>1 DEF BurnsRecorded, childVars
  <2>2. ASSUME NEW id \in Released(k, log), m = <<k, id>>
        PROVE  receipts[k].batch \/ m \in processedExits'
    BY <1>n, <1>1, <1>4, <1>5, <2>2
  <2> QED
    BY <1>1, <2>1, <2>2 DEF childVars
<1> QED
  BY <1>1, <1>3, <1>6 DEF BurnsRecorded, childVars

LEMMA NextKeeps ==
  TypeOK /\ BurnsRecorded /\ [NextOneWay]_vars => TypeOK' /\ BurnsRecorded'
<1> SUFFICES ASSUME TypeOK, BurnsRecorded, [NextOneWay]_vars PROVE TypeOK' /\ BurnsRecorded'
  OBVIOUS
<1>1. ASSUME NEW u \in User, NEW v \in User, NEW id \in TokenId, ChildTransfer(u, v, id)
      PROVE  TypeOK' /\ BurnsRecorded'
  <2>1. /\ MoveOnChild({id}, u, v, FALSE) /\ {id} \in SUBSET TokenId
        /\ v # NoOne /\ delivered' \in 0..Len(syncs)
        /\ UNCHANGED <<rootVars, checkpointed>>
    BY <1>1, AccountAssumption DEF ChildTransfer, TypeOK
  <2> QED
    BY <2>1, MoveKeeps
<1>2. ASSUME NEW u \in User, NEW id \in TokenId, Withdraw(u, id)
      PROVE  TypeOK' /\ BurnsRecorded'
  <2>1. /\ MoveOnChild({id}, u, NoOne, FALSE) /\ {id} \in SUBSET TokenId
        /\ delivered' \in 0..Len(syncs)
        /\ UNCHANGED <<rootVars, checkpointed>>
    BY <1>2 DEF Withdraw, TypeOK
  <2> QED
    BY <2>1, MoveKeeps
<1>3. ASSUME NEW u \in User, NEW ids \in Batches, WithdrawBatch(u, ids)
      PROVE  TypeOK' /\ BurnsRecorded'
  <2>1. /\ MoveOnChild(ids, u, NoOne, TRUE) /\ ids \in SUBSET TokenId
        /\ delivered' \in 0..Len(syncs)
        /\ UNCHANGED <<rootVars, checkpointed>>
    BY <1>3 DEF WithdrawBatch, Batches, TypeOK
  <2> QED
    BY <2>1, MoveKeeps
<1>4. ASSUME Deliver PROVE TypeOK' /\ BurnsRecorded'
  <2> DEFINE d == syncs[delivered + 1]
  <2>1. d \in Deposit /\ delivered' \in 0..Len(syncs) /\ UNCHANGED <<rootVars, checkpointed>>
    BY <1>4 DEF Deliver, TypeOK
  <2>2. d.ids \in SUBSET TokenId /\ d.user \in User /\ d.user # NoOne
    BY <2>1, AccountAssumption DEF Deposit
  <2>3. CASE MoveOnChild(d.ids, NoOne, d.user, FALSE)
    <3>1. PICK ids, u : ids = d.ids /\ u = d.user
      OBVIOUS
    <3>2. /\ ids \in SUBSET TokenId /\ u \in User \cup {NoOne} /\ NoOne \in User \cup {NoOne}
          /\ u # NoOne /\ FALSE \in BOOLEAN
      BY <2>2, <3>1
    <3>3. MoveOnChild(ids, NoOne, u, FALSE)
      BY <2>3, <3>1 DEF MoveOnChild, Pass
    <3> QED
      BY <2>1, <3>2, <3>3, MoveKeeps
  <2>4. CASE UNCHANGED childVars
    BY <2>1, <2>4 DEF TypeOK, BurnsRecorded, Logs, rootVars, childVars
  <2> QED
    BY <1>4, <2>3, <2>4 DEF Deliver
<1>5. ASSUME SubmitCheckpoint PROVE TypeOK' /\ BurnsRecorded'
  BY <1>5 DEF SubmitCheckpoint, TypeOK, BurnsRecorded, Logs, rootVars, childVars
<1>6. ASSUME NEW u \in User, NEW id \in TokenId, RootMint(u, id)
      PROVE  TypeOK' /\ BurnsRecorded'
  BY <1>6 DEF RootMint, Pass, TypeOK, BurnsRecorded, Logs, childVars
<1>7. ASSUME NEW u \in User, NEW v \in User \cup {Predicate}, NEW id \in TokenId,
             RootTransfer(u, v, id)
      PROVE  TypeOK' /\ BurnsRecorded'
  BY <1>7 DEF RootTransfer, Pass, TypeOK, BurnsRecorded, Logs, childVars
<1>8. ASSUME NEW u \in User, NEW v \in User, NEW ids \in Batches, DepositFor(u, v, ids)
      PROVE  TypeOK' /\ BurnsRecorded'
  <2>1. [user |-> v, ids |-> ids] \in Deposit
    BY DEF Batches, Deposit
  <2>2. syncs' \in Seq(Deposit) /\ delivered' \in 0..Len(syncs')
    BY <1>8, <2>1 DEF DepositFor, TypeOK
  <2> QED
    BY <1>8, <2>2 DEF DepositFor, Pass, TypeOK, BurnsRecorded, Logs, childVars
<1>9. ASSUME NEW l \in Logs, ExitOneWay(l[1], l[2]) PROVE TypeOK' /\ BurnsRecorded'
  BY <1>9, ExitKeeps DEF ExitOneWay
<1>10. CASE UNCHANGED vars
  BY <1>10 DEF vars, rootVars, childVars, TypeOK, BurnsRecorded, Logs
<1> QED
  BY <1>1, <1>2, <1>3, <1>4, <1>5, <1>6, <1>7, <1>8, <1>9, <1>10 DEF NextOneWay, Move

-----------------------------------------------------------------------------
\* The steps on the child chain.

\* A transaction of the child token touches the tokens it moves, and no other.
LEMMA MoveTouches ==
  ASSUME CustodyInv, NEW ids \in SUBSET TokenId, NEW from \in User \cup {NoOne},
         NEW to \in User \cup {NoOne}, NEW batch \in BOOLEAN,
         MoveOnChild(ids, from, to, batch), UNCHANGED rootVars,
         \A x \in TokenId \ ids : PendingDeposits(x)' = PendingDeposits(x)
  PROVE  /\ \A x \in TokenId \ ids : Untouched(x)
         /\ \A x \in ids : /\ childOwner'[x] = to
                           /\ to # NoOne => OpenBurns(x)' = OpenBurns(x)
                           /\ to = NoOne => OpenBurns(x)' = OpenBurns(x) \cup {Len(receipts) + 1}
         /\ receipts'[Len(receipts) + 1].from = from
         /\ Len(receipts) + 1 \in Nat
<1> DEFINE r == [from |-> from, to |-> to, ids |-> ids, batch |-> batch]
<1>1. /\ r \in Receipt /\ receipts' = Append(receipts, r)
      /\ r.from = from /\ r.to = to /\ r.ids = ids
      /\ childOwner' = [x \in TokenId |-> IF x \in ids THEN to ELSE childOwner[x]]
  BY DEF MoveOnChild, Pass, Receipt
<1> HIDE DEF r
<1>2. TypeOK /\ redeemed' = redeemed /\ UNCHANGED <<rootOwner, sunk, syncs>>
  BY DEF CustodyInv, rootVars
<1>3. ASSUME NEW x \in TokenId
      PROVE  /\ OpenBurns(x)' = IF x \in ids /\ to = NoOne
                                THEN OpenBurns(x) \cup {Len(receipts) + 1} ELSE OpenBurns(x)
             /\ \A k \in OpenBurns(x) : receipts'[k] = receipts[k]
             /\ receipts'[Len(receipts) + 1] = r
             /\ Len(receipts) + 1 \in Nat
  BY <1>1, <1>2, ReceiptAppended
<1>4. ASSUME NEW x \in TokenId \ ids PROVE Untouched(x)
  BY <1>1, <1>2, <1>3 DEF Untouched
<1>5. Len(receipts) + 1 \in Nat /\ receipts'[Len(receipts) + 1] = r
  BY <1>1, <1>2 DEF TypeOK
<1> QED
  BY <1>1, <1>3, <1>4, <1>5

LEMMA ChildTransferStep ==
  ASSUME CustodyInv, TypeOK', NEW u \in User, NEW v \in User, NEW id \in TokenId,
         ChildTransfer(u, v, id)
  PROVE  (\A x \in TokenId : InOneStage(x)') /\ Custody!Give("child")
<1>1. MoveOnChild({id}, u, v, FALSE) /\ UNCHANGED <<rootVars, delivered>>
  BY DEF ChildTransfer
<1>2. childOwner[id] = u /\ OnChild(id)
  BY <1>1, StageByOwner DEF MoveOnChild, Pass
<1>3. \A x \in TokenId : PendingDeposits(x)' = PendingDeposits(x)
  BY <1>1 DEF PendingDeposits, rootVars
<1>4. /\ \A x \in TokenId \ {id} : Untouched(x)
      /\ childOwner'[id] = v /\ OpenBurns(id)' = OpenBurns(id)
  <2>1. {id} \in SUBSET TokenId /\ v # NoOne /\ FALSE \in BOOLEAN
    BY AccountAssumption
  <2>2. v \in User \cup {NoOne} /\ u \in User \cup {NoOne}
    OBVIOUS
  <2>3. \A x \in TokenId \ {id} : PendingDeposits(x)' = PendingDeposits(x)
    BY <1>3
  <2>4. UNCHANGED rootVars /\ id \in {id}
    BY <1>1
  <2> QED
    BY <1>1, <2>1, <2>2, <2>3, <2>4, MoveTouches
<1>5. OnChild(id)'
  BY <1>1, <1>2, <1>3, <1>4 DEF OnChild, Quiet, rootVars
<1>6. place[id] = Custody!In("child", u) /\ place'[id] = Custody!In("child", v)
  BY <1>2, <1>4, <1>5, PlaceOfStage, PlaceOfNextStage DEF PlaceFitsStage, CustodyInv
<1>7. /\ \A x \in TokenId : InOneStage(x)'
      /\ place' = [place EXCEPT ![id] = Custody!In("child", v)]
  BY <1>4, <1>5, <1>6, OneMoves DEF InOneStage
<1> QED
  BY <1>6, <1>7 DEF Custody!Give

\* Burning a token or a batch of them.
LEMMA BurnStep ==
  ASSUME CustodyInv, TypeOK', NEW u \in User, NEW ids \in SUBSET TokenId,
         MoveOnChild(ids, u, NoOne, TRUE) \/ MoveOnChild(ids, u, NoOne, FALSE),
         UNCHANGED <<rootVars, delivered>>
  PROVE  (\A x \in TokenId : InOneStage(x)') /\ Custody!Withdraw
<1>n. PICK n : n = Len(receipts) + 1
  OBVIOUS
<1>1. \A x \in ids : childOwner[x] = u /\ OnChild(x)
  BY StageByOwner DEF MoveOnChild, Pass
<1>2. \A x \in TokenId : PendingDeposits(x)' = PendingDeposits(x)
  BY DEF PendingDeposits, rootVars
<1>3. /\ \A x \in TokenId \ ids : Untouched(x)
      /\ \A x \in ids : childOwner'[x] = NoOne /\ OpenBurns(x)' = OpenBurns(x) \cup {n}
      /\ receipts'[n].from = u /\ n \in Nat
  <2>1. NoOne \in User \cup {NoOne} /\ u \in User \cup {NoOne} /\ UNCHANGED rootVars
        /\ TRUE \in BOOLEAN /\ FALSE \in BOOLEAN
    OBVIOUS
  <2>2. \A x \in TokenId \ ids : PendingDeposits(x)' = PendingDeposits(x)
    BY <1>2
  <2>3. /\ \A x \in TokenId \ ids : Untouched(x)
        /\ \A x \in ids : /\ childOwner'[x] = NoOne
                          /\ OpenBurns(x)' = OpenBurns(x) \cup {Len(receipts) + 1}
        /\ receipts'[Len(receipts) + 1].from = u /\ Len(receipts) + 1 \in Nat
    BY <2>1, <2>2, MoveTouches
  <2> QED
    BY <1>n, <2>3
<1>4. ASSUME NEW x \in ids
      PROVE  InOneStage(x)' /\ place'[x] = Custody!In("toRoot", u)
  <2>1. ToRoot(x, n)'
    BY <1>1, <1>2, <1>3 DEF OnChild, ToRoot, Quiet, rootVars
  <2>2. place'[x] = Custody!In("toRoot", receipts'[n].from)
    BY <2>1, PlaceOfNextStage DEF PlaceFitsStage
  <2>3. InOneStage(x)'
    BY <1>3, <2>1 DEF InOneStage
  <2> QED
    BY <1>3, <2>2, <2>3
<1>5. /\ \A x \in TokenId : InOneStage(x)'
      /\ place' = [x \in TokenId |-> IF x \in ids THEN Custody!In("toRoot", u) ELSE place[x]]
  BY <1>3, <1>4, SomeMove
<1>6. \A x \in ids : place[x] = Custody!In("child", u)
  BY <1>1, PlaceOfStage DEF PlaceFitsStage, CustodyInv
<1> QED
  BY <1>5, <1>6 DEF Custody!Withdraw

\* The next deposit to be delivered finds none of its tokens in its way.
LEMMA DeliverMints ==
  ASSUME CustodyInv, Deliver
  PROVE  LET d == syncs[delivered + 1]
         IN  /\ d \in Deposit
             /\ \A x \in d.ids : ToChild(x, delivered + 1)
             /\ MoveOnChild(d.ids, NoOne, d.user, FALSE)
<1> DEFINE d == syncs[delivered + 1]
<1>1. d \in Deposit /\ delivered + 1 \in (delivered + 1)..Len(syncs)
  BY DEF CustodyInv, TypeOK, Deliver
<1>2. \A x \in d.ids : x \in TokenId /\ delivered + 1 \in PendingDeposits(x)
  BY <1>1 DEF Deposit, PendingDeposits
<1>3. \A x \in d.ids : ToChild(x, delivered + 1)
  BY <1>2, StageByOwner
<1>4. \A x \in d.ids : childOwner[x] = NoOne
  BY <1>3 DEF ToChild
<1> QED
  BY <1>1, <1>3, <1>4 DEF Deliver

LEMMA DeliverStep ==
  ASSUME CustodyInv, TypeOK', Deliver
  PROVE  (\A x \in TokenId : InOneStage(x)') /\ Custody!Arrive("toChild", "child")
<1>n. PICK n, d, ids, u : n = delivered + 1 /\ d = syncs[n] /\ ids = d.ids /\ u = d.user
  OBVIOUS
<1>1. d \in Deposit /\ \A x \in ids : ToChild(x, n)
  BY <1>n, DeliverMints
<1>2. ids \in SUBSET TokenId /\ u \in User /\ u # NoOne
  BY <1>n, <1>1, AccountAssumption DEF Deposit
<1>3. MoveOnChild(ids, NoOne, u, FALSE)
  BY <1>n, DeliverMints DEF MoveOnChild, Pass
<1>4. \A x \in TokenId :
         PendingDeposits(x)' = IF x \in ids THEN PendingDeposits(x) \ {n} ELSE PendingDeposits(x)
  <2>1. delivered \in Nat /\ Len(syncs) \in Nat /\ delivered' = n /\ syncs' = syncs
    BY <1>n DEF Deliver, rootVars, CustodyInv, TypeOK
  <2> QED
    BY <1>n, <2>1 DEF PendingDeposits
<1>5. UNCHANGED rootVars
  BY DEF Deliver
<1>6. /\ \A x \in TokenId \ ids : Untouched(x)
      /\ \A x \in ids : childOwner'[x] = u /\ OpenBurns(x)' = OpenBurns(x)
  <2>1. \A x \in TokenId \ ids : PendingDeposits(x)' = PendingDeposits(x)
    BY <1>4
  <2>2. u \in User \cup {NoOne} /\ NoOne \in User \cup {NoOne} /\ FALSE \in BOOLEAN
    BY <1>2
  <2> QED
    BY <1>2, <1>3, <1>5, <2>1, <2>2, MoveTouches
<1>7. ASSUME NEW x \in ids
      PROVE  /\ InOneStage(x)' /\ place'[x] = Custody!In("child", u)
             /\ place[x] = Custody!In("toChild", u)
  <2>1. OnChild(x)'
    BY <1>1, <1>2, <1>4, <1>5, <1>6 DEF ToChild, OnChild, Quiet, rootVars
  <2>2. place'[x] = Custody!In("child", u)
    BY <1>2, <1>6, <2>1, PlaceOfNextStage DEF PlaceFitsStage
  <2>3. place[x] = Custody!In("toChild", u)
    BY <1>n, <1>1, <1>2, PlaceOfStage DEF PlaceFitsStage, CustodyInv
  <2> QED
    BY <2>1, <2>2, <2>3 DEF InOneStage
<1>8. /\ \A x \in TokenId : InOneStage(x)'
      /\ place' = [x \in TokenId |-> IF x \in ids THEN Custody!In("child", u) ELSE place[x]]
  BY <1>2, <1>6, <1>7, SomeMove
<1> QED
  BY <1>2, <1>7, <1>8 DEF Custody!Arrive

LEMMA CheckpointStep ==
  ASSUME CustodyInv, SubmitCheckpoint
  PROVE  (\A x \in TokenId : InOneStage(x)') /\ place' = place
<1>1. UNCHANGED <<rootVars, childVars, delivered>>
  BY DEF SubmitCheckpoint
<1>2. \A x \in TokenId : Untouched(x)
  BY <1>1 DEF rootVars, childVars, Untouched, PendingDeposits, OpenBurns
<1> QED
  BY <1>2, NoneMoves

-----------------------------------------------------------------------------
\* The steps on the root chain.

\* What a step that changes the owner of some root tokens leaves alone.
LEMMA RootMoveTouches ==
  ASSUME CustodyInv, NEW ids \in SUBSET TokenId, NEW o,
         rootOwner' = [x \in TokenId |-> IF x \in ids THEN o ELSE rootOwner[x]],
         UNCHANGED childVars,
         \A x \in TokenId \ ids :
            /\ x \in sunk' <=> x \in sunk
            /\ PendingDeposits(x)' = PendingDeposits(x)
            /\ OpenBurns(x)' = OpenBurns(x)
            /\ \A i \in PendingDeposits(x) : syncs'[i] = syncs[i]
  PROVE  \A x \in TokenId \ ids : Untouched(x)
BY DEF Untouched, childVars

LEMMA RootMintStep ==
  ASSUME CustodyInv, TypeOK', NEW u \in User, NEW id \in TokenId, RootMint(u, id)
  PROVE  (\A x \in TokenId : InOneStage(x)') /\ Custody!Mint("root")
<1>1. /\ rootOwner[id] = NoOne
      /\ rootOwner' = [x \in TokenId |-> IF x \in {id} THEN u ELSE rootOwner[x]]
      /\ UNCHANGED <<processedExits, syncs, redeemed, sunk, childVars, delivered>>
  BY DEF RootMint, Pass
<1>2. Unborn(id)
  BY <1>1, StageByOwner
<1>3. \A x \in TokenId : /\ PendingDeposits(x)' = PendingDeposits(x)
                         /\ OpenBurns(x)' = OpenBurns(x)
  BY <1>1 DEF PendingDeposits, OpenBurns, childVars
<1>4. \A x \in TokenId \ {id} : Untouched(x)
  <2>1. {id} \in SUBSET TokenId
    OBVIOUS
  <2> QED
    BY <1>1, <1>3, <2>1, RootMoveTouches
<1>5. rootOwner'[id] = u
  BY <1>1
<1>6. OnRoot(id)'
  BY <1>1, <1>2, <1>3, <1>5 DEF Unborn, OnRoot, Quiet, childVars
<1>7. place[id] = Custody!Unborn /\ place'[id] = Custody!In("root", u)
  BY <1>2, <1>5, <1>6, PlaceOfStage, PlaceOfNextStage DEF PlaceFitsStage, CustodyInv
<1>8. /\ \A x \in TokenId : InOneStage(x)'
      /\ place' = [place EXCEPT ![id] = Custody!In("root", u)]
  BY <1>4, <1>6, <1>7, OneMoves DEF InOneStage
<1> QED
  BY <1>7, <1>8 DEF Custody!Mint

LEMMA RootTransferStep ==
  ASSUME CustodyInv, TypeOK', NEW u \in User, NEW v \in User \cup {Predicate},
         NEW id \in TokenId, RootTransfer(u, v, id)
  PROVE  (\A x \in TokenId : InOneStage(x)') /\ (Custody!Give("root") \/ Custody!Sink)
<1>1. /\ rootOwner[id] = u
      /\ rootOwner' = [x \in TokenId |-> IF x \in {id} THEN v ELSE rootOwner[x]]
      /\ sunk' = IF v = Predicate THEN sunk \cup {id} ELSE sunk
      /\ UNCHANGED <<processedExits, syncs, redeemed, childVars, delivered>>
  BY DEF RootTransfer, Pass
<1>2. OnRoot(id)
  BY <1>1, StageByOwner
<1>3. \A x \in TokenId : /\ PendingDeposits(x)' = PendingDeposits(x)
                         /\ OpenBurns(x)' = OpenBurns(x)
  BY <1>1 DEF PendingDeposits, OpenBurns, childVars
<1>4. \A x \in TokenId \ {id} : Untouched(x)
  <2>1. {id} \in SUBSET TokenId /\ \A x \in TokenId \ {id} : x \in sunk' <=> x \in sunk
    BY <1>1
  <2> QED
    BY <1>1, <1>3, <2>1, RootMoveTouches
<1>5. rootOwner'[id] = v
  BY <1>1
<1>6. place[id] = Custody!In("root", u)
  BY <1>1, <1>2, PlaceOfStage DEF PlaceFitsStage, CustodyInv
<1>7. CASE v \in User
  <2>1. OnRoot(id)'
    BY <1>1, <1>2, <1>3, <1>5, <1>7, AccountAssumption DEF OnRoot, Quiet, childVars
  <2>2. place'[id] = Custody!In("root", v)
    BY <1>5, <2>1, PlaceOfNextStage DEF PlaceFitsStage
  <2>3. /\ \A x \in TokenId : InOneStage(x)'
        /\ place' = [place EXCEPT ![id] = Custody!In("root", v)]
    BY <1>4, <2>1, <2>2, OneMoves DEF InOneStage
  <2> QED
    BY <1>6, <1>7, <2>3 DEF Custody!Give
<1>8. CASE v = Predicate
  <2>1. IsSunk(id)'
    BY <1>1, <1>2, <1>3, <1>5, <1>8 DEF OnRoot, IsSunk, Quiet, childVars
  <2>2. place'[id] = Custody!Sunk
    BY <2>1, PlaceOfNextStage DEF PlaceFitsStage
  <2>3. /\ \A x \in TokenId : InOneStage(x)'
        /\ place' = [place EXCEPT ![id] = Custody!Sunk]
    BY <1>4, <2>1, <2>2, OneMoves DEF InOneStage
  <2> QED
    BY <1>6, <2>3 DEF Custody!Sink
<1> QED
  BY <1>7, <1>8

LEMMA DepositStep ==
  ASSUME CustodyInv, TypeOK', NEW u \in User, NEW v \in User, NEW ids \in SUBSET TokenId,
         DepositFor(u, v, ids)
  PROVE  (\A x \in TokenId : InOneStage(x)') /\ Custody!Deposit
<1>n. PICK n, d : n = Len(syncs) + 1 /\ d = [user |-> v, ids |-> ids]
  OBVIOUS
<1>1. /\ \A x \in ids : rootOwner[x] = u
      /\ rootOwner' = [x \in TokenId |-> IF x \in ids THEN Predicate ELSE rootOwner[x]]
      /\ syncs' = Append(syncs, d)
      /\ UNCHANGED <<processedExits, redeemed, sunk, childVars, delivered>>
  BY <1>n DEF DepositFor, Pass
<1>2. \A x \in ids : OnRoot(x)
  BY <1>1, StageByOwner
<1>3. d \in Deposit /\ d.ids = ids /\ d.user = v
  BY <1>n DEF Deposit
<1>4. \A x \in TokenId : OpenBurns(x)' = OpenBurns(x)
  BY <1>1 DEF OpenBurns, childVars
<1>5. ASSUME NEW x \in TokenId
      PROVE  /\ PendingDeposits(x)' = IF x \in ids THEN PendingDeposits(x) \cup {n}
                                                   ELSE PendingDeposits(x)
             /\ \A i \in PendingDeposits(x) : syncs'[i] = syncs[i]
             /\ syncs'[n] = d /\ n \in Nat
  BY <1>n, <1>1, <1>3, SyncAppended DEF CustodyInv
<1>6. \A x \in TokenId \ ids : Untouched(x)
  <2>1. \A x \in TokenId \ ids : /\ x \in sunk' <=> x \in sunk
                                 /\ PendingDeposits(x)' = PendingDeposits(x)
                                 /\ OpenBurns(x)' = OpenBurns(x)
                                 /\ \A i \in PendingDeposits(x) : syncs'[i] = syncs[i]
    BY <1>1, <1>4, <1>5
  <2> QED
    BY <1>1, <2>1, RootMoveTouches
<1>7. ASSUME NEW x \in ids
      PROVE  /\ InOneStage(x)' /\ place'[x] = Custody!In("toChild", v)
             /\ place[x] = Custody!In("root", u)
  <2>1. ToChild(x, n)'
    BY <1>1, <1>2, <1>4, <1>5 DEF OnRoot, ToChild, Quiet, childVars
  <2>2. place'[x] = Custody!In("toChild", v)
    <3>1. place'[x] = Custody!In("toChild", syncs'[n].user)
      BY <2>1, PlaceOfNextStage DEF PlaceFitsStage
    <3> QED
      BY <1>3, <1>5, <3>1
  <2>3. place[x] = Custody!In("root", u)
    BY <1>1, <1>2, PlaceOfStage DEF PlaceFitsStage, CustodyInv
  <2> QED
    BY <1>5, <2>1, <2>2, <2>3 DEF InOneStage
<1>8. /\ \A x \in TokenId : InOneStage(x)'
      /\ place' = [x \in TokenId |-> IF x \in ids THEN Custody!In("toChild", v) ELSE place[x]]
  BY <1>6, <1>7, SomeMove
<1> QED
  BY <1>7, <1>8 DEF Custody!Deposit

\* An exit releases no token that its burn released before: a batch, because its
\* users exit it in one way; another burn, because its log was not processed.
LEMMA ExitIsFirst ==
  ASSUME CustodyInv, NEW l \in Logs, ExitOneWay(l[1], l[2])
  PROVE  \A id \in Released(l[1], l[2]) : <<l[1], id>> \notin redeemed
<1>n. PICK k, log : k = l[1] /\ log = l[2] /\ l = <<k, log>> /\ k \in 1..Len(receipts)
  BY DEF Logs
<1>1. /\ ValidLog(k, log) /\ <<k, log>> \notin processedExits
      /\ receipts[k].batch => \A id \in Released(k, log) : <<k, id>> \notin redeemed
  BY <1>n DEF ExitOneWay, Exit
<1>2. CASE receipts[k].batch
  BY <1>n, <1>1, <1>2
<1>3. CASE ~receipts[k].batch
  <2>1. Released(k, log) = {log}
    <3>1. receipts[k] \in Receipt
      BY <1>n DEF CustodyInv, TypeOK
    <3> QED
      BY <1>1, <1>3, <3>1, AccountAssumption DEF ValidLog, Released, Receipt
  <2>2. <<k, log>> \notin redeemed
    BY <1>1, <1>3 DEF CustodyInv, BurnsRecorded
  <2> QED
    BY <1>n, <2>1, <2>2
<1> QED
  BY <1>2, <1>3

LEMMA ExitStep ==
  ASSUME CustodyInv, TypeOK', NEW l \in Logs, ExitOneWay(l[1], l[2])
  PROVE  (\A x \in TokenId : InOneStage(x)') /\ Custody!Arrive("toRoot", "root")
<1>n. PICK k, log, ids, u : /\ k = l[1] /\ log = l[2] /\ k \in 1..Len(receipts)
                            /\ ids = Released(k, log) /\ u = receipts[k].from
  BY DEF Logs
<1>1. /\ ValidLog(k, log)
      /\ rootOwner' = [x \in TokenId |-> IF x \in ids THEN u ELSE rootOwner[x]]
      /\ redeemed' = redeemed \cup {<<k, x>> : x \in ids}
      /\ UNCHANGED <<syncs, sunk, childVars, delivered>>
  BY <1>n DEF ExitOneWay, Exit, Pass
<1>2. /\ ids \in SUBSET TokenId /\ ids \subseteq receipts[k].ids
      /\ receipts[k].to = NoOne /\ u \in User
  BY <1>n, <1>1, ExitReleases DEF CustodyInv
<1>3. \A x \in ids : ToRoot(x, k)
  <2>1. \A x \in ids : <<k, x>> \notin redeemed
    BY <1>n, ExitIsFirst
  <2>2. \A x \in ids : k \in OpenBurns(x)
    BY <1>n, <1>2, <2>1 DEF OpenBurns
  <2> QED
    BY <1>2, <2>2, StageByOwner
<1>4. \A x \in TokenId :
         /\ PendingDeposits(x)' = PendingDeposits(x)
         /\ OpenBurns(x)' = IF x \in ids THEN OpenBurns(x) \ {k} ELSE OpenBurns(x)
  BY <1>1 DEF PendingDeposits, OpenBurns, childVars
<1>5. \A x \in TokenId \ ids : Untouched(x)
  <2>1. \A x \in TokenId \ ids : /\ x \in sunk' <=> x \in sunk
                                 /\ PendingDeposits(x)' = PendingDeposits(x)
                                 /\ OpenBurns(x)' = OpenBurns(x)
                                 /\ \A i \in PendingDeposits(x) : syncs'[i] = syncs[i]
    BY <1>1, <1>4
  <2>2. UNCHANGED childVars
    BY <1>1
  <2> QED
    BY <1>1, <1>2, <2>1, <2>2, RootMoveTouches
<1>6. ASSUME NEW x \in ids
      PROVE  /\ InOneStage(x)' /\ place'[x] = Custody!In("root", u)
             /\ place[x] = Custody!In("toRoot", u)
  <2>1. OnRoot(x)'
    BY <1>1, <1>2, <1>3, <1>4 DEF ToRoot, OnRoot, Quiet, childVars
  <2>2. place'[x] = Custody!In("root", u)
    BY <1>1, <1>2, <2>1, PlaceOfNextStage DEF PlaceFitsStage
  <2>3. place[x] = Custody!In("toRoot", u)
    BY <1>n, <1>2, <1>3, PlaceOfStage DEF PlaceFitsStage, CustodyInv
  <2> QED
    BY <2>1, <2>2, <2>3 DEF InOneStage
<1>7. /\ \A x \in TokenId : InOneStage(x)'
      /\ place' = [x \in TokenId |-> IF x \in ids THEN Custody!In("root", u) ELSE place[x]]
  BY <1>2, <1>5, <1>6, SomeMove
<1> QED
  BY <1>2, <1>6, <1>7 DEF Custody!Arrive

-----------------------------------------------------------------------------
LEMMA CustodyInit == Init => CustodyInv /\ Custody!Init
<1> SUFFICES ASSUME Init PROVE CustodyInv /\ Custody!Init
  OBVIOUS
<1>1. Len(syncs) = 0 /\ Len(receipts) = 0 /\ delivered = 0
  BY DEF Init
<1>2. TypeOK /\ BurnsRecorded
  BY <1>1 DEF Init, TypeOK, Logs, BurnsRecorded
<1>3. \A id \in TokenId : Unborn(id)
  <2>1. \A id \in TokenId : PendingDeposits(id) = {} /\ OpenBurns(id) = {}
    BY <1>1 DEF PendingDeposits, OpenBurns
  <2> QED
    BY <2>1 DEF Init, Unborn, Quiet
<1>4. \A id \in TokenId : place[id] = Custody!Unborn
  BY <1>2, <1>3, PlaceOfStage DEF PlaceFitsStage
<1>5. place \in [TokenId -> {Custody!Unborn}]
  BY <1>4 DEF place
<1> QED
  BY <1>2, <1>3, <1>5 DEF CustodyInv, InOneStage, Custody!Init

LEMMA CustodyNext ==
  CustodyInv /\ [NextOneWay]_vars => CustodyInv' /\ [Custody!Next]_place
<1> SUFFICES ASSUME CustodyInv, [NextOneWay]_vars
             PROVE  CustodyInv' /\ [Custody!Next]_place
  OBVIOUS
<1>1. TypeOK' /\ BurnsRecorded'
  BY NextKeeps DEF CustodyInv
<1> SUFFICES (\A x \in TokenId : InOneStage(x)') /\ [Custody!Next]_place
  BY <1>1 DEF CustodyInv
<1>2. ASSUME NEW u \in User, NEW v \in User, NEW id \in TokenId, ChildTransfer(u, v, id)
      PROVE  (\A x \in TokenId : InOneStage(x)') /\ [Custody!Next]_place
  BY <1>1, <1>2, ChildTransferStep DEF Custody!Next
<1>3. ASSUME NEW u \in User, NEW id \in TokenId, Withdraw(u, id)
      PROVE  (\A x \in TokenId : InOneStage(x)') /\ [Custody!Next]_place
  <2>1. {id} \in SUBSET TokenId /\ MoveOnChild({id}, u, NoOne, FALSE)
        /\ UNCHANGED <<rootVars, delivered>>
    BY <1>3 DEF Withdraw
  <2> QED
    BY <1>1, <2>1, BurnStep DEF Custody!Next
<1>4. ASSUME NEW u \in User, NEW ids \in Batches, WithdrawBatch(u, ids)
      PROVE  (\A x \in TokenId : InOneStage(x)') /\ [Custody!Next]_place
  <2>1. ids \in SUBSET TokenId /\ MoveOnChild(ids, u, NoOne, TRUE)
        /\ UNCHANGED <<rootVars, delivered>>
    BY <1>4 DEF WithdrawBatch, Batches
  <2> QED
    BY <1>1, <2>1, BurnStep DEF Custody!Next
<1>5. ASSUME Deliver PROVE (\A x \in TokenId : InOneStage(x)') /\ [Custody!Next]_place
  BY <1>1, <1>5, DeliverStep DEF Custody!Next
<1>6. ASSUME SubmitCheckpoint
      PROVE  (\A x \in TokenId : InOneStage(x)') /\ [Custody!Next]_place
  BY <1>6, CheckpointStep
<1>7. ASSUME NEW u \in User, NEW id \in TokenId, RootMint(u, id)
      PROVE  (\A x \in TokenId : InOneStage(x)') /\ [Custody!Next]_place
  BY <1>1, <1>7, RootMintStep DEF Custody!Next
<1>8. ASSUME NEW u \in User, NEW v \in User \cup {Predicate}, NEW id \in TokenId,
             RootTransfer(u, v, id)
      PROVE  (\A x \in TokenId : InOneStage(x)') /\ [Custody!Next]_place
  BY <1>1, <1>8, RootTransferStep DEF Custody!Next
<1>9. ASSUME NEW u \in User, NEW v \in User, NEW ids \in Batches, DepositFor(u, v, ids)
      PROVE  (\A x \in TokenId : InOneStage(x)') /\ [Custody!Next]_place
  <2>1. ids \in SUBSET TokenId
    BY DEF Batches
  <2> QED
    BY <1>1, <1>9, <2>1, DepositStep DEF Custody!Next
<1>10. ASSUME NEW l \in Logs, ExitOneWay(l[1], l[2])
       PROVE  (\A x \in TokenId : InOneStage(x)') /\ [Custody!Next]_place
  BY <1>1, <1>10, ExitStep DEF Custody!Next
<1>11. CASE UNCHANGED vars
  <2>1. \A x \in TokenId : Untouched(x)
    BY <1>11 DEF vars, rootVars, childVars, Untouched, PendingDeposits, OpenBurns
  <2> QED
    BY <2>1, NoneMoves
<1> QED
  BY <1>2, <1>3, <1>4, <1>5, <1>6, <1>7, <1>8, <1>9, <1>10, <1>11 DEF NextOneWay, Move

\* Each token is in one of the stages, and the exits know of every burn.
THEOREM CustodyInvariant == SpecOneWay => []CustodyInv
<1> QED
  BY CustodyInit, CustodyNext, PTL DEF SpecOneWay

\* Type correctness.
THEOREM ERC721TypeOK == SpecOneWay => []TypeOK
<1>1. CustodyInv => TypeOK
  BY DEF CustodyInv
<1> QED
  BY <1>1, CustodyInvariant, PTL

LEMMA StageMeansOneClaim == CustodyInv => OneClaimEach
<1> SUFFICES ASSUME CustodyInv, NEW id \in TokenId
             PROVE  /\ \A x, y \in Claims(id) : x = y
                    /\ rootOwner[id] = Predicate /\ id \notin sunk => Claims(id) # {}
  BY DEF OneClaimEach, AtMostOneClaim, LockedIsClaimed
<1>1. InOneStage(id) /\ TypeOK
  BY DEF CustodyInv
<1>2. CASE Unborn(id)
  BY <1>1, <1>2, ClaimsOfStage, AccountAssumption DEF Unborn
<1>3. CASE OnRoot(id)
  BY <1>1, <1>3, ClaimsOfStage
<1>4. CASE IsSunk(id)
  BY <1>1, <1>4, ClaimsOfStage DEF IsSunk
<1>5. CASE OnChild(id)
  BY <1>1, <1>5, ClaimsOfStage
<1>6. ASSUME NEW i \in Nat, ToChild(id, i)
      PROVE  (\A x, y \in Claims(id) : x = y) /\ Claims(id) # {}
  BY <1>1, <1>6, ClaimsOfStage
<1>7. ASSUME NEW k \in Nat, ToRoot(id, k)
      PROVE  (\A x, y \in Claims(id) : x = y) /\ Claims(id) # {}
  BY <1>1, <1>7, ClaimsOfStage
<1> QED
  BY <1>1, <1>2, <1>3, <1>4, <1>5, <1>6, <1>7 DEF InOneStage

\* Across both chains and everything between them a token is never claimed
\* twice, and a locked one never unclaimed unless its holder sank it.
THEOREM ERC721Custody == SpecOneWay => []OneClaimEach
<1> QED
  BY StageMeansOneClaim, CustodyInvariant, PTL

\* A delivered deposit always mints every token of its batch for its receiver.
THEOREM ERC721Delivery == SpecOneWay => DeliveryMints
<1> DEFINE Mints == delivered' # delivered
                      => LET d == syncs[delivered + 1]
                         IN \A id \in d.ids : childOwner'[id] = d.user
<1>1. ASSUME CustodyInv, Deliver PROVE Mints
  BY <1>1, DeliverMints DEF MoveOnChild, Pass, Deposit
<1>2. CustodyInv /\ [NextOneWay]_vars => Mints
  BY <1>1 DEF NextOneWay, Move, ChildTransfer, Withdraw, WithdrawBatch, SubmitCheckpoint,
              RootMint, RootTransfer, DepositFor, ExitOneWay, Exit, vars
<1> QED
  BY <1>2, CustodyInvariant, PTL DEF SpecOneWay, DeliveryMints

\* The bridge implements the custody of each token.
THEOREM ERC721ImplementsCustody == SpecOneWay => ImplementsCustody
<1> QED
  BY CustodyInit, CustodyNext, CustodyInvariant, PTL
     DEF SpecOneWay, ImplementsCustody, Custody!Spec

-----------------------------------------------------------------------------
\* Burns can be exited.

\* The converse of BurnsRecorded: what is recorded did release its tokens, and a
\* WithdrawnBatch log names one at least.
RecordsReleased ==
  /\ \A l \in processedExits : \A id \in Released(l[1], l[2]) : <<l[1], id>> \in redeemed
  /\ \A k \in 1..Len(receipts) : receipts[k].batch => receipts[k].ids # {}

\* The child chain only adds receipts.
LEMMA MoveAdds ==
  ASSUME TypeOK, NEW ids \in SUBSET TokenId, NEW from, NEW to, NEW batch,
         MoveOnChild(ids, from, to, batch), batch => ids # {}
  PROVE  /\ \A k \in 1..Len(receipts) : receipts'[k] = receipts[k]
         /\ \A k \in 1..Len(receipts') :
              k \in 1..Len(receipts) \/ (receipts'[k].batch => receipts'[k].ids # {})
<1> DEFINE r == [from |-> from, to |-> to, ids |-> ids, batch |-> batch]
<1>1. receipts \in Seq(Receipt) /\ receipts' = Append(receipts, r)
  BY DEF TypeOK, MoveOnChild
<1>2. r.batch => r.ids # {}
  OBVIOUS
<1> HIDE DEF r
<1> QED
  BY <1>1, <1>2

LEMMA ReceiptsKept ==
  ASSUME TypeOK, [NextOneWay]_vars
  PROVE  /\ \A k \in 1..Len(receipts) : receipts'[k] = receipts[k]
         /\ \A k \in 1..Len(receipts') :
              k \in 1..Len(receipts) \/ (receipts'[k].batch => receipts'[k].ids # {})
<1> DEFINE Adds == /\ \A k \in 1..Len(receipts) : receipts'[k] = receipts[k]
                   /\ \A k \in 1..Len(receipts') :
                        k \in 1..Len(receipts) \/ (receipts'[k].batch => receipts'[k].ids # {})
<1> SUFFICES Adds
  OBVIOUS
<1>1. CASE UNCHANGED receipts
  BY <1>1
<1>2. ASSUME NEW u \in User, NEW v \in User, NEW id \in TokenId, ChildTransfer(u, v, id)
      PROVE  Adds
  BY <1>2, MoveAdds, {id} \in SUBSET TokenId DEF ChildTransfer
<1>3. ASSUME NEW u \in User, NEW id \in TokenId, Withdraw(u, id) PROVE Adds
  BY <1>3, MoveAdds, {id} \in SUBSET TokenId DEF Withdraw
<1>4. ASSUME NEW u \in User, NEW ids \in Batches, WithdrawBatch(u, ids) PROVE Adds
  BY <1>4, MoveAdds DEF WithdrawBatch, Batches
<1>5. ASSUME Deliver PROVE Adds
  <2> DEFINE d == syncs[delivered + 1]
  <2>1. d \in Deposit
    BY <1>5 DEF Deliver, TypeOK
  <2>2. CASE MoveOnChild(d.ids, NoOne, d.user, FALSE)
    <3>1. PICK ids, u : ids = d.ids /\ u = d.user /\ ids \in SUBSET TokenId
      BY <2>1 DEF Deposit
    <3>2. MoveOnChild(ids, NoOne, u, FALSE)
      BY <2>2, <3>1 DEF MoveOnChild, Pass
    <3>3. FALSE => ids # {}
      OBVIOUS
    <3> HIDE DEF d
    <3> QED
      BY <3>1, <3>2, <3>3, MoveAdds
  <2> QED
    BY <1>1, <1>5, <2>2 DEF Deliver, childVars
<1>6. CASE UNCHANGED vars
  BY <1>1, <1>6 DEF vars, childVars
<1>7. ASSUME NEW l \in Logs, ExitOneWay(l[1], l[2]) PROVE Adds
  BY <1>1, <1>7 DEF ExitOneWay, Exit, childVars
<1>8. CASE SubmitCheckpoint
  BY <1>1, <1>8 DEF SubmitCheckpoint, childVars
<1>9. ASSUME NEW u, NEW v, NEW ids,
             RootMint(u, ids) \/ RootTransfer(u, v, ids) \/ DepositFor(u, v, ids)
      PROVE  Adds
  BY <1>1, <1>9 DEF RootMint, RootTransfer, DepositFor, childVars
<1> HIDE DEF Adds
<1>10. CASE Move
  <2>1. CASE \E u, v \in User, id \in TokenId : ChildTransfer(u, v, id)
    BY <1>2, <2>1
  <2>2. CASE \E u \in User, id \in TokenId : Withdraw(u, id)
    BY <1>3, <2>2
  <2>3. CASE \E u \in User, ids \in Batches : WithdrawBatch(u, ids)
    BY <1>4, <2>3
  <2>4. CASE Deliver \/ SubmitCheckpoint
    BY <1>5, <1>8, <2>4
  <2>5. CASE \E u \in User, id \in TokenId : RootMint(u, id)
    BY <1>9, <2>5
  <2>6. CASE \E u \in User, v \in User \cup {Predicate}, id \in TokenId : RootTransfer(u, v, id)
    BY <1>9, <2>6
  <2>7. CASE \E u, v \in User, ids \in Batches : DepositFor(u, v, ids)
    BY <1>9, <2>7
  <2> QED
    BY <1>10, <2>1, <2>2, <2>3, <2>4, <2>5, <2>6, <2>7 DEF Move
<1> QED
  BY <1>6, <1>7, <1>10 DEF NextOneWay

\* An exit records what it releases, and nothing else does.
LEMMA RecordsKept ==
  ASSUME TypeOK, RecordsReleased, [NextOneWay]_vars
  PROVE  RecordsReleased'
<1>1. \A k \in 1..Len(receipts') : receipts'[k].batch => receipts'[k].ids # {}
  BY ReceiptsKept DEF RecordsReleased
<1>2. ASSUME NEW l \in Logs
      PROVE  /\ l = <<l[1], l[2]>> /\ l[1] \in 1..Len(receipts)
             /\ Released(l[1], l[2])' = Released(l[1], l[2])
  BY ReceiptsKept DEF Logs, Released
<1>3. ASSUME NEW l \in processedExits, redeemed \subseteq redeemed',
             NEW id \in Released(l[1], l[2])'
      PROVE  <<l[1], id>> \in redeemed'
  <2>1. l \in Logs
    BY DEF TypeOK
  <2> QED
    BY <1>2, <1>3, <2>1 DEF RecordsReleased
<1>4. CASE UNCHANGED <<processedExits, redeemed>>
  BY <1>1, <1>3, <1>4 DEF RecordsReleased
<1>5. ASSUME NEW l \in Logs, Exit(l[1], l[2]) PROVE RecordsReleased'
  <2>1. /\ processedExits' = processedExits \cup {l}
        /\ redeemed' = redeemed \cup {<<l[1], id>> : id \in Released(l[1], l[2])}
    BY <1>2, <1>5 DEF Exit
  <2>2. \A id \in Released(l[1], l[2])' : <<l[1], id>> \in redeemed'
    BY <1>2, <2>1
  <2> QED
    BY <1>1, <1>3, <2>1, <2>2 DEF RecordsReleased
<1>6. CASE Move \/ UNCHANGED vars
  BY <1>4, <1>6 DEF Move, ChildTransfer, Withdraw, WithdrawBatch, Deliver, SubmitCheckpoint,
                    RootMint, RootTransfer, DepositFor, vars, rootVars
<1> QED
  BY <1>5, <1>6 DEF NextOneWay, ExitOneWay

\* However often its token went back and forth before, and whatever was exited in the
\* meantime, a burn that did not release its token yet can do so by its Transfer log,
\* and a batch of such burns by its WithdrawnBatch log.
THEOREM ERC721Releasable == SpecOneWay => []BurnsReleasable
<1>1. ASSUME CustodyInv, RecordsReleased, NEW l \in Logs, ValidLog(l[1], l[2]),
             \A id \in Released(l[1], l[2]) : l[1] \in OpenBurns(id)
      PROVE  CanRelease(l[1], l[2])
  <2>1. l = <<l[1], l[2]>> /\ l[1] \in 1..Len(receipts) /\ l[2] \in TokenId \cup {Batch}
    BY DEF Logs
  <2>2. receipts[l[1]].ids \subseteq TokenId
    <3>1. receipts[l[1]] \in Receipt
      BY <2>1, <1>1 DEF CustodyInv, TypeOK
    <3> QED
      BY <3>1 DEF Receipt
  <2>3. Released(l[1], l[2]) \subseteq TokenId
    BY <2>1, <2>2 DEF Released
  <2>4. \A id \in Released(l[1], l[2]) : rootOwner[id] = Predicate
    BY <1>1, <2>3, StageByOwner DEF ToRoot
  <2>5. PICK id : id \in Released(l[1], l[2])
    <3>1. CASE l[2] = Batch
      BY <1>1, <2>1, <2>2, <3>1, AccountAssumption DEF ValidLog, Released, RecordsReleased
    <3>2. CASE l[2] # Batch
      BY <3>2 DEF Released
    <3> QED
      BY <3>1, <3>2
  <2>6. <<l[1], id>> \notin redeemed
    BY <1>1, <2>5 DEF OpenBurns
  <2>7. l \notin processedExits
    BY <1>1, <2>5, <2>6 DEF RecordsReleased
  <2> QED
    BY <2>1, <2>4, <2>7 DEF CanRelease
<1>2. CustodyInv /\ RecordsReleased => BurnsReleasable
  BY <1>1 DEF BurnsReleasable
<1>3. Init => RecordsReleased
  BY DEF Init, RecordsReleased
<1>4. CustodyInv /\ RecordsReleased /\ [NextOneWay]_vars => RecordsReleased'
  BY RecordsKept DEF CustodyInv
<1> QED
  BY <1>2, <1>3, <1>4, CustodyInvariant, PTL DEF SpecOneWay
=============================================================================
