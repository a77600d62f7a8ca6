---------------------- MODULE MintableERC721BridgeProofs ----------------------
(***************************************************************************)
(* Proofs about MintableERC721Bridge, for every set of tokens and users    *)
(* and every number of transfers, deposits and exits.                      *)
(***************************************************************************)
EXTENDS MintableERC721Bridge, TLAPS

-----------------------------------------------------------------------------
\* The inductive invariant: the stages a token id can be in.  They say how the
\* two owners, the flag, the deposits and the burns of a token go together,
\* which none of the claims on it does alone.
Away(id) == Minted(id) /\ childOwner[id] = NoOne /\ withdrawnTokens[id]

Quiet(id) == PendingDeposits(id) = {} /\ OpenBurns(id) = {}

Unborn(id) ==
  /\ ~Minted(id) /\ childOwner[id] = NoOne /\ ~withdrawnTokens[id]
  /\ rootOwner[id] = NoOne /\ Quiet(id) /\ id \notin sunk

OnChild(id) ==
  /\ Minted(id) /\ childOwner[id] \in User /\ ~withdrawnTokens[id]
  /\ rootOwner[id] \in {Predicate, NoOne} /\ Quiet(id) /\ id \notin sunk

ToChild(id, i) ==
  /\ Away(id) /\ rootOwner[id] = Predicate /\ id \notin sunk
  /\ PendingDeposits(id) = {i} /\ OpenBurns(id) = {}

ToRoot(id, i) ==
  /\ Away(id) /\ rootOwner[id] \in {Predicate, NoOne} /\ id \notin sunk
  /\ PendingDeposits(id) = {} /\ OpenBurns(id) = {i} /\ logs[i].from \in User

OnRoot(id) == Away(id) /\ rootOwner[id] \in User /\ Quiet(id) /\ id \notin sunk

IsSunk(id) == Away(id) /\ rootOwner[id] = Predicate /\ Quiet(id) /\ id \in sunk

InOneStage(id) ==
  \/ Unborn(id) \/ OnChild(id) \/ OnRoot(id) \/ IsSunk(id)
  \/ \E i \in Nat : ToChild(id, i)
  \/ \E i \in Nat : ToRoot(id, i)

CustodyInv == TypeOK /\ \A id \in TokenId : InOneStage(id)

-----------------------------------------------------------------------------
\* What each stage says of the claims on the token, and of its place.
LEMMA PendingIsSync ==
  ASSUME TypeOK, NEW id \in TokenId, NEW i \in PendingDeposits(id)
  PROVE  i \in 1..Len(syncs) /\ syncs[i].user \in User
<1>1. i \in 1..Len(syncs)
  BY DEF TypeOK, PendingDeposits
<1>2. syncs[i] \in Deposit
  BY <1>1 DEF TypeOK
<1> QED
  BY <1>1, <1>2 DEF Deposit

LEMMA ClaimsOfStage ==
  ASSUME TypeOK, NEW id \in TokenId
  PROVE  /\ Unborn(id) \/ IsSunk(id) => Claims(id) = {}
         /\ OnChild(id) => Claims(id) = {[at |-> "child", by |-> childOwner[id], ref |-> 0]}
         /\ OnRoot(id) => Claims(id) = {[at |-> "root", by |-> rootOwner[id], ref |-> 0]}
         /\ \A i : ToChild(id, i)
              => Claims(id) = {[at |-> "toChild", by |-> syncs[i].user, ref |-> i]}
         /\ \A i : ToRoot(id, i)
              => Claims(id) = {[at |-> "toRoot", by |-> logs[i].from, ref |-> i]}
<1> USE AccountAssumption DEF Claims, Quiet, Away
<1>1. Unborn(id) \/ IsSunk(id) => Claims(id) = {}
  BY DEF Unborn, IsSunk
<1>2. OnChild(id) => Claims(id) = {[at |-> "child", by |-> childOwner[id], ref |-> 0]}
  BY DEF OnChild
<1>3. OnRoot(id) => Claims(id) = {[at |-> "root", by |-> rootOwner[id], ref |-> 0]}
  BY DEF OnRoot
<1>4. ASSUME NEW i, ToChild(id, i)
      PROVE  Claims(id) = {[at |-> "toChild", by |-> syncs[i].user, ref |-> i]}
  BY <1>4 DEF ToChild
<1>5. ASSUME NEW i, ToRoot(id, i)
      PROVE  Claims(id) = {[at |-> "toRoot", by |-> logs[i].from, ref |-> i]}
  BY <1>5 DEF ToRoot
<1> QED
  BY <1>1, <1>2, <1>3, <1>4, <1>5

PlaceFitsStage(id) ==
  /\ Unborn(id) => place[id] = Custody!Unborn
  /\ IsSunk(id) => place[id] = Custody!Sunk
  /\ OnChild(id) => place[id] = Custody!In("child", childOwner[id])
  /\ OnRoot(id) => place[id] = Custody!In("root", rootOwner[id])
  /\ \A i : ToChild(id, i) => place[id] = Custody!In("toChild", syncs[i].user)
  /\ \A i : ToRoot(id, i) => place[id] = Custody!In("toRoot", logs[i].from)

LEMMA PlaceOfStage == TypeOK => \A id \in TokenId : PlaceFitsStage(id)
<1> SUFFICES ASSUME TypeOK, NEW id \in TokenId PROVE PlaceFitsStage(id)
  OBVIOUS
<1>1. Claims(id) = {} => place[id] = [at |-> IF id \in sunk THEN "sunk" ELSE "unborn"]
  BY DEF place
<1>2. ASSUME NEW w, NEW u, NEW i, Claims(id) = {[at |-> w, by |-> u, ref |-> i]}
      PROVE  place[id] = Custody!In(w, u)
  <2> DEFINE x == [at |-> w, by |-> u, ref |-> i]
  <2>1. (CHOOSE y \in Claims(id) : TRUE) = x /\ Claims(id) # {}
    BY <1>2
  <2>2. x.at = w /\ x.by = u
    OBVIOUS
  <2> HIDE DEF x
  <2>3. place[id] = [at |-> x.at, by |-> x.by]
    BY <2>1 DEF place
  <2> QED
    BY <2>2, <2>3 DEF Custody!In
<1>3. Unborn(id) => place[id] = Custody!Unborn
  BY <1>1, ClaimsOfStage DEF Unborn, Custody!Unborn
<1>4. IsSunk(id) => place[id] = Custody!Sunk
  BY <1>1, ClaimsOfStage DEF IsSunk, Custody!Sunk
<1>5. OnChild(id) => place[id] = Custody!In("child", childOwner[id])
  BY <1>2, ClaimsOfStage
<1>6. OnRoot(id) => place[id] = Custody!In("root", rootOwner[id])
  BY <1>2, ClaimsOfStage
<1>7. \A i : ToChild(id, i) => place[id] = Custody!In("toChild", syncs[i].user)
  BY <1>2, ClaimsOfStage
<1>8. \A i : ToRoot(id, i) => place[id] = Custody!In("toRoot", logs[i].from)
  BY <1>2, ClaimsOfStage
<1> QED
  BY <1>3, <1>4, <1>5, <1>6, <1>7, <1>8 DEF PlaceFitsStage

LEMMA PlaceOfNextStage == TypeOK' => \A id \in TokenId : PlaceFitsStage(id)'
<1>1. (TypeOK => \A id \in TokenId : PlaceFitsStage(id))'
  BY PlaceOfStage, PTL
<1> QED
  BY <1>1

-----------------------------------------------------------------------------
\* A token that a step does not touch stays in its stage and in its place.
Untouched(id) ==
  /\ rootOwner'[id] = rootOwner[id]
  /\ childOwner'[id] = childOwner[id]
  /\ withdrawnTokens'[id] = withdrawnTokens[id]
  /\ id \in sunk' <=> id \in sunk
  /\ Minted(id)' <=> Minted(id)
  /\ PendingDeposits(id)' = PendingDeposits(id)
  /\ OpenBurns(id)' = OpenBurns(id)
  /\ \A i \in PendingDeposits(id) : syncs'[i] = syncs[i]
  /\ \A i \in OpenBurns(id) : logs'[i] = logs[i]

LEMMA UntouchedStays ==
  ASSUME NEW id \in TokenId, InOneStage(id), Untouched(id)
  PROVE  InOneStage(id)' /\ place'[id] = place[id]
<1>1. InOneStage(id)'
  BY DEF Untouched, InOneStage, Unborn, OnChild, OnRoot, IsSunk, ToChild, ToRoot, Away, Quiet
<1>2. Claims(id)' = Claims(id)
  BY DEF Untouched, Claims
<1>3. place'[id] = place[id]
  BY <1>2 DEF place, Untouched
<1> QED
  BY <1>1, <1>3

-----------------------------------------------------------------------------
\* What the steps do to the deposits and burns of a token.
LEMMA LogAppended ==
  ASSUME TypeOK, TypeOK', NEW log \in Transfer, logs' = Append(logs, log),
         processedExits' = processedExits, NEW id \in TokenId
  PROVE  /\ Minted(id)' <=> Minted(id) \/ log.id = id
         /\ OpenBurns(id)' = IF log.id = id /\ log.to = NoOne
                             THEN OpenBurns(id) \cup {Len(logs) + 1} ELSE OpenBurns(id)
         /\ \A i \in OpenBurns(id) : logs'[i] = logs[i]
         /\ logs'[Len(logs) + 1] = log
         /\ Len(logs) + 1 \in Nat
<1>1. /\ Len(logs) \in Nat /\ Len(logs') = Len(logs) + 1
      /\ \A i \in 1..Len(logs) : logs'[i] = logs[i]
      /\ logs'[Len(logs) + 1] = log
  BY DEF TypeOK
<1>2. Minted(id)' <=> Minted(id) \/ log.id = id
  BY <1>1 DEF Minted
<1>3. Len(logs) + 1 \notin processedExits
  BY <1>1 DEF TypeOK
<1>4. OpenBurns(id)' = IF log.id = id /\ log.to = NoOne
                       THEN OpenBurns(id) \cup {Len(logs) + 1} ELSE OpenBurns(id)
  BY <1>1, <1>3 DEF OpenBurns
<1>5. \A i \in OpenBurns(id) : logs'[i] = logs[i]
  BY <1>1 DEF OpenBurns
<1>6. Len(logs) + 1 \in Nat
  BY <1>1
<1> QED
  BY <1>1, <1>2, <1>4, <1>5, <1>6, Zenon

LEMMA SyncAppended ==
  ASSUME TypeOK, NEW d \in Deposit, syncs' = Append(syncs, d),
         delivered' = delivered, NEW id \in TokenId
  PROVE  /\ PendingDeposits(id)' = IF d.id = id THEN PendingDeposits(id) \cup {Len(syncs) + 1}
                                                ELSE PendingDeposits(id)
         /\ \A i \in PendingDeposits(id) : syncs'[i] = syncs[i]
         /\ syncs'[Len(syncs) + 1] = d
         /\ Len(syncs) + 1 \in Nat
<1>1. /\ Len(syncs) \in Nat /\ Len(syncs') = Len(syncs) + 1
      /\ \A i \in 1..Len(syncs) : syncs'[i] = syncs[i]
      /\ syncs'[Len(syncs) + 1] = d
      /\ delivered \in 0..Len(syncs)
  BY DEF TypeOK
<1>2. PendingDeposits(id)' = IF d.id = id THEN PendingDeposits(id) \cup {Len(syncs) + 1}
                                          ELSE PendingDeposits(id)
  BY <1>1 DEF PendingDeposits
<1>3. \A i \in PendingDeposits(id) : syncs'[i] = syncs[i]
  BY <1>1 DEF PendingDeposits
<1>4. Len(syncs) + 1 \in Nat
  BY <1>1
<1> QED
  BY <1>1, <1>2, <1>3, <1>4, Zenon

-----------------------------------------------------------------------------
\* Type correctness of each step.
LEMMA MoveType ==
  ASSUME TypeOK, NEW id \in TokenId, NEW from \in User \cup {NoOne},
         NEW to \in User \cup {NoOne}, MoveOnChild(id, from, to),
         withdrawnTokens' \in [TokenId -> BOOLEAN],
         delivered' \in 0..Len(syncs),
         UNCHANGED <<rootVars, checkpointed>>
  PROVE  TypeOK'
<1> DEFINE log == [from |-> from, to |-> to, id |-> id]
<1>1. log \in Transfer /\ logs' = Append(logs, log)
  BY DEF MoveOnChild, Transfer
<1> HIDE DEF log
<1>2. logs' \in Seq(Transfer) /\ Len(logs) \in Nat /\ Len(logs') = Len(logs) + 1
  BY <1>1 DEF TypeOK
<1>3. childOwner' \in [TokenId -> User \cup {NoOne}]
  BY DEF TypeOK, MoveOnChild
<1>4. processedExits' \subseteq 1..Len(logs') /\ checkpointed' \in 0..Len(logs')
  BY <1>2 DEF TypeOK, rootVars
<1> QED
  BY <1>2, <1>3, <1>4 DEF TypeOK, rootVars

LEMMA TypeNext == TypeOK /\ [Next]_vars => TypeOK'
<1> SUFFICES ASSUME TypeOK, [Next]_vars PROVE TypeOK'
  OBVIOUS
<1> USE DEF rootVars, childVars
<1>1. ASSUME NEW u \in User, NEW id \in TokenId, ChildMint(u, id) PROVE TypeOK'
  <2>1. MoveOnChild(id, NoOne, u)
    BY <1>1 DEF ChildMint
  <2> QED
    BY <1>1, <2>1, MoveType DEF ChildMint, TypeOK
<1>2. ASSUME NEW u \in User, NEW v \in User, NEW id \in TokenId, ChildTransfer(u, v, id)
      PROVE  TypeOK'
  <2>1. MoveOnChild(id, u, v)
    BY <1>2 DEF ChildTransfer
  <2> QED
    BY <1>2, <2>1, MoveType DEF ChildTransfer, TypeOK
<1>3. ASSUME NEW u \in User, NEW id \in TokenId, Withdraw(u, id) PROVE TypeOK'
  <2>1. MoveOnChild(id, u, NoOne)
    BY <1>3 DEF Withdraw
  <2> QED
    BY <1>3, <2>1, MoveType DEF Withdraw, TypeOK
<1>4. ASSUME Deliver PROVE TypeOK'
  <2> DEFINE d == syncs[delivered + 1]
  <2>1. d \in Deposit /\ delivered + 1 \in 0..Len(syncs)
    BY <1>4 DEF Deliver, TypeOK
  <2>2. CASE MoveOnChild(d.id, NoOne, d.user)
             /\ withdrawnTokens' = [withdrawnTokens EXCEPT ![d.id] = FALSE]
    <3>1. /\ delivered' \in 0..Len(syncs)
          /\ withdrawnTokens' \in [TokenId -> BOOLEAN]
          /\ d.id \in TokenId /\ d.user \in User
      BY <1>4, <2>1, <2>2 DEF Deliver, TypeOK, Deposit
    <3> HIDE DEF d
    <3> QED
      BY <1>4, <2>2, <3>1, MoveType DEF Deliver
  <2>3. CASE UNCHANGED childVars
    BY <1>4, <2>1, <2>3 DEF Deliver, TypeOK
  <2> QED
    BY <1>4, <2>2, <2>3 DEF Deliver
<1>5. ASSUME SubmitCheckpoint PROVE TypeOK'
  BY <1>5 DEF SubmitCheckpoint, TypeOK
<1>6. ASSUME NEW u \in User, NEW v \in User \cup {Predicate}, NEW id \in TokenId,
             RootTransfer(u, v, id)
      PROVE  TypeOK'
  BY <1>6 DEF RootTransfer, TypeOK
<1>7. ASSUME NEW u \in User, NEW v \in User, NEW id \in TokenId, DepositFor(u, v, id)
      PROVE  TypeOK'
  BY <1>7 DEF DepositFor, TypeOK, Deposit
<1>8. ASSUME NEW i \in 1..Len(logs), Exit(i) PROVE TypeOK'
  <2>1. logs[i] \in Transfer
    BY DEF TypeOK
  <2> QED
    BY <1>8, <2>1 DEF Exit, TypeOK, Transfer
<1>9. CASE UNCHANGED vars
  BY <1>9 DEF vars, TypeOK
<1> QED
  BY <1>1, <1>2, <1>3, <1>4, <1>5, <1>6, <1>7, <1>8, <1>9 DEF Next

-----------------------------------------------------------------------------
\* Each step moves at most one token, from one stage to another, and its place
\* with it.
LEMMA OneMoves ==
  ASSUME CustodyInv, NEW id \in TokenId, InOneStage(id)',
         \A x \in TokenId \ {id} : Untouched(x)
  PROVE  /\ \A x \in TokenId : InOneStage(x)'
         /\ place' = [place EXCEPT ![id] = place'[id]]
<1>1. \A x \in TokenId \ {id} : InOneStage(x)' /\ place'[x] = place[x]
  BY UntouchedStays DEF CustodyInv
<1>2. /\ place = [x \in TokenId |-> place[x]]
      /\ place' = [x \in TokenId |-> place'[x]]
  BY DEF place
<1> QED
  BY <1>1, <1>2

LEMMA NoneMoves ==
  ASSUME CustodyInv, \A x \in TokenId : Untouched(x)
  PROVE  (\A x \in TokenId : InOneStage(x)') /\ place' = place
<1>1. \A x \in TokenId : InOneStage(x)' /\ place'[x] = place[x]
  BY UntouchedStays DEF CustodyInv
<1>2. /\ place = [x \in TokenId |-> place[x]]
      /\ place' = [x \in TokenId |-> place'[x]]
  BY DEF place
<1> QED
  BY <1>1, <1>2

\* A step on the child chain that leaves deposits and exits alone.
LEMMA MoveTouchesOne ==
  ASSUME CustodyInv, TypeOK', NEW id \in TokenId, NEW from \in User \cup {NoOne},
         NEW to \in User \cup {NoOne}, MoveOnChild(id, from, to), UNCHANGED rootVars,
         withdrawnTokens' \in {withdrawnTokens, [withdrawnTokens EXCEPT ![id] = TRUE],
                               [withdrawnTokens EXCEPT ![id] = FALSE]},
         \A x \in TokenId \ {id} : PendingDeposits(x)' = PendingDeposits(x)
  PROVE  \A x \in TokenId \ {id} : Untouched(x)
<1> DEFINE log == [from |-> from, to |-> to, id |-> id]
<1>1. /\ log \in Transfer /\ log.id = id /\ logs' = Append(logs, log)
      /\ childOwner' = [childOwner EXCEPT ![id] = to]
  BY DEF MoveOnChild, Transfer
<1> HIDE DEF log
<1>2. ASSUME NEW x \in TokenId \ {id} PROVE Untouched(x)
  <2>1. /\ Minted(x)' <=> Minted(x)
        /\ OpenBurns(x)' = OpenBurns(x)
        /\ \A i \in OpenBurns(x) : logs'[i] = logs[i]
    BY <1>1, LogAppended DEF CustodyInv, rootVars
  <2>2. childOwner'[x] = childOwner[x] /\ withdrawnTokens'[x] = withdrawnTokens[x]
    BY <1>1 DEF CustodyInv, TypeOK
  <2>3. UNCHANGED <<rootOwner, sunk, syncs>>
    BY DEF rootVars
  <2> QED
    BY <2>1, <2>2, <2>3 DEF Untouched
<1> QED
  BY <1>2

\* Which stage the guard of a step implies.
LEMMA StageByOwner ==
  ASSUME CustodyInv, NEW id \in TokenId
  PROVE  /\ childOwner[id] \in User => OnChild(id)
         /\ childOwner[id] = NoOne /\ ~withdrawnTokens[id] => Unborn(id)
         /\ rootOwner[id] \in User => OnRoot(id)
         /\ \A i \in PendingDeposits(id) : ToChild(id, i)
         /\ \A i \in OpenBurns(id) : ToRoot(id, i)
<1>1. InOneStage(id)
  BY DEF CustodyInv
<1> QED
  BY <1>1, AccountAssumption
     DEF InOneStage, Unborn, OnChild, OnRoot, IsSunk, ToChild, ToRoot, Away, Quiet

LEMMA ChildMintStep ==
  ASSUME CustodyInv, TypeOK', NEW u \in User, NEW id \in TokenId, ChildMint(u, id)
  PROVE  /\ \A x \in TokenId : InOneStage(x)'
         /\ Custody!Mint("child")
<1> DEFINE log == [from |-> NoOne, to |-> u, id |-> id]
<1>1. /\ MoveOnChild(id, NoOne, u) /\ ~withdrawnTokens[id]
      /\ UNCHANGED <<rootVars, withdrawnTokens, delivered>>
  BY DEF ChildMint
<1>2. Unborn(id)
  BY <1>1, StageByOwner DEF MoveOnChild
<1>3. \A x \in TokenId : PendingDeposits(x)' = PendingDeposits(x)
  BY <1>1 DEF PendingDeposits, rootVars
<1>4. \A x \in TokenId \ {id} : Untouched(x)
  BY <1>1, <1>3, MoveTouchesOne
<1>5. log \in Transfer /\ logs' = Append(logs, log) /\ log.to # NoOne /\ log.id = id
  BY <1>1, AccountAssumption DEF MoveOnChild, Transfer
<1> HIDE DEF log
<1>6. Minted(id)' /\ OpenBurns(id)' = OpenBurns(id)
  BY <1>1, <1>5, LogAppended DEF CustodyInv, rootVars
<1>7. childOwner'[id] = u
  BY <1>1 DEF MoveOnChild, CustodyInv, TypeOK
<1>8. OnChild(id)'
  BY <1>1, <1>2, <1>3, <1>6, <1>7 DEF Unborn, OnChild, Quiet, rootVars
<1>9. (\A x \in TokenId : InOneStage(x)') /\ place' = [place EXCEPT ![id] = place'[id]]
  BY <1>4, <1>8, OneMoves DEF InOneStage
<1>10. place[id] = Custody!Unborn /\ place'[id] = Custody!In("child", u)
  BY <1>2, <1>7, <1>8, PlaceOfStage, PlaceOfNextStage DEF PlaceFitsStage, CustodyInv
<1> QED
  BY <1>9, <1>10 DEF Custody!Mint

LEMMA ChildTransferStep ==
  ASSUME CustodyInv, TypeOK', NEW u \in User, NEW v \in User, NEW id \in TokenId,
         ChildTransfer(u, v, id)
  PROVE  /\ \A x \in TokenId : InOneStage(x)'
         /\ Custody!Give("child")
<1> DEFINE log == [from |-> u, to |-> v, id |-> id]
<1>1. /\ MoveOnChild(id, u, v)
      /\ UNCHANGED <<rootVars, withdrawnTokens, delivered>>
  BY DEF ChildTransfer
<1>2. OnChild(id) /\ childOwner[id] = u
  BY <1>1, StageByOwner DEF MoveOnChild
<1>3. \A x \in TokenId : PendingDeposits(x)' = PendingDeposits(x)
  BY <1>1 DEF PendingDeposits, rootVars
<1>4. \A x \in TokenId \ {id} : Untouched(x)
  BY <1>1, <1>3, MoveTouchesOne
<1>5. log \in Transfer /\ logs' = Append(logs, log) /\ log.to # NoOne /\ log.id = id
  BY <1>1, AccountAssumption DEF MoveOnChild, Transfer
<1> HIDE DEF log
<1>6. Minted(id)' /\ OpenBurns(id)' = OpenBurns(id)
  BY <1>1, <1>5, LogAppended DEF CustodyInv, rootVars
<1>7. childOwner'[id] = v
  BY <1>1 DEF MoveOnChild, CustodyInv, TypeOK
<1>8. OnChild(id)'
  BY <1>1, <1>2, <1>3, <1>6, <1>7 DEF OnChild, Quiet, rootVars
<1>9. (\A x \in TokenId : InOneStage(x)') /\ place' = [place EXCEPT ![id] = place'[id]]
  BY <1>4, <1>8, OneMoves DEF InOneStage
<1>10. place[id] = Custody!In("child", u) /\ place'[id] = Custody!In("child", v)
  BY <1>2, <1>7, <1>8, PlaceOfStage, PlaceOfNextStage DEF PlaceFitsStage, CustodyInv
<1> QED
  BY <1>9, <1>10 DEF Custody!Give

\* The abstract step of one token travelling.
LEMMA OneTravels ==
  ASSUME NEW id \in TokenId, NEW to, place' = [place EXCEPT ![id] = to]
  PROVE  place' = [x \in TokenId |-> IF x \in {id} THEN to ELSE place[x]]
BY DEF place

LEMMA WithdrawStep ==
  ASSUME CustodyInv, TypeOK', NEW u \in User, NEW id \in TokenId, Withdraw(u, id)
  PROVE  /\ \A x \in TokenId : InOneStage(x)'
         /\ Custody!Withdraw
<1> DEFINE log == [from |-> u, to |-> NoOne, id |-> id]
<1>n. PICK n : n = Len(logs) + 1
  OBVIOUS
<1>1. /\ MoveOnChild(id, u, NoOne)
      /\ withdrawnTokens' = [withdrawnTokens EXCEPT ![id] = TRUE]
      /\ UNCHANGED <<rootVars, delivered>>
  BY DEF Withdraw
<1>2. OnChild(id) /\ childOwner[id] = u
  BY <1>1, StageByOwner DEF MoveOnChild
<1>3. \A x \in TokenId : PendingDeposits(x)' = PendingDeposits(x)
  BY <1>1 DEF PendingDeposits, rootVars
<1>4. \A x \in TokenId \ {id} : Untouched(x)
  BY <1>1, <1>3, MoveTouchesOne
<1>5. /\ log \in Transfer /\ logs' = Append(logs, log)
      /\ log.to = NoOne /\ log.id = id /\ log.from = u
  BY <1>1 DEF MoveOnChild, Transfer
<1> HIDE DEF log
<1>6. Minted(id)' /\ OpenBurns(id)' = {n} /\ logs'[n] = log /\ n \in Nat
  BY <1>n, <1>1, <1>2, <1>5, LogAppended DEF CustodyInv, rootVars, OnChild, Quiet
<1>7. childOwner'[id] = NoOne /\ withdrawnTokens'[id]
  BY <1>1 DEF MoveOnChild, CustodyInv, TypeOK
<1>8. ToRoot(id, n)'
  BY <1>1, <1>2, <1>3, <1>5, <1>6, <1>7 DEF OnChild, ToRoot, Away, Quiet, rootVars
<1>9. (\A x \in TokenId : InOneStage(x)') /\ place' = [place EXCEPT ![id] = place'[id]]
  BY <1>4, <1>6, <1>8, OneMoves DEF InOneStage
<1>10. place[id] = Custody!In("child", u) /\ place'[id] = Custody!In("toRoot", u)
  <2>1. place[id] = Custody!In("child", u)
    BY <1>2, PlaceOfStage DEF PlaceFitsStage, CustodyInv
  <2>2. place'[id] = Custody!In("toRoot", u)
    <3>1. logs'[n].from = u
      BY <1>5, <1>6
    <3>2. place'[id] = Custody!In("toRoot", logs'[n].from)
      BY <1>8, PlaceOfNextStage DEF PlaceFitsStage
    <3> QED
      BY <3>1, <3>2
  <2> QED
    BY <2>1, <2>2
<1>11. place' = [x \in TokenId |-> IF x \in {id} THEN Custody!In("toRoot", u) ELSE place[x]]
  BY <1>9, <1>10, OneTravels
<1>12. Custody!Withdraw
  <2>1. \A x \in {id} : place[x] = Custody!In("child", u)
    BY <1>10
  <2> QED
    BY <1>11, <2>1 DEF Custody!Withdraw
<1> QED
  BY <1>9, <1>12

\* The next deposit to be delivered finds no token in its way.
LEMMA DeliverMints ==
  ASSUME CustodyInv, Deliver
  PROVE  LET d == syncs[delivered + 1]
         IN  /\ d \in Deposit
             /\ ToChild(d.id, delivered + 1)
             /\ MoveOnChild(d.id, NoOne, d.user)
             /\ withdrawnTokens' = [withdrawnTokens EXCEPT ![d.id] = FALSE]
<1> DEFINE d == syncs[delivered + 1]
<1>1. d \in Deposit /\ delivered + 1 \in (delivered + 1)..Len(syncs)
  BY DEF CustodyInv, TypeOK, Deliver
<1>2. d.id \in TokenId /\ delivered + 1 \in PendingDeposits(d.id)
  BY <1>1 DEF Deposit, PendingDeposits
<1>3. ToChild(d.id, delivered + 1)
  BY <1>2, StageByOwner
<1>4. childOwner[d.id] = NoOne
  BY <1>3 DEF ToChild, Away
<1> QED
  BY <1>1, <1>3, <1>4 DEF Deliver

LEMMA DeliverStep ==
  ASSUME CustodyInv, TypeOK', Deliver
  PROVE  /\ \A x \in TokenId : InOneStage(x)'
         /\ Custody!Arrive("toChild", "child")
<1>n. PICK n, d, id, u : n = delivered + 1 /\ d = syncs[n] /\ id = d.id /\ u = d.user
  OBVIOUS
<1> DEFINE log == [from |-> NoOne, to |-> u, id |-> id]
<1>1. /\ d \in Deposit /\ ToChild(id, n) /\ MoveOnChild(id, NoOne, u)
      /\ withdrawnTokens' = [withdrawnTokens EXCEPT ![id] = FALSE]
  BY <1>n, DeliverMints
<1>2. id \in TokenId /\ u \in User
  BY <1>n, <1>1 DEF Deposit
<1>3. ASSUME NEW x \in TokenId
      PROVE  PendingDeposits(x)' = IF x = id THEN PendingDeposits(x) \ {n} ELSE PendingDeposits(x)
  <2>1. delivered \in Nat /\ Len(syncs) \in Nat /\ delivered' = n /\ syncs' = syncs
    BY <1>n DEF Deliver, rootVars, CustodyInv, TypeOK
  <2> QED
    BY <1>n, <2>1 DEF PendingDeposits
<1>4. UNCHANGED rootVars
  BY DEF Deliver
<1>5. \A x \in TokenId \ {id} : Untouched(x)
  BY <1>1, <1>2, <1>3, <1>4, MoveTouchesOne
<1>6. log \in Transfer /\ logs' = Append(logs, log) /\ log.to # NoOne /\ log.id = id
  BY <1>1, <1>2, AccountAssumption DEF MoveOnChild, Transfer
<1> HIDE DEF log
<1>7. Minted(id)' /\ OpenBurns(id)' = OpenBurns(id)
  BY <1>2, <1>4, <1>6, LogAppended DEF CustodyInv, rootVars
<1>8. childOwner'[id] = u /\ ~withdrawnTokens'[id]
  BY <1>1, <1>2 DEF MoveOnChild, CustodyInv, TypeOK
<1>9. PendingDeposits(id)' = {}
  BY <1>1, <1>2, <1>3 DEF ToChild
<1>10. OnChild(id)'
  BY <1>1, <1>2, <1>4, <1>7, <1>8, <1>9 DEF ToChild, OnChild, Quiet, rootVars
<1>11. (\A x \in TokenId : InOneStage(x)') /\ place' = [place EXCEPT ![id] = place'[id]]
  BY <1>2, <1>5, <1>10, OneMoves DEF InOneStage
<1>12. place[id] = Custody!In("toChild", u) /\ place'[id] = Custody!In("child", u)
  BY <1>n, <1>1, <1>2, <1>8, <1>10, PlaceOfStage, PlaceOfNextStage
     DEF PlaceFitsStage, CustodyInv
<1>13. place' = [x \in TokenId |-> IF x \in {id} THEN Custody!In("child", u) ELSE place[x]]
  BY <1>2, <1>11, <1>12, OneTravels
<1>14. Custody!Arrive("toChild", "child")
  <2>1. \A x \in {id} : place[x] = Custody!In("toChild", u)
    BY <1>12
  <2> QED
    BY <1>2, <1>13, <2>1 DEF Custody!Arrive
<1> QED
  BY <1>11, <1>14

LEMMA CheckpointStep ==
  ASSUME CustodyInv, SubmitCheckpoint
  PROVE  (\A x \in TokenId : InOneStage(x)') /\ place' = place
<1>1. UNCHANGED <<rootVars, childVars, delivered>>
  BY DEF SubmitCheckpoint
<1>2. \A x \in TokenId : Untouched(x)
  BY <1>1 DEF rootVars, childVars, Untouched, Minted, PendingDeposits, OpenBurns
<1> QED
  BY <1>2, NoneMoves

\* What a step that changes the owner of one root token leaves alone.
LEMMA RootMoveTouchesOne ==
  ASSUME CustodyInv, NEW id \in TokenId, NEW o, rootOwner' = [rootOwner EXCEPT ![id] = o],
         UNCHANGED <<childVars, delivered>>, sunk' \in {sunk, sunk \cup {id}},
         \A x \in TokenId \ {id} :
            /\ PendingDeposits(x)' = PendingDeposits(x)
            /\ OpenBurns(x)' = OpenBurns(x)
            /\ \A i \in PendingDeposits(x) : syncs'[i] = syncs[i]
  PROVE  \A x \in TokenId \ {id} : Untouched(x)
BY DEF Untouched, Minted, childVars, CustodyInv, TypeOK

LEMMA RootTransferStep ==
  ASSUME CustodyInv, TypeOK', NEW u \in User, NEW v \in User \cup {Predicate},
         NEW id \in TokenId, RootTransfer(u, v, id)
  PROVE  /\ \A x \in TokenId : InOneStage(x)'
         /\ Custody!Give("root") \/ Custody!Sink
<1>1. /\ rootOwner[id] = u
      /\ rootOwner' = [rootOwner EXCEPT ![id] = v]
      /\ sunk' = IF v = Predicate THEN sunk \cup {id} ELSE sunk
      /\ UNCHANGED <<processedExits, syncs, childVars, delivered>>
  BY DEF RootTransfer
<1>2. OnRoot(id)
  BY <1>1, StageByOwner
<1>3. \A x \in TokenId : /\ PendingDeposits(x)' = PendingDeposits(x)
                         /\ OpenBurns(x)' = OpenBurns(x)
                         /\ Minted(x)' <=> Minted(x)
  BY <1>1 DEF PendingDeposits, OpenBurns, Minted, childVars
<1>4. \A x \in TokenId \ {id} : Untouched(x)
  BY <1>1, <1>3, RootMoveTouchesOne
<1>5. rootOwner'[id] = v
  BY <1>1 DEF CustodyInv, TypeOK
<1>6. place[id] = Custody!In("root", u)
  BY <1>1, <1>2, PlaceOfStage DEF PlaceFitsStage, CustodyInv
<1>7. CASE v \in User
  <2>1. OnRoot(id)'
    BY <1>1, <1>2, <1>3, <1>5, <1>7, AccountAssumption DEF OnRoot, Away, Quiet, childVars
  <2>2. (\A x \in TokenId : InOneStage(x)') /\ place' = [place EXCEPT ![id] = place'[id]]
    BY <1>4, <2>1, OneMoves DEF InOneStage
  <2>3. place'[id] = Custody!In("root", v)
    BY <1>5, <2>1, PlaceOfNextStage DEF PlaceFitsStage
  <2> QED
    BY <1>6, <1>7, <2>2, <2>3 DEF Custody!Give
<1>8. CASE v = Predicate
  <2>1. IsSunk(id)'
    BY <1>1, <1>2, <1>3, <1>5, <1>8 DEF OnRoot, IsSunk, Away, Quiet, childVars
  <2>2. (\A x \in TokenId : InOneStage(x)') /\ place' = [place EXCEPT ![id] = place'[id]]
    BY <1>4, <2>1, OneMoves DEF InOneStage
  <2>3. place'[id] = Custody!Sunk
    BY <2>1, PlaceOfNextStage DEF PlaceFitsStage
  <2> QED
    BY <1>6, <2>2, <2>3 DEF Custody!Sink
<1> QED
  BY <1>7, <1>8

LEMMA DepositStep ==
  ASSUME CustodyInv, TypeOK', NEW u \in User, NEW v \in User, NEW id \in TokenId,
         DepositFor(u, v, id)
  PROVE  /\ \A x \in TokenId : InOneStage(x)'
         /\ Custody!Deposit
<1>n. PICK n, d : n = Len(syncs) + 1 /\ d = [user |-> v, id |-> id]
  OBVIOUS
<1>1. /\ rootOwner[id] = u
      /\ rootOwner' = [rootOwner EXCEPT ![id] = Predicate]
      /\ syncs' = Append(syncs, d)
      /\ UNCHANGED <<processedExits, childVars, delivered, sunk>>
  BY <1>n DEF DepositFor
<1>2. OnRoot(id)
  BY <1>1, StageByOwner
<1>3. d \in Deposit /\ d.id = id /\ d.user = v
  BY <1>n DEF Deposit
<1>4. \A x \in TokenId : OpenBurns(x)' = OpenBurns(x) /\ (Minted(x)' <=> Minted(x))
  BY <1>1 DEF OpenBurns, Minted, childVars
<1>5. \A x \in TokenId \ {id} : /\ PendingDeposits(x)' = PendingDeposits(x)
                                /\ \A i \in PendingDeposits(x) : syncs'[i] = syncs[i]
  BY <1>1, <1>3, SyncAppended DEF CustodyInv
<1>6. \A x \in TokenId \ {id} : Untouched(x)
  BY <1>1, <1>4, <1>5, RootMoveTouchesOne
<1>7. PendingDeposits(id)' = {n} /\ syncs'[n] = d /\ n \in Nat
  BY <1>n, <1>1, <1>2, <1>3, SyncAppended DEF CustodyInv, OnRoot, Quiet
<1>8. ToChild(id, n)'
  BY <1>1, <1>2, <1>4, <1>7 DEF OnRoot, ToChild, Away, Quiet, childVars, CustodyInv, TypeOK
<1>9. (\A x \in TokenId : InOneStage(x)') /\ place' = [place EXCEPT ![id] = place'[id]]
  BY <1>6, <1>7, <1>8, OneMoves DEF InOneStage
<1>10. place[id] = Custody!In("root", u)
  BY <1>1, <1>2, PlaceOfStage DEF PlaceFitsStage, CustodyInv
<1>11. place'[id] = Custody!In("toChild", v)
  BY <1>3, <1>7, <1>8, PlaceOfNextStage DEF PlaceFitsStage
<1>12. place' = [x \in TokenId |-> IF x \in {id} THEN Custody!In("toChild", v) ELSE place[x]]
  BY <1>9, <1>11, OneTravels
<1>13. Custody!Deposit
  <2>1. \A x \in {id} : place[x] = Custody!In("root", u)
    BY <1>10
  <2> QED
    BY <1>12, <2>1 DEF Custody!Deposit
<1> QED
  BY <1>9, <1>13

LEMMA ExitStep ==
  ASSUME CustodyInv, TypeOK', NEW i \in 1..Len(logs), Exit(i)
  PROVE  /\ \A x \in TokenId : InOneStage(x)'
         /\ Custody!Arrive("toRoot", "root")
<1>n. PICK id, u : id = logs[i].id /\ u = logs[i].from
  OBVIOUS
<1>1. /\ i \notin processedExits /\ processedExits' = processedExits \cup {i}
      /\ logs[i].to = NoOne
      /\ rootOwner' = [rootOwner EXCEPT ![id] = u]
      /\ UNCHANGED <<syncs, childVars, delivered, sunk>>
  BY <1>n DEF Exit
<1>2. id \in TokenId
  <2>1. logs[i] \in Transfer
    BY DEF CustodyInv, TypeOK
  <2> QED
    BY <1>n, <2>1 DEF Transfer
<1>3. i \in OpenBurns(id)
  BY <1>n, <1>1 DEF OpenBurns
<1>4. ToRoot(id, i)
  BY <1>2, <1>3, StageByOwner
<1>5. u \in User
  BY <1>n, <1>4 DEF ToRoot
<1>6. \A x \in TokenId : /\ PendingDeposits(x)' = PendingDeposits(x)
                         /\ OpenBurns(x)' = OpenBurns(x) \ {i}
                         /\ Minted(x)' <=> Minted(x)
  BY <1>1 DEF PendingDeposits, OpenBurns, Minted, childVars
<1>7. \A x \in TokenId \ {id} : i \notin OpenBurns(x)
  BY <1>n DEF OpenBurns
<1>8. \A x \in TokenId \ {id} : Untouched(x)
  <2>1. \A x \in TokenId \ {id} : /\ PendingDeposits(x)' = PendingDeposits(x)
                                  /\ OpenBurns(x)' = OpenBurns(x)
                                  /\ \A j \in PendingDeposits(x) : syncs'[j] = syncs[j]
    BY <1>1, <1>6, <1>7
  <2> QED
    BY <1>1, <1>2, <2>1, RootMoveTouchesOne
<1>9. rootOwner'[id] = u
  BY <1>1, <1>2 DEF CustodyInv, TypeOK
<1>10. OnRoot(id)'
  BY <1>1, <1>2, <1>4, <1>5, <1>6, <1>9 DEF ToRoot, OnRoot, Away, Quiet, childVars
<1>11. (\A x \in TokenId : InOneStage(x)') /\ place' = [place EXCEPT ![id] = place'[id]]
  BY <1>2, <1>8, <1>10, OneMoves DEF InOneStage
<1>12. place[id] = Custody!In("toRoot", u)
  BY <1>n, <1>2, <1>4, PlaceOfStage DEF PlaceFitsStage, CustodyInv
<1>13. place'[id] = Custody!In("root", u)
  BY <1>2, <1>9, <1>10, PlaceOfNextStage DEF PlaceFitsStage
<1>14. place' = [x \in TokenId |-> IF x \in {id} THEN Custody!In("root", u) ELSE place[x]]
  BY <1>2, <1>11, <1>13, OneTravels
<1>15. Custody!Arrive("toRoot", "root")
  <2>1. \A x \in {id} : place[x] = Custody!In("toRoot", u)
    BY <1>12
  <2> QED
    BY <1>2, <1>5, <1>14, <2>1 DEF Custody!Arrive
<1> QED
  BY <1>11, <1>15

-----------------------------------------------------------------------------
LEMMA CustodyInit == Init => CustodyInv /\ Custody!Init
<1> SUFFICES ASSUME Init PROVE CustodyInv /\ Custody!Init
  OBVIOUS
<1>1. TypeOK
  BY DEF Init, TypeOK
<1>2. \A id \in TokenId : Unborn(id)
  <2>1. Len(syncs) = 0 /\ Len(logs) = 0 /\ delivered = 0
    BY DEF Init
  <2>2. \A id \in TokenId : ~Minted(id) /\ PendingDeposits(id) = {} /\ OpenBurns(id) = {}
    BY <2>1 DEF Minted, PendingDeposits, OpenBurns
  <2> QED
    BY <2>2 DEF Init, Unborn, Quiet
<1>3. \A id \in TokenId : place[id] = Custody!Unborn
  BY <1>1, <1>2, PlaceOfStage DEF PlaceFitsStage
<1>4. place \in [TokenId -> {Custody!Unborn}]
  BY <1>3 DEF place
<1> QED
  BY <1>1, <1>2, <1>4 DEF CustodyInv, InOneStage, Custody!Init

LEMMA CustodyNext ==
  CustodyInv /\ [Next]_vars => CustodyInv' /\ [Custody!Next]_place
<1> SUFFICES ASSUME CustodyInv, [Next]_vars PROVE CustodyInv' /\ [Custody!Next]_place
  OBVIOUS
<1>1. TypeOK'
  BY TypeNext DEF CustodyInv
<1> SUFFICES (\A x \in TokenId : InOneStage(x)') /\ [Custody!Next]_place
  BY <1>1 DEF CustodyInv
<1>2. ASSUME NEW u \in User, NEW id \in TokenId, ChildMint(u, id)
      PROVE  (\A x \in TokenId : InOneStage(x)') /\ [Custody!Next]_place
  BY <1>1, <1>2, ChildMintStep DEF Custody!Next
<1>3. ASSUME NEW u \in User, NEW v \in User, NEW id \in TokenId, ChildTransfer(u, v, id)
      PROVE  (\A x \in TokenId : InOneStage(x)') /\ [Custody!Next]_place
  BY <1>1, <1>3, ChildTransferStep DEF Custody!Next
<1>4. ASSUME NEW u \in User, NEW id \in TokenId, Withdraw(u, id)
      PROVE  (\A x \in TokenId : InOneStage(x)') /\ [Custody!Next]_place
  BY <1>1, <1>4, WithdrawStep DEF Custody!Next
<1>5. ASSUME Deliver PROVE (\A x \in TokenId : InOneStage(x)') /\ [Custody!Next]_place
  BY <1>1, <1>5, DeliverStep DEF Custody!Next
<1>6. ASSUME SubmitCheckpoint
      PROVE  (\A x \in TokenId : InOneStage(x)') /\ [Custody!Next]_place
  BY <1>6, CheckpointStep
<1>7. ASSUME NEW u \in User, NEW v \in User \cup {Predicate}, NEW id \in TokenId,
             RootTransfer(u, v, id)
      PROVE  (\A x \in TokenId : InOneStage(x)') /\ [Custody!Next]_place
  BY <1>1, <1>7, RootTransferStep DEF Custody!Next
<1>8. ASSUME NEW u \in User, NEW v \in User, NEW id \in TokenId, DepositFor(u, v, id)
      PROVE  (\A x \in TokenId : InOneStage(x)') /\ [Custody!Next]_place
  BY <1>1, <1>8, DepositStep DEF Custody!Next
<1>9. ASSUME NEW i \in 1..Len(logs), Exit(i)
      PROVE  (\A x \in TokenId : InOneStage(x)') /\ [Custody!Next]_place
  BY <1>1, <1>9, ExitStep DEF Custody!Next
<1>10. CASE UNCHANGED vars
  <2>1. \A x \in TokenId : Untouched(x)
    BY <1>10 DEF vars, rootVars, childVars, Untouched, Minted, PendingDeposits, OpenBurns
  <2> QED
    BY <2>1, NoneMoves
<1> QED
  BY <1>2, <1>3, <1>4, <1>5, <1>6, <1>7, <1>8, <1>9, <1>10 DEF Next

THEOREM CustodyInvariant == Spec => []CustodyInv
<1> QED
  BY CustodyInit, CustodyNext, PTL DEF Spec

\* Type correctness.
THEOREM MintableTypeOK == Spec => []TypeOK
<1>1. CustodyInv => TypeOK
  BY DEF CustodyInv
<1> QED
  BY <1>1, CustodyInvariant, PTL

LEMMA StageMeansOneClaim ==
  CustodyInv => AtMostOneClaim /\ AlwaysClaimed /\ WithdrawnMeansAway
<1> SUFFICES ASSUME CustodyInv, NEW id \in TokenId
             PROVE  /\ \A x, y \in Claims(id) : x = y
                    /\ Minted(id) /\ id \notin sunk => Claims(id) # {}
                    /\ withdrawnTokens[id] <=> Minted(id) /\ childOwner[id] = NoOne
  BY DEF AtMostOneClaim, AlwaysClaimed, WithdrawnMeansAway
<1>1. InOneStage(id) /\ TypeOK
  BY DEF CustodyInv
<1>2. CASE Unborn(id)
  BY <1>1, <1>2, ClaimsOfStage DEF Unborn
<1>3. CASE OnChild(id)
  BY <1>1, <1>3, ClaimsOfStage, AccountAssumption DEF OnChild
<1>4. CASE OnRoot(id)
  BY <1>1, <1>4, ClaimsOfStage DEF OnRoot, Away
<1>5. CASE IsSunk(id)
  BY <1>1, <1>5, ClaimsOfStage DEF IsSunk, Away
<1>6. ASSUME NEW i \in Nat, ToChild(id, i)
      PROVE  /\ \A x, y \in Claims(id) : x = y
             /\ Claims(id) # {}
             /\ withdrawnTokens[id] <=> Minted(id) /\ childOwner[id] = NoOne
  BY <1>1, <1>6, ClaimsOfStage DEF ToChild, Away
<1>7. ASSUME NEW i \in Nat, ToRoot(id, i)
      PROVE  /\ \A x, y \in Claims(id) : x = y
             /\ Claims(id) # {}
             /\ withdrawnTokens[id] <=> Minted(id) /\ childOwner[id] = NoOne
  BY <1>1, <1>7, ClaimsOfStage DEF ToRoot, Away
<1> QED
  BY <1>1, <1>2, <1>3, <1>4, <1>5, <1>6, <1>7 DEF InOneStage

\* Across both chains and everything between them a token is never claimed
\* twice, and once minted never unclaimed unless its holder sank it.
THEOREM MintableCustody == Spec => []OneClaimEach
<1>1. AtMostOneClaim /\ AlwaysClaimed => OneClaimEach
  BY DEF OneClaimEach
<1> QED
  BY <1>1, StageMeansOneClaim, CustodyInvariant, PTL

\* The flag that guards the child chain's mint is set exactly while a minted
\* token is away from the child chain.
THEOREM MintableFlag == Spec => []WithdrawnMeansAway
<1> QED
  BY StageMeansOneClaim, CustodyInvariant, PTL

\* A delivered deposit always mints the token for its receiver.
THEOREM MintableDelivery == Spec => DeliveryMints
<1> DEFINE Mints == delivered' # delivered
                      => LET d == syncs[delivered + 1] IN childOwner'[d.id] = d.user
<1>1. ASSUME CustodyInv, Deliver PROVE Mints
  BY <1>1, DeliverMints DEF MoveOnChild, CustodyInv, TypeOK, Deposit
<1>2. CustodyInv /\ [Next]_vars => Mints
  BY <1>1 DEF Next, ChildMint, ChildTransfer, Withdraw, SubmitCheckpoint, RootTransfer,
              DepositFor, Exit, vars
<1> QED
  BY <1>2, CustodyInvariant, PTL DEF Spec, DeliveryMints

\* The bridge implements the custody of each token.
THEOREM MintableImplementsCustody == Spec => ImplementsCustody
<1> QED
  BY CustodyInit, CustodyNext, CustodyInvariant, PTL DEF Spec, ImplementsCustody, Custody!Spec

\* Whether burn i can be exited once it is in a checkpoint: Exit is enabled, and
\* what it pays is somebody's.
CanRelease(i) ==
  /\ rootOwner[logs[i].id] \in {Predicate, NoOne}
  /\ logs[i].from \in User

\* However often its token went back and forth before, a burn that was not exited yet
\* can be: the predicate has its token, or nobody has it and it is
\* minted.
THEOREM MintableReleasable ==
  Spec => [](\A id \in TokenId : \A i \in OpenBurns(id) : CanRelease(i))
<1>1. ASSUME CustodyInv, NEW id \in TokenId, NEW i \in OpenBurns(id)
      PROVE  CanRelease(i)
  <2>1. InOneStage(id) /\ logs[i].id = id
    BY <1>1 DEF CustodyInv, OpenBurns
  <2>2. ToRoot(id, i)
    BY <2>1 DEF InOneStage, Unborn, OnChild, OnRoot, IsSunk, ToChild, ToRoot, Quiet
  <2> QED
    BY <2>1, <2>2 DEF CanRelease, ToRoot
<1>2. CustodyInv => \A id \in TokenId : \A i \in OpenBurns(id) : CanRelease(i)
  BY <1>1
<1> QED
  BY <1>2, CustodyInvariant, PTL
=============================================================================
