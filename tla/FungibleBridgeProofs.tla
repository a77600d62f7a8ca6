------------------------- MODULE FungibleBridgeProofs -------------------------
(***************************************************************************)
(* The theorems about FungibleBridge.                                      *)
(***************************************************************************)
EXTENDS FungibleBridge, SumTheorems

-----------------------------------------------------------------------------
\* Totals of logs and syncs.

\* Amounts add up to a number.
LEMMA TotalType ==
  ASSUME NEW entries, NEW S, IsFiniteSet(S), NEW id,
         \A i \in S : entries[i].amounts[id] \in Nat
  PROVE  Total(entries, S, id) \in Nat
BY SumType DEF Total, SumFunction

\* A total depends on the entries it is of.
LEMMA TotalSame ==
  ASSUME NEW entries, NEW other, NEW S, NEW id,
         \A i \in S : other[i].amounts[id] = entries[i].amounts[id]
  PROVE  Total(other, S, id) = Total(entries, S, id)
<1>1. [i \in S |-> other[i].amounts[id]] = [i \in S |-> entries[i].amounts[id]]
  OBVIOUS
<1> QED
  BY <1>1 DEF Total

\* The total with an entry more.
LEMMA TotalAdd ==
  ASSUME NEW entries, NEW S, IsFiniteSet(S), NEW id, NEW j, j \notin S,
         \A i \in S \cup {j} : entries[i].amounts[id] \in Nat
  PROVE  Total(entries, S \cup {j}, id) = Total(entries, S, id) + entries[j].amounts[id]
<1> DEFINE f == [i \in S |-> entries[i].amounts[id]]
           g == [i \in S \cup {j} |-> entries[i].amounts[id]]
<1>1. SumFunctionOnSet(g, S \cup {j}) = SumFunctionOnSet(g, S) + g[j]
  BY SumAdd
<1>2. SumFunctionOnSet(g, S) = SumFunctionOnSet(f, S)
  BY SumEqual
<1>3. Total(entries, S, id) = SumFunctionOnSet(f, S)
  BY DEF Total, SumFunction
<1>4. Total(entries, S \cup {j}, id) = SumFunctionOnSet(g, S \cup {j})
  BY DEF Total, SumFunction
<1> QED
  BY <1>1, <1>2, <1>3, <1>4

\* The total with an entry less.
LEMMA TotalRemove ==
  ASSUME NEW entries, NEW S, IsFiniteSet(S), NEW id, NEW j \in S,
         \A i \in S : entries[i].amounts[id] \in Nat
  PROVE  Total(entries, S, id) = Total(entries, S \ {j}, id) + entries[j].amounts[id]
<1>1. (S \ {j}) \cup {j} = S
  OBVIOUS
<1>2. IsFiniteSet(S \ {j})
  BY FS_RemoveElement
<1>3. j \notin S \ {j} /\ \A i \in (S \ {j}) \cup {j} : entries[i].amounts[id] \in Nat
  OBVIOUS
<1>4. Total(entries, (S \ {j}) \cup {j}, id)
        = Total(entries, S \ {j}, id) + entries[j].amounts[id]
  BY <1>2, <1>3, TotalAdd
<1> QED
  BY <1>1, <1>4

\* The total of nothing.
LEMMA TotalEmpty ==
  ASSUME NEW entries, NEW id
  PROVE  Total(entries, {}, id) = 0
BY SumEmpty DEF Total, SumFunction

-----------------------------------------------------------------------------
\* Balances: in what follows, of the holders A, none above M.

\* A move keeps balances in range.
LEMMA MovedType ==
  ASSUME NEW M \in Nat, NEW A, NoOne \notin A, NEW balance \in [Id -> [A -> 0..M]],
         NEW from \in A \cup {NoOne}, NEW to \in A \cup {NoOne}, NEW x \in [Id -> Nat],
         from # NoOne => Enough(balance, from, x),
         to \notin {NoOne, from} => \A id \in Id : balance[id][to] + x[id] <= M
  PROVE  Moved(balance, from, to, x) \in [Id -> [A -> 0..M]]
<1> SUFFICES ASSUME NEW id \in Id, NEW a \in A
             PROVE  Moved(balance, from, to, x)[id][a] \in 0..M
  BY DEF Moved
<1>1. /\ balance[id][a] \in 0..M /\ x[id] \in Nat
      /\ a = from => balance[id][a] >= x[id]
  BY DEF Enough
<1>2. a = to /\ a # from => balance[id][a] + x[id] <= M
  OBVIOUS
<1>3. Moved(balance, from, to, x)[id][a]
        = LET debited == IF a = from THEN balance[id][a] - x[id] ELSE balance[id][a]
          IN  IF a = to THEN debited + x[id] ELSE debited
  BY DEF Moved
<1> QED
  BY <1>1, <1>2, <1>3

\* What a move leaves.
LEMMA MovedAt ==
  ASSUME NEW M \in Nat, NEW A, NoOne \notin A, NEW balance \in [Id -> [A -> 0..M]],
         NEW from, NEW to, NEW x \in [Id -> Nat], NEW id \in Id, NEW a \in A
  PROVE  Moved(balance, from, to, x)[id][a]
           = IF a = from THEN (IF a = to THEN balance[id][a] ELSE balance[id][a] - x[id])
             ELSE (IF a = to THEN balance[id][a] + x[id] ELSE balance[id][a])
<1>1. /\ balance[id][a] \in 0..M /\ x[id] \in Nat
  OBVIOUS
<1> QED
  BY <1>1 DEF Moved

\* A supply is a number, and bounds every balance.
LEMMA SupplyType ==
  ASSUME NEW A, IsFiniteSet(A), NEW M \in Nat, NEW balance \in [Id -> [A -> 0..M]], NEW id \in Id
  PROVE  /\ Supply(balance, id) \in Nat
         /\ \A a \in A : balance[id][a] <= Supply(balance, id)
<1>1. \A a \in A : balance[id][a] \in Nat
  OBVIOUS
<1>2. DOMAIN balance[id] = A
  OBVIOUS
<1> QED
  BY <1>1, <1>2, SumType, SumBounds DEF Supply, SumFunction

\* A move that the sender can pay for.
Movable(M, A, balance, from, to, x) ==
  /\ M \in Nat /\ IsFiniteSet(A) /\ NoOne \notin A
  /\ balance \in [Id -> [A -> 0..M]] /\ x \in [Id -> Nat]
  /\ from \in A \cup {NoOne} /\ to \in A \cup {NoOne}
  /\ from # NoOne => Enough(balance, from, x)

\* Only what comes from nobody or goes to nobody changes the supply.
LEMMA SupplyMoved ==
  ASSUME NEW M, NEW A, NEW balance, NEW from, NEW to, NEW x,
         Movable(M, A, balance, from, to, x), NEW id \in Id
  PROVE  /\ from # NoOne /\ to # NoOne =>
              Supply(Moved(balance, from, to, x), id) = Supply(balance, id)
         /\ from = NoOne /\ to # NoOne =>
              Supply(Moved(balance, from, to, x), id) = Supply(balance, id) + x[id]
         /\ from # NoOne /\ to = NoOne =>
              Supply(Moved(balance, from, to, x), id) + x[id] = Supply(balance, id)
<1>0. /\ M \in Nat /\ IsFiniteSet(A) /\ NoOne \notin A
      /\ balance \in [Id -> [A -> 0..M]] /\ x \in [Id -> Nat]
      /\ from \in A \cup {NoOne} /\ to \in A \cup {NoOne}
      /\ from # NoOne => Enough(balance, from, x)
  BY DEF Movable
<1> DEFINE f == balance[id]
           g == [a \in A |-> IF a = from THEN f[a] - x[id] ELSE f[a]]
           h == [a \in A |-> IF a = to THEN g[a] + x[id] ELSE g[a]]
<1>1. /\ f \in [A -> Nat] /\ x[id] \in Nat
      /\ from # NoOne => f[from] >= x[id]
  BY <1>0 DEF Enough
<1>2. g \in [A -> Nat] /\ h \in [A -> Nat]
  BY <1>0, <1>1
<1>3. Moved(balance, from, to, x)[id] = h
  BY <1>0 DEF Moved
<1>4. /\ Supply(balance, id) = SumFunctionOnSet(f, A)
      /\ Supply(Moved(balance, from, to, x), id) = SumFunctionOnSet(h, A)
  BY <1>0, <1>3 DEF Supply, SumFunction
<1>5. SumFunctionOnSet(g, A) + (IF from = NoOne THEN 0 ELSE x[id]) = SumFunctionOnSet(f, A)
  <2>1. CASE from = NoOne
    <3>1. \A a \in A : g[a] = f[a]
      BY <1>0, <2>1
    <3>2. SumFunctionOnSet(g, A) = SumFunctionOnSet(f, A)
      BY <1>1, <3>1, SumEqual, <1>0
    <3>3. SumFunctionOnSet(f, A) \in Nat
      BY <1>1, SumType, <1>0
    <3> QED
      BY <2>1, <3>2, <3>3
  <2>2. CASE from # NoOne
    <3>1. from \in A /\ g[from] = f[from] - x[id]
      BY <2>2, <1>0
    <3>2. \A a \in A \ {from} : g[a] = f[a]
      BY <1>0
    <3> HIDE DEF f, g, h
    <3>3. SumFunctionOnSet(g, A) + f[from] = SumFunctionOnSet(f, A) + g[from]
      BY <1>1, <1>2, <3>1, <3>2, SumChange, <1>0
    <3>4. SumFunctionOnSet(f, A) \in Nat /\ SumFunctionOnSet(g, A) \in Nat
      BY <1>1, <1>2, SumType, <1>0
    <3>5. f[from] \in Nat
      BY <1>1, <3>1
    <3>6. x[id] \in Nat
      BY <1>1
    <3>7. SumFunctionOnSet(g, A) + x[id] = SumFunctionOnSet(f, A)
      BY <3>1, <3>3, <3>4, <3>5, <3>6
    <3> QED
      BY <2>2, <3>7
  <2> QED
    BY <2>1, <2>2
<1>6. SumFunctionOnSet(h, A) = SumFunctionOnSet(g, A) + (IF to = NoOne THEN 0 ELSE x[id])
  <2>1. CASE to = NoOne
    <3>1. \A a \in A : h[a] = g[a]
      BY <1>0, <2>1
    <3>2. SumFunctionOnSet(h, A) = SumFunctionOnSet(g, A)
      BY <1>2, <3>1, SumEqual, <1>0
    <3>3. SumFunctionOnSet(g, A) \in Nat
      BY <1>2, SumType, <1>0
    <3> QED
      BY <2>1, <3>2, <3>3
  <2>2. CASE to # NoOne
    <3>1. to \in A /\ h[to] = g[to] + x[id]
      BY <2>2, <1>0
    <3>2. \A a \in A \ {to} : h[a] = g[a]
      BY <1>0
    <3> HIDE DEF f, g, h
    <3>3. SumFunctionOnSet(h, A) + g[to] = SumFunctionOnSet(g, A) + h[to]
      BY <1>2, <3>1, <3>2, SumChange, <1>0
    <3>4. SumFunctionOnSet(h, A) \in Nat /\ SumFunctionOnSet(g, A) \in Nat
      BY <1>2, SumType, <1>0
    <3>5. g[to] \in Nat
      BY <1>2, <3>1
    <3>6. x[id] \in Nat
      BY <1>1
    <3>7. SumFunctionOnSet(h, A) = SumFunctionOnSet(g, A) + x[id]
      BY <3>1, <3>3, <3>4, <3>5, <3>6
    <3> QED
      BY <2>2, <3>7
  <2> QED
    BY <2>1, <2>2
<1>7. SumFunctionOnSet(g, A) \in Nat /\ SumFunctionOnSet(f, A) \in Nat
  BY <1>1, <1>2, SumType, <1>0
<1> HIDE DEF f, g, h
<1> QED
  BY <1>1, <1>4, <1>5, <1>6, <1>7

-----------------------------------------------------------------------------
\* The inductive invariant.  Burns are somebody's; that the predicate holds what
\* is owed also bounds what was given away, and what a deposit can still add.

Holder == User \cup {Predicate}

BurnsHaveHolders == \A i \in 1..Len(logs) : logs[i].to = NoOne => logs[i].from \in User

IInv == TypeOK /\ Backed /\ BurnsHaveHolders

\* What the invariant says of the numbers and the sets they are summed over.
LEMMA Facts ==
  ASSUME TypeOK
  PROVE  /\ MaxUint[standard] \in Nat \ {0}
         /\ Amounts \subseteq [Id -> Nat]
         /\ Amounts \subseteq [Id -> 0..MaxUint[standard]]
         /\ NoOne \notin Holder /\ NoOne \notin User /\ Predicate \notin User
         /\ IsFiniteSet(User) /\ IsFiniteSet(Holder)
         /\ IsFiniteSet(PendingDeposits) /\ IsFiniteSet(OpenBurns)
         /\ Len(logs) \in Nat /\ Len(syncs) \in Nat /\ delivered \in Nat
         /\ \A i \in 1..Len(syncs) : syncs[i].user \in User /\ syncs[i].amounts \in Amounts
         /\ \A i \in 1..Len(logs) : /\ logs[i].from \in User \cup {NoOne}
                                   /\ logs[i].to \in User \cup {NoOne}
                                   /\ logs[i].amounts \in Amounts
<1>1. MaxUint[standard] \in Nat \ {0}
  BY FungibleAssumption DEF TypeOK
<1>2. Amounts \subseteq [Id -> 0..MaxUint[standard]]
  BY DEF Amounts, AmountsOf
<1>3. Amounts \subseteq [Id -> Nat]
  BY <1>1, <1>2
<1>4. NoOne \notin Holder /\ NoOne \notin User /\ Predicate \notin User /\ IsFiniteSet(User)
  BY FungibleAssumption DEF Holder
<1>5. IsFiniteSet(Holder)
  BY <1>4, FS_AddElement DEF Holder
<1>6. Len(logs) \in Nat /\ Len(syncs) \in Nat /\ delivered \in Nat
  BY DEF TypeOK
<1>7. IsFiniteSet(PendingDeposits)
  BY <1>6, FS_Interval DEF PendingDeposits
<1>8. IsFiniteSet(OpenBurns)
  <2>1. IsFiniteSet(1..Len(logs))
    BY <1>6, FS_Interval
  <2>2. OpenBurns \in SUBSET (1..Len(logs))
    BY DEF OpenBurns
  <2> QED
    BY <2>1, <2>2, FS_Subset
<1>9. \A i \in 1..Len(syncs) : syncs[i].user \in User /\ syncs[i].amounts \in Amounts
  <2> SUFFICES ASSUME NEW i \in 1..Len(syncs) PROVE syncs[i] \in Deposit
    BY DEF Deposit
  <2> QED
    BY DEF TypeOK
<1>10. \A i \in 1..Len(logs) : /\ logs[i].from \in User \cup {NoOne}
                             /\ logs[i].to \in User \cup {NoOne}
                             /\ logs[i].amounts \in Amounts
  <2> SUFFICES ASSUME NEW i \in 1..Len(logs) PROVE logs[i] \in Log
    BY DEF Log
  <2> QED
    BY DEF TypeOK
<1> QED
  BY <1>1, <1>2, <1>3, <1>4, <1>5, <1>6, <1>7, <1>8, <1>9, <1>10

\* The sums of Backed are numbers.
LEMMA SumsAreNumbers ==
  ASSUME TypeOK, NEW id \in Id
  PROVE  /\ Supply(childBalance, id) \in Nat
         /\ Total(syncs, PendingDeposits, id) \in Nat
         /\ Total(logs, OpenBurns, id) \in Nat
         /\ rootBalance[id][Predicate] \in 0..MaxUint[standard]
         /\ sunk[id] \in Nat
<1>1. Supply(childBalance, id) \in Nat
  BY Facts, SupplyType DEF TypeOK
<1>2. \A i \in PendingDeposits : syncs[i].amounts[id] \in Nat
  BY Facts DEF PendingDeposits
<1>3. \A i \in OpenBurns : logs[i].amounts[id] \in Nat
  BY Facts DEF OpenBurns
<1>4. rootBalance[id][Predicate] \in 0..MaxUint[standard] /\ sunk[id] \in Nat
  BY Facts DEF TypeOK
<1> QED
  BY <1>1, <1>2, <1>3, <1>4, Facts, TotalType

\* The amounts that may move are the same after a step that keeps the standard.
LEMMA SameTypes ==
  ASSUME standard' = standard
  PROVE  /\ Amounts' = Amounts /\ Log' = Log /\ Deposit' = Deposit
         /\ MaxUint[standard]' = MaxUint[standard]
BY DEF Amounts, Log, Deposit

-----------------------------------------------------------------------------
\* The child chain.

\* A move on the child chain: balances stay in range, one log more, and the
\* supply is what minting and burning make of it.
LEMMA ChildMove ==
  ASSUME TypeOK, NEW from \in User \cup {NoOne}, NEW to \in User \cup {NoOne},
         NEW x \in Amounts, MoveOnChild(from, to, x)
  PROVE  /\ childBalance' \in [Id -> [User -> 0..MaxUint[standard]]]
         /\ logs' \in Seq(Log) /\ Len(logs') = Len(logs) + 1
         /\ \A i \in 1..Len(logs) : logs'[i] = logs[i]
         /\ logs'[Len(logs) + 1] = [from |-> from, to |-> to, amounts |-> x]
         /\ \A id \in Id :
              /\ from # NoOne /\ to # NoOne =>
                   Supply(childBalance', id) = Supply(childBalance, id)
              /\ from = NoOne /\ to # NoOne =>
                   Supply(childBalance', id) = Supply(childBalance, id) + x[id]
              /\ from # NoOne /\ to = NoOne =>
                   Supply(childBalance', id) + x[id] = Supply(childBalance, id)
<1>1. /\ childBalance' = Moved(childBalance, from, to, x)
      /\ from # NoOne => Enough(childBalance, from, x)
      /\ to # NoOne => Fits(childBalance, from, to, x)
      /\ logs' = Append(logs, [from |-> from, to |-> to, amounts |-> x])
  BY DEF MoveOnChild, Transfer
<1>2. /\ childBalance \in [Id -> [User -> 0..MaxUint[standard]]] /\ logs \in Seq(Log)
      /\ x \in [Id -> Nat] /\ MaxUint[standard] \in Nat
      /\ NoOne \notin User /\ IsFiniteSet(User)
  BY Facts DEF TypeOK
<1>3. to \notin {NoOne, from} => \A id \in Id : childBalance[id][to] + x[id] <= MaxUint[standard]
  BY <1>1 DEF Fits
<1>4. childBalance' \in [Id -> [User -> 0..MaxUint[standard]]]
  BY <1>1, <1>2, <1>3, MovedType
<1>5. ASSUME NEW id \in Id
      PROVE  /\ from # NoOne /\ to # NoOne =>
                  Supply(childBalance', id) = Supply(childBalance, id)
             /\ from = NoOne /\ to # NoOne =>
                  Supply(childBalance', id) = Supply(childBalance, id) + x[id]
             /\ from # NoOne /\ to = NoOne =>
                  Supply(childBalance', id) + x[id] = Supply(childBalance, id)
  <2>1. PICK M : M = MaxUint[standard]
    OBVIOUS
  <2>2. Movable(M, User, childBalance, from, to, x)
    BY <1>1, <1>2, <2>1 DEF Movable
  <2>3. /\ from # NoOne /\ to # NoOne =>
             Supply(Moved(childBalance, from, to, x), id) = Supply(childBalance, id)
        /\ from = NoOne /\ to # NoOne =>
             Supply(Moved(childBalance, from, to, x), id) = Supply(childBalance, id) + x[id]
        /\ from # NoOne /\ to = NoOne =>
             Supply(Moved(childBalance, from, to, x), id) + x[id] = Supply(childBalance, id)
    BY ONLY <2>2, SupplyMoved, id \in Id
  <2> QED
    BY <1>1, <2>3
<1>6. [from |-> from, to |-> to, amounts |-> x] \in Log
  BY DEF Log
<1>7. /\ logs' \in Seq(Log) /\ Len(logs') = Len(logs) + 1
      /\ \A i \in 1..Len(logs) : logs'[i] = logs[i]
      /\ logs'[Len(logs) + 1] = [from |-> from, to |-> to, amounts |-> x]
  BY <1>1, <1>2, <1>6
<1> QED
  BY <1>4, <1>5, <1>7

\* After a move that is no burn, the same burns are open, with the same amounts;
\* after a burn, one more.
LEMMA ChildMoveBurns ==
  ASSUME TypeOK, BurnsHaveHolders, NEW from \in User \cup {NoOne},
         NEW to \in User \cup {NoOne}, NEW x \in Amounts, MoveOnChild(from, to, x),
         to = NoOne => from \in User, processedExits' = processedExits
  PROVE  /\ BurnsHaveHolders'
         /\ processedExits \subseteq 1..Len(logs)
         /\ OpenBurns' = OpenBurns \cup (IF to = NoOne THEN {Len(logs) + 1} ELSE {})
         /\ \A id \in Id : Total(logs', OpenBurns', id)
              = Total(logs, OpenBurns, id) + (IF to = NoOne THEN x[id] ELSE 0)
<1>n. PICK n, m : n = Len(logs) /\ m = n + 1
  OBVIOUS
<1>1. /\ n \in Nat /\ m \in Nat /\ Len(logs') = m /\ \A i \in 1..n : logs'[i] = logs[i]
      /\ logs'[m] = [from |-> from, to |-> to, amounts |-> x]
  BY <1>n, Facts, ChildMove
<1>2. processedExits \subseteq 1..n
  BY <1>n DEF TypeOK
<1>3. 1..m = (1..n) \cup {m} /\ m \notin 1..n
  BY <1>n, <1>1
<1>4. BurnsHaveHolders'
  BY <1>n, <1>1, <1>3 DEF BurnsHaveHolders
<1>5. OpenBurns' = OpenBurns \cup (IF to = NoOne THEN {m} ELSE {})
  <2>1. OpenBurns' = {i \in (1..m) \ processedExits : logs'[i].to = NoOne}
    BY <1>1 DEF OpenBurns
  <2>2. OpenBurns = {i \in (1..n) \ processedExits : logs[i].to = NoOne}
    BY <1>n DEF OpenBurns
  <2> QED
    BY <1>1, <1>2, <1>3, <2>1, <2>2
<1>6. ASSUME NEW id \in Id
      PROVE  Total(logs', OpenBurns', id)
               = Total(logs, OpenBurns, id) + (IF to = NoOne THEN x[id] ELSE 0)
  <2>1. m \notin OpenBurns /\ OpenBurns \subseteq 1..n
    BY <1>n, <1>3 DEF OpenBurns
  <2>2. Total(logs', OpenBurns, id) = Total(logs, OpenBurns, id)
    <3>1. \A i \in OpenBurns : logs'[i].amounts[id] = logs[i].amounts[id]
      BY <1>1, <2>1
    <3> QED
      BY <3>1, TotalSame
  <2>3. \A i \in OpenBurns \cup {m} : logs'[i].amounts[id] \in Nat
    BY <1>n, <1>1, <2>1, Facts
  <2>4. IsFiniteSet(OpenBurns)
    BY Facts
  <2>5. Total(logs', OpenBurns \cup {m}, id) = Total(logs', OpenBurns, id) + x[id]
    <3>1. logs'[m].amounts[id] = x[id]
      BY <1>1
    <3>2. m \notin OpenBurns
      BY <2>1
    <3>3. Total(logs', OpenBurns \cup {m}, id)
            = Total(logs', OpenBurns, id) + logs'[m].amounts[id]
      BY ONLY <3>2, <2>3, <2>4, TotalAdd
    <3> QED
      BY ONLY <3>1, <3>3
  <2>6. CASE to = NoOne
    BY <1>5, <2>2, <2>5, <2>6
  <2>7. CASE to # NoOne
    <3>1. OpenBurns' = OpenBurns
      BY <1>5, <2>7
    <3>2. Total(logs, OpenBurns, id) \in Nat
      BY SumsAreNumbers
    <3> QED
      BY <2>2, <2>7, <3>1, <3>2
  <2> QED
    BY <2>6, <2>7
<1> QED
  BY <1>2, <1>4, <1>5, <1>6, <1>n

\* A transfer or a burn on the child chain keeps the invariant.
LEMMA ChildKeeps ==
  ASSUME IInv, standard' = standard, NEW u \in User, NEW to \in User \cup {NoOne},
         NEW x \in Amounts, MoveOnChild(u, to, x),
         UNCHANGED <<rootVars, delivered, checkpointed>>
  PROVE  IInv'
<1>1. TypeOK /\ Backed /\ BurnsHaveHolders /\ u # NoOne
  BY Facts DEF IInv
<1>2. /\ childBalance' \in [Id -> [User -> 0..MaxUint[standard]]]
      /\ logs' \in Seq(Log) /\ Len(logs') = Len(logs) + 1
      /\ \A id \in Id :
           /\ to # NoOne => Supply(childBalance', id) = Supply(childBalance, id)
           /\ to = NoOne => Supply(childBalance', id) + x[id] = Supply(childBalance, id)
  BY <1>1, ChildMove, u \in User \cup {NoOne}
<1>3. /\ rootBalance' = rootBalance /\ processedExits' = processedExits
      /\ syncs' = syncs /\ sunk' = sunk /\ delivered' = delivered
      /\ checkpointed' = checkpointed
  BY DEF rootVars
<1>4. /\ BurnsHaveHolders' /\ processedExits \subseteq 1..Len(logs)
      /\ \A id \in Id : Total(logs', OpenBurns', id)
                         = Total(logs, OpenBurns, id) + (IF to = NoOne THEN x[id] ELSE 0)
  BY <1>1, <1>3, ChildMoveBurns
<1>5. TypeOK'
  <2>1. processedExits' \subseteq 1..Len(logs') /\ checkpointed' \in 0..Len(logs')
    BY <1>1, <1>2, <1>3, <1>4, Facts DEF TypeOK
  <2>2. MaxUint[standard'] = MaxUint[standard] /\ standard' \in Standard
    BY <1>1 DEF TypeOK
  <2>3. /\ rootBalance' \in [Id -> [User \cup {Predicate} -> 0..MaxUint[standard']]]
        /\ sunk' \in [Id -> 0..MaxUint[standard']]
    BY <1>1, <1>3, <2>2 DEF TypeOK
  <2>4. syncs' \in Seq(Deposit') /\ delivered' \in 0..Len(syncs') /\ logs' \in Seq(Log')
    BY <1>1, <1>2, <1>3, SameTypes DEF TypeOK
  <2> QED
    BY <1>2, <2>1, <2>2, <2>3, <2>4 DEF TypeOK
<1>6. Backed'
  <2> SUFFICES ASSUME NEW id \in Id
               PROVE  rootBalance[id][Predicate]
                        = Supply(childBalance', id) + Total(syncs, PendingDeposits, id)
                          + Total(logs', OpenBurns', id) + sunk[id]
    BY <1>3 DEF Backed, PendingDeposits
  <2>1. x[id] \in Nat
    BY <1>1, Facts
  <2>2. Supply(childBalance', id) \in Nat
    BY <1>2, <1>1, Facts, SupplyType
  <2>3. rootBalance[id][Predicate]
          = Supply(childBalance, id) + Total(syncs, PendingDeposits, id)
            + Total(logs, OpenBurns, id) + sunk[id]
    BY <1>1 DEF Backed
  <2> QED
    BY <1>1, <1>2, <1>4, <2>1, <2>2, <2>3, SumsAreNumbers
<1> QED
  BY <1>4, <1>5, <1>6 DEF IInv

\* A deposit on its way fits: its amounts are among what the predicate holds, of
\* which no more than MaxUint can be.
LEMMA PendingFits ==
  ASSUME TypeOK, Backed, NEW i \in PendingDeposits
  PROVE  Fits(childBalance, NoOne, syncs[i].user, syncs[i].amounts)
<1> SUFFICES ASSUME NEW id \in Id
             PROVE  /\ childBalance[id][syncs[i].user] + syncs[i].amounts[id] <= MaxUint[standard]
                    /\ Supply(childBalance, id) + syncs[i].amounts[id] <= MaxUint[standard]
  BY DEF Fits
<1>1. i \in 1..Len(syncs) /\ \A j \in PendingDeposits : j \in 1..Len(syncs)
  BY Facts DEF PendingDeposits
<1>2. \A j \in PendingDeposits : syncs[j].amounts[id] \in Nat
  BY <1>1, Facts
<1>3. Total(syncs, PendingDeposits, id)
        = Total(syncs, PendingDeposits \ {i}, id) + syncs[i].amounts[id]
  BY <1>2, Facts, TotalRemove
<1>4. Total(syncs, PendingDeposits \ {i}, id) \in Nat
  BY <1>2, Facts, FS_RemoveElement, TotalType
<1>5. rootBalance[id][Predicate]
        = Supply(childBalance, id) + Total(syncs, PendingDeposits, id)
          + Total(logs, OpenBurns, id) + sunk[id]
  BY DEF Backed
<1>6. /\ rootBalance[id][Predicate] \in Nat
      /\ rootBalance[id][Predicate] <= MaxUint[standard]
  BY SumsAreNumbers, Facts
<1>7. childBalance[id][syncs[i].user] <= Supply(childBalance, id)
  BY <1>1, Facts, SupplyType DEF TypeOK
<1>8. childBalance[id][syncs[i].user] \in Nat /\ MaxUint[standard] \in Nat
  <2>1. childBalance[id] \in [User -> 0..MaxUint[standard]] /\ syncs[i].user \in User
    BY <1>1, Facts DEF TypeOK
  <2> QED
    BY <2>1, Facts
<1>9. /\ Supply(childBalance, id) \in Nat /\ Total(logs, OpenBurns, id) \in Nat
      /\ sunk[id] \in Nat /\ syncs[i].amounts[id] \in Nat
  BY <1>2, SumsAreNumbers
<1>10. Supply(childBalance, id) + syncs[i].amounts[id] <= MaxUint[standard]
  BY <1>3, <1>4, <1>5, <1>6, <1>8, <1>9
<1> QED
  BY <1>7, <1>8, <1>9, <1>10

\* The deposit that is delivered leaves those on their way, with its amounts.
LEMMA DeliverPending ==
  ASSUME TypeOK, delivered < Len(syncs), delivered' = delivered + 1, syncs' = syncs
  PROVE  /\ delivered + 1 \in PendingDeposits /\ delivered + 1 \in 1..Len(syncs)
         /\ PendingDeposits' = PendingDeposits \ {delivered + 1}
         /\ \A id \in Id : Total(syncs, PendingDeposits, id)
              = Total(syncs, PendingDeposits', id) + syncs[delivered + 1].amounts[id]
         /\ \A id \in Id : Total(syncs, PendingDeposits', id) \in Nat
<1>n. PICK n : n = delivered + 1
  OBVIOUS
<1>1. delivered \in Nat /\ Len(syncs) \in Nat
  BY Facts
<1>2. n \in PendingDeposits /\ n \in 1..Len(syncs)
  BY <1>n, <1>1 DEF PendingDeposits
<1>3. PendingDeposits' = PendingDeposits \ {n}
  BY <1>n, <1>1 DEF PendingDeposits
<1>4. PendingDeposits \subseteq 1..Len(syncs)
  BY <1>1 DEF PendingDeposits
<1>5. \A id \in Id : \A i \in PendingDeposits : syncs[i].amounts[id] \in Nat
  BY <1>4, Facts
<1>6. IsFiniteSet(PendingDeposits) /\ IsFiniteSet(PendingDeposits \ {n})
  BY Facts, FS_RemoveElement
<1>7. ASSUME NEW id \in Id
      PROVE  /\ Total(syncs, PendingDeposits, id)
                   = Total(syncs, PendingDeposits \ {n}, id) + syncs[n].amounts[id]
             /\ Total(syncs, PendingDeposits \ {n}, id) \in Nat
  BY <1>2, <1>5, <1>6, TotalRemove, TotalType
<1> QED
  BY <1>n, <1>2, <1>3, <1>7

\* What is delivered is minted.
LEMMA DeliverMints ==
  ASSUME TypeOK, Backed, Deliver
  PROVE  /\ delivered < Len(syncs) /\ delivered' = delivered + 1
         /\ MoveOnChild(NoOne, syncs[delivered + 1].user, syncs[delivered + 1].amounts)
         /\ UNCHANGED <<rootVars, checkpointed>>
<1>1. /\ delivered < Len(syncs) /\ delivered' = delivered + 1
      /\ UNCHANGED <<rootVars, checkpointed>>
  BY DEF Deliver
<1>2. delivered + 1 \in PendingDeposits
  BY <1>1, DeliverPending DEF rootVars
<1>3. Fits(childBalance, NoOne, syncs[delivered + 1].user, syncs[delivered + 1].amounts)
  BY <1>2, PendingFits
<1>4. MoveOnChild(NoOne, syncs[delivered + 1].user, syncs[delivered + 1].amounts)
  BY <1>3 DEF Deliver, MoveOnChild
<1> QED
  BY <1>1, <1>4

\* A delivery keeps the invariant: what was on its way exists.
LEMMA DeliverKeeps ==
  ASSUME IInv, standard' = standard, Deliver
  PROVE  IInv'
<1>n. PICK n, d : n = delivered + 1 /\ d = syncs[n]
  OBVIOUS
<1>1. TypeOK /\ Backed /\ BurnsHaveHolders
  BY DEF IInv
<1>2. /\ delivered < Len(syncs) /\ delivered' = n
      /\ rootBalance' = rootBalance /\ processedExits' = processedExits
      /\ syncs' = syncs /\ sunk' = sunk /\ checkpointed' = checkpointed
  BY <1>n, <1>1, DeliverMints DEF rootVars
<1>3. MoveOnChild(NoOne, d.user, d.amounts)
  BY <1>n, <1>1, DeliverMints DEF MoveOnChild
<1>4. /\ n \in 1..Len(syncs)
      /\ \A id \in Id : /\ Total(syncs, PendingDeposits, id)
                            = Total(syncs, PendingDeposits', id) + d.amounts[id]
                       /\ Total(syncs, PendingDeposits', id) \in Nat
  BY <1>n, <1>1, <1>2, DeliverPending
<1>5. /\ d.user \in User /\ d.amounts \in Amounts /\ d.user # NoOne
      /\ d.user \in User \cup {NoOne} /\ NoOne \in User \cup {NoOne}
  BY <1>n, <1>1, <1>4, Facts
<1>6. /\ childBalance' \in [Id -> [User -> 0..MaxUint[standard]]]
      /\ logs' \in Seq(Log) /\ Len(logs') = Len(logs) + 1
      /\ \A id \in Id : Supply(childBalance', id) = Supply(childBalance, id) + d.amounts[id]
  BY <1>1, <1>3, <1>5, ChildMove
<1>7. /\ BurnsHaveHolders' /\ processedExits \subseteq 1..Len(logs)
      /\ \A id \in Id : Total(logs', OpenBurns', id) = Total(logs, OpenBurns, id) + 0
  BY <1>1, <1>2, <1>3, <1>5, ChildMoveBurns
<1>8. TypeOK'
  <2>1. processedExits' \subseteq 1..Len(logs') /\ checkpointed' \in 0..Len(logs')
    BY <1>1, <1>2, <1>6, <1>7, Facts DEF TypeOK
  <2>2. MaxUint[standard'] = MaxUint[standard] /\ standard' \in Standard
    BY <1>1 DEF TypeOK
  <2>3. /\ rootBalance' \in [Id -> [User \cup {Predicate} -> 0..MaxUint[standard']]]
        /\ sunk' \in [Id -> 0..MaxUint[standard']]
    BY <1>1, <1>2, <2>2 DEF TypeOK
  <2>4. syncs' \in Seq(Deposit') /\ delivered' \in 0..Len(syncs') /\ logs' \in Seq(Log')
    BY <1>1, <1>2, <1>4, <1>6, SameTypes DEF TypeOK
  <2> QED
    BY <1>6, <2>1, <2>2, <2>3, <2>4 DEF TypeOK
<1>9. Backed'
  <2> SUFFICES ASSUME NEW id \in Id
               PROVE  rootBalance[id][Predicate]
                        = Supply(childBalance', id) + Total(syncs, PendingDeposits', id)
                          + Total(logs', OpenBurns', id) + sunk[id]
    BY <1>2 DEF Backed
  <2>1. d.amounts[id] \in Nat
    BY <1>1, <1>5, Facts
  <2>2. rootBalance[id][Predicate]
          = Supply(childBalance, id) + Total(syncs, PendingDeposits, id)
            + Total(logs, OpenBurns, id) + sunk[id]
    BY <1>1 DEF Backed
  <2>3. /\ Supply(childBalance, id) \in Nat /\ Total(logs, OpenBurns, id) \in Nat
        /\ sunk[id] \in Nat
    BY <1>1, SumsAreNumbers
  <2>4. /\ Total(syncs, PendingDeposits, id) = Total(syncs, PendingDeposits', id) + d.amounts[id]
        /\ Total(syncs, PendingDeposits', id) \in Nat
        /\ Supply(childBalance', id) = Supply(childBalance, id) + d.amounts[id]
        /\ Total(logs', OpenBurns', id) = Total(logs, OpenBurns, id) + 0
    BY <1>4, <1>6, <1>7
  <2> QED
    BY <2>1, <2>2, <2>3, <2>4
<1> QED
  BY <1>7, <1>8, <1>9 DEF IInv

\* A checkpoint changes nothing of what the invariant is about.
LEMMA SubmitCheckpointKeeps ==
  ASSUME IInv, standard' = standard, SubmitCheckpoint
  PROVE  IInv'
<1>1. /\ checkpointed' \in (checkpointed + 1)..Len(logs)
      /\ rootBalance' = rootBalance /\ processedExits' = processedExits
      /\ syncs' = syncs /\ sunk' = sunk /\ childBalance' = childBalance /\ logs' = logs
      /\ delivered' = delivered
  BY DEF SubmitCheckpoint, rootVars, childVars
<1>2. checkpointed' \in 0..Len(logs)
  BY <1>1 DEF IInv, TypeOK
<1>3. TypeOK'
  BY <1>1, <1>2, SameTypes DEF IInv, TypeOK
<1>4. Backed' /\ BurnsHaveHolders'
  BY <1>1 DEF IInv, Backed, BurnsHaveHolders, PendingDeposits, OpenBurns
<1> QED
  BY <1>3, <1>4 DEF IInv

-----------------------------------------------------------------------------
\* The root chain.

\* A move on the root chain: balances stay in range, and what it does to what
\* the predicate holds and to the supply.
LEMMA RootMove ==
  ASSUME TypeOK, NEW from \in Holder \cup {NoOne}, NEW to \in Holder \cup {NoOne},
         NEW x \in Amounts, Transfer(rootBalance, from, to, x)
  PROVE  /\ rootBalance' = Moved(rootBalance, from, to, x)
         /\ rootBalance' \in [Id -> [Holder -> 0..MaxUint[standard]]]
         /\ from # NoOne => Enough(rootBalance, from, x)
         /\ \A id \in Id :
              /\ Predicate \notin {from, to} =>
                   rootBalance'[id][Predicate] = rootBalance[id][Predicate]
              /\ from # Predicate /\ to = Predicate =>
                   rootBalance'[id][Predicate] = rootBalance[id][Predicate] + x[id]
              /\ from = Predicate /\ to # Predicate =>
                   rootBalance'[id][Predicate] = rootBalance[id][Predicate] - x[id]
<1>1. /\ rootBalance' = Moved(rootBalance, from, to, x)
      /\ from # NoOne => Enough(rootBalance, from, x)
      /\ to # NoOne => Fits(rootBalance, from, to, x)
  BY DEF Transfer
<1>2. /\ rootBalance \in [Id -> [Holder -> 0..MaxUint[standard]]]
      /\ x \in [Id -> Nat] /\ MaxUint[standard] \in Nat /\ NoOne \notin Holder
      /\ Predicate \in Holder
  BY Facts DEF TypeOK, Holder
<1>3. to \notin {NoOne, from} => \A id \in Id : rootBalance[id][to] + x[id] <= MaxUint[standard]
  BY <1>1 DEF Fits
<1>4. rootBalance' \in [Id -> [Holder -> 0..MaxUint[standard]]]
  BY <1>1, <1>2, <1>3, MovedType
<1>5. ASSUME NEW id \in Id
      PROVE  rootBalance'[id][Predicate]
               = IF Predicate = from
                 THEN (IF Predicate = to THEN rootBalance[id][Predicate]
                                         ELSE rootBalance[id][Predicate] - x[id])
                 ELSE (IF Predicate = to THEN rootBalance[id][Predicate] + x[id]
                                         ELSE rootBalance[id][Predicate])
  <2>1. PICK M : M = MaxUint[standard]
    OBVIOUS
  <2>2. /\ M \in Nat /\ NoOne \notin Holder /\ Predicate \in Holder
        /\ rootBalance \in [Id -> [Holder -> 0..M]] /\ x \in [Id -> Nat]
    BY <1>2, <2>1
  <2>3. Moved(rootBalance, from, to, x)[id][Predicate]
          = IF Predicate = from
            THEN (IF Predicate = to THEN rootBalance[id][Predicate]
                                    ELSE rootBalance[id][Predicate] - x[id])
            ELSE (IF Predicate = to THEN rootBalance[id][Predicate] + x[id]
                                    ELSE rootBalance[id][Predicate])
    BY ONLY <2>2, MovedAt, id \in Id
  <2> QED
    BY <1>1, <2>3
<1> QED
  BY <1>1, <1>4, <1>5

\* A step of the root chain that keeps the child chain keeps the type, if what
\* it does to the rest is right.
LEMMA RootKeepsType ==
  ASSUME TypeOK, standard' = standard, UNCHANGED <<childVars, delivered, checkpointed>>,
         rootBalance' \in [Id -> [Holder -> 0..MaxUint[standard]]],
         processedExits' \subseteq 1..Len(logs),
         syncs' \in Seq(Deposit), Len(syncs) <= Len(syncs'),
         sunk' \in [Id -> Nat], Backed'
  PROVE  TypeOK'
<1>1. /\ childBalance' = childBalance /\ logs' = logs /\ delivered' = delivered
      /\ checkpointed' = checkpointed /\ MaxUint[standard'] = MaxUint[standard]
  BY DEF childVars
<1>2. delivered' \in 0..Len(syncs')
  BY <1>1 DEF TypeOK
<1>3. childBalance' \in [Id -> [User -> 0..MaxUint[standard']]] /\ logs' \in Seq(Log')
  BY <1>1, SameTypes DEF TypeOK
<1>4. rootBalance' \in [Id -> [User \cup {Predicate} -> 0..MaxUint[standard']]]
  BY <1>1 DEF Holder
<1>5. sunk' \in [Id -> 0..MaxUint[standard']]
  <2> SUFFICES ASSUME NEW id \in Id PROVE sunk'[id] <= MaxUint[standard]
    BY <1>1, Facts
  <2>1. rootBalance'[id][Predicate]
          = Supply(childBalance, id) + Total(syncs', PendingDeposits', id)
            + Total(logs, OpenBurns', id) + sunk'[id]
    BY <1>1 DEF Backed
  <2>2. rootBalance'[id][Predicate] \in Nat /\ rootBalance'[id][Predicate] <= MaxUint[standard]
    <3>1. rootBalance'[id] \in [Holder -> 0..MaxUint[standard]] /\ Predicate \in Holder
      BY DEF Holder
    <3> QED
      BY <3>1, Facts
  <2>3. Supply(childBalance, id) \in Nat
    BY SumsAreNumbers
  <2>4. Total(syncs', PendingDeposits', id) \in Nat
    <3>1. PendingDeposits' = (delivered + 1)..Len(syncs')
      BY <1>1 DEF PendingDeposits
    <3>2. delivered \in Nat /\ Len(syncs') \in Nat
      BY Facts
    <3>3. IsFiniteSet(PendingDeposits')
      BY <3>1, <3>2, FS_Interval
    <3>4. ASSUME NEW i \in PendingDeposits' PROVE syncs'[i].amounts[id] \in Nat
      <4>1. syncs'[i] \in Deposit
        BY <3>1, <3>2
      <4>2. syncs'[i].amounts \in Amounts
        BY <4>1 DEF Deposit
      <4> QED
        BY <4>2, Facts
    <3> QED
      BY <3>3, <3>4, TotalType
  <2>5. Total(logs, OpenBurns', id) \in Nat
    <3>1. OpenBurns' \in SUBSET (1..Len(logs))
      BY <1>1 DEF OpenBurns
    <3>2. IsFiniteSet(OpenBurns')
      <4>1. IsFiniteSet(1..Len(logs))
        BY Facts, FS_Interval
      <4> QED
        BY <3>1, <4>1, FS_Subset
    <3>3. \A i \in OpenBurns' : logs[i].amounts[id] \in Nat
      BY <3>1, Facts
    <3> QED
      BY <3>2, <3>3, TotalType
  <2>6. sunk'[id] \in Nat /\ MaxUint[standard] \in Nat
    BY Facts
  <2> QED
    BY <2>1, <2>2, <2>3, <2>4, <2>5, <2>6
<1>6. processedExits' \subseteq 1..Len(logs') /\ checkpointed' \in 0..Len(logs')
  BY <1>1 DEF TypeOK
<1>7. standard' \in Standard /\ syncs' \in Seq(Deposit')
  BY SameTypes DEF TypeOK
<1> QED
  BY <1>2, <1>3, <1>4, <1>5, <1>6, <1>7 DEF TypeOK

\* Money that is minted on the root chain is not the predicate's.
LEMMA RootMintKeeps ==
  ASSUME IInv, standard' = standard, NEW u \in User, NEW x \in Amounts, RootMint(u, x)
  PROVE  IInv'
<1>1. TypeOK /\ Backed /\ BurnsHaveHolders
  BY DEF IInv
<1>2. /\ Transfer(rootBalance, NoOne, u, x)
      /\ processedExits' = processedExits /\ syncs' = syncs /\ sunk' = sunk
      /\ childBalance' = childBalance /\ logs' = logs /\ delivered' = delivered
      /\ UNCHANGED <<childVars, delivered, checkpointed>>
  BY DEF RootMint, Transfer, childVars
<1>3. /\ Predicate \notin {NoOne, u} /\ u \in Holder \cup {NoOne}
      /\ NoOne \in Holder \cup {NoOne}
  BY FungibleAssumption DEF Holder
<1>4. /\ rootBalance' \in [Id -> [Holder -> 0..MaxUint[standard]]]
      /\ \A id \in Id : rootBalance'[id][Predicate] = rootBalance[id][Predicate]
  BY <1>1, <1>2, <1>3, RootMove
<1>5. Backed' /\ BurnsHaveHolders'
  BY <1>1, <1>2, <1>4 DEF Backed, BurnsHaveHolders, PendingDeposits, OpenBurns
<1>6. TypeOK'
  <2>1. /\ processedExits' \subseteq 1..Len(logs) /\ syncs' \in Seq(Deposit)
        /\ Len(syncs) <= Len(syncs') /\ sunk' \in [Id -> Nat]
    BY <1>1, <1>2, Facts DEF TypeOK
  <2> QED
    BY <1>1, <1>2, <1>4, <1>5, <2>1, RootKeepsType
<1> QED
  BY <1>5, <1>6 DEF IInv

\* A transfer on the root chain: what goes to the predicate is sunk.
LEMMA RootTransferKeeps ==
  ASSUME IInv, standard' = standard, NEW u \in User, NEW v \in User \cup {Predicate},
         NEW x \in Amounts, RootTransfer(u, v, x)
  PROVE  IInv'
<1>1. TypeOK /\ Backed /\ BurnsHaveHolders
  BY DEF IInv
<1>2. /\ Transfer(rootBalance, u, v, x)
      /\ processedExits' = processedExits /\ syncs' = syncs
      /\ sunk' = IF v = Predicate THEN [id \in Id |-> sunk[id] + x[id]] ELSE sunk
      /\ childBalance' = childBalance /\ logs' = logs /\ delivered' = delivered
      /\ UNCHANGED <<childVars, delivered, checkpointed>>
  BY DEF RootTransfer, Transfer, childVars
<1>3. /\ u # Predicate /\ u \in Holder \cup {NoOne} /\ v \in Holder \cup {NoOne}
  BY FungibleAssumption DEF Holder
<1>4. /\ rootBalance' \in [Id -> [Holder -> 0..MaxUint[standard]]]
      /\ \A id \in Id :
           /\ v = Predicate =>
                rootBalance'[id][Predicate] = rootBalance[id][Predicate] + x[id]
           /\ v # Predicate =>
                rootBalance'[id][Predicate] = rootBalance[id][Predicate]
  BY <1>1, <1>2, <1>3, RootMove
<1>5. /\ x \in [Id -> Nat] /\ sunk \in [Id -> Nat]
  <2>1. sunk \in [Id -> 0..MaxUint[standard]] /\ MaxUint[standard] \in Nat
    BY <1>1, Facts DEF TypeOK
  <2> QED
    BY <1>1, <2>1, Facts
<1>6. Backed'
  <2> SUFFICES ASSUME NEW id \in Id
               PROVE  rootBalance'[id][Predicate]
                        = Supply(childBalance, id) + Total(syncs, PendingDeposits, id)
                          + Total(logs, OpenBurns, id) + sunk'[id]
    BY <1>2 DEF Backed, PendingDeposits, OpenBurns
  <2>1. rootBalance[id][Predicate]
          = Supply(childBalance, id) + Total(syncs, PendingDeposits, id)
            + Total(logs, OpenBurns, id) + sunk[id]
    BY <1>1 DEF Backed
  <2>2. /\ v = Predicate => /\ rootBalance'[id][Predicate] = rootBalance[id][Predicate] + x[id]
                            /\ sunk'[id] = sunk[id] + x[id]
        /\ v # Predicate => /\ rootBalance'[id][Predicate] = rootBalance[id][Predicate]
                            /\ sunk'[id] = sunk[id]
    BY <1>2, <1>4
  <2>3. x[id] \in Nat
    BY <1>5
  <2> QED
    BY <1>1, <2>1, <2>2, <2>3, SumsAreNumbers
<1>7. BurnsHaveHolders'
  BY <1>1, <1>2 DEF BurnsHaveHolders
<1>8. TypeOK'
  <2>1. sunk' \in [Id -> Nat]
    BY <1>2, <1>5
  <2>2. /\ processedExits' \subseteq 1..Len(logs) /\ syncs' \in Seq(Deposit)
        /\ Len(syncs) <= Len(syncs')
    BY <1>1, <1>2, Facts DEF TypeOK
  <2> QED
    BY <1>1, <1>2, <1>4, <1>6, <2>1, <2>2, RootKeepsType
<1> QED
  BY <1>6, <1>7, <1>8 DEF IInv

\* A sync that is sent is pending, with its amounts.
LEMMA SendPending ==
  ASSUME TypeOK, NEW v \in User, NEW x \in Amounts,
         syncs' = Append(syncs, [user |-> v, amounts |-> x]), delivered' = delivered
  PROVE  /\ syncs' \in Seq(Deposit) /\ Len(syncs') = Len(syncs) + 1
         /\ \A i \in 1..Len(syncs) : syncs'[i] = syncs[i]
         /\ syncs'[Len(syncs) + 1] = [user |-> v, amounts |-> x]
         /\ PendingDeposits' = PendingDeposits \cup {Len(syncs) + 1}
         /\ PendingDeposits \subseteq 1..Len(syncs)
         /\ \A id \in Id : Total(syncs', PendingDeposits', id)
                            = Total(syncs, PendingDeposits, id) + x[id]
<1>n. PICK n, m : n = Len(syncs) /\ m = n + 1
  OBVIOUS
<1>1. /\ syncs \in Seq(Deposit) /\ [user |-> v, amounts |-> x] \in Deposit
      /\ n \in Nat /\ delivered \in 0..n
  BY <1>n DEF TypeOK, Deposit
<1>2. /\ syncs' \in Seq(Deposit) /\ Len(syncs') = m
      /\ \A i \in 1..n : syncs'[i] = syncs[i]
      /\ syncs'[m] = [user |-> v, amounts |-> x]
  BY <1>n, <1>1
<1>3. PendingDeposits' = PendingDeposits \cup {m}
  BY <1>n, <1>1, <1>2 DEF PendingDeposits
<1>4. PendingDeposits \subseteq 1..n /\ m \notin PendingDeposits
  BY <1>n, <1>1 DEF PendingDeposits
<1>5. ASSUME NEW id \in Id
      PROVE  Total(syncs', PendingDeposits', id) = Total(syncs, PendingDeposits, id) + x[id]
  <2>1. \A i \in PendingDeposits : syncs'[i].amounts[id] = syncs[i].amounts[id]
    BY <1>2, <1>4
  <2>2. Total(syncs', PendingDeposits, id) = Total(syncs, PendingDeposits, id)
    BY ONLY <2>1, TotalSame
  <2>3. syncs'[m].amounts[id] = x[id] /\ x[id] \in Nat
    BY <1>2, Facts
  <2>4. \A i \in PendingDeposits \cup {m} : syncs'[i].amounts[id] \in Nat
    BY <1>n, <1>4, <2>1, <2>3, Facts
  <2>5. Total(syncs', PendingDeposits \cup {m}, id)
          = Total(syncs', PendingDeposits, id) + syncs'[m].amounts[id]
    BY <1>4, <2>4, Facts, TotalAdd
  <2> QED
    BY <1>3, <2>2, <2>3, <2>5
<1> QED
  BY <1>n, <1>2, <1>3, <1>4, <1>5

\* A deposit locks what it sends.
LEMMA DepositForKeeps ==
  ASSUME IInv, standard' = standard, NEW u \in User, NEW v \in User, NEW x \in Amounts,
         DepositFor(u, v, x)
  PROVE  IInv'
<1>1. TypeOK /\ Backed /\ BurnsHaveHolders
  BY DEF IInv
<1>2. /\ Transfer(rootBalance, u, Predicate, x)
      /\ syncs' = Append(syncs, [user |-> v, amounts |-> x])
      /\ processedExits' = processedExits /\ sunk' = sunk
      /\ childBalance' = childBalance /\ logs' = logs /\ delivered' = delivered
      /\ UNCHANGED <<childVars, delivered, checkpointed>>
  BY DEF DepositFor, LockTokens, Transfer, childVars
<1>3. /\ u # Predicate /\ u \in Holder \cup {NoOne} /\ Predicate \in Holder \cup {NoOne}
  BY FungibleAssumption DEF Holder
<1>4. /\ rootBalance' \in [Id -> [Holder -> 0..MaxUint[standard]]]
      /\ \A id \in Id : rootBalance'[id][Predicate] = rootBalance[id][Predicate] + x[id]
  BY <1>1, <1>2, <1>3, RootMove
<1>5. /\ syncs' \in Seq(Deposit) /\ Len(syncs') = Len(syncs) + 1
      /\ \A id \in Id : Total(syncs', PendingDeposits', id)
                         = Total(syncs, PendingDeposits, id) + x[id]
  BY <1>1, <1>2, SendPending
<1>6. Backed'
  <2> SUFFICES ASSUME NEW id \in Id
               PROVE  rootBalance'[id][Predicate]
                        = Supply(childBalance, id) + Total(syncs', PendingDeposits', id)
                          + Total(logs, OpenBurns, id) + sunk[id]
    BY <1>2 DEF Backed, OpenBurns
  <2>1. rootBalance[id][Predicate]
          = Supply(childBalance, id) + Total(syncs, PendingDeposits, id)
            + Total(logs, OpenBurns, id) + sunk[id]
    BY <1>1 DEF Backed
  <2>2. x[id] \in Nat
    BY <1>1, Facts
  <2> QED
    BY <1>1, <1>4, <1>5, <2>1, <2>2, SumsAreNumbers
<1>7. BurnsHaveHolders'
  BY <1>1, <1>2 DEF BurnsHaveHolders
<1>8. TypeOK'
  <2>1. /\ processedExits' \subseteq 1..Len(logs) /\ sunk' \in [Id -> Nat]
        /\ Len(syncs) <= Len(syncs')
    BY <1>1, <1>2, <1>5, Facts DEF TypeOK
  <2> QED
    BY <1>1, <1>2, <1>4, <1>5, <1>6, <2>1, RootKeepsType
<1> QED
  BY <1>6, <1>7, <1>8 DEF IInv

\* A burn that is paid is open no longer; its amounts are those of its log.
LEMMA ExitPays ==
  ASSUME TypeOK, BurnsHaveHolders, NEW i \in 1..Len(logs), Exit(i)
  PROVE  /\ i \in OpenBurns /\ logs[i].from \in User /\ logs[i].amounts \in Amounts
         /\ Transfer(rootBalance, Predicate, logs[i].from, logs[i].amounts)
         /\ processedExits' = processedExits \cup {i}
         /\ syncs' = syncs /\ sunk' = sunk /\ childBalance' = childBalance /\ logs' = logs
         /\ delivered' = delivered /\ UNCHANGED <<childVars, delivered, checkpointed>>
         /\ OpenBurns' = OpenBurns \ {i}
         /\ \A id \in Id : /\ Total(logs, OpenBurns, id)
                              = Total(logs, OpenBurns', id) + logs[i].amounts[id]
                         /\ Total(logs, OpenBurns', id) \in Nat
<1>1. /\ i \notin processedExits /\ processedExits' = processedExits \cup {i}
      /\ logs[i].to = NoOne
      /\ Transfer(rootBalance, Predicate, logs[i].from, logs[i].amounts)
      /\ syncs' = syncs /\ sunk' = sunk /\ childBalance' = childBalance /\ logs' = logs
      /\ delivered' = delivered /\ UNCHANGED <<childVars, delivered, checkpointed>>
  BY DEF Exit, ExitTokens, Transfer, childVars
<1>2. i \in OpenBurns /\ OpenBurns' = OpenBurns \ {i} /\ OpenBurns \subseteq 1..Len(logs)
  BY <1>1 DEF OpenBurns
<1>3. logs[i].from \in User /\ logs[i].amounts \in Amounts
  BY <1>1, Facts DEF BurnsHaveHolders
<1>4. ASSUME NEW id \in Id
      PROVE  /\ Total(logs, OpenBurns, id)
                   = Total(logs, OpenBurns \ {i}, id) + logs[i].amounts[id]
             /\ Total(logs, OpenBurns \ {i}, id) \in Nat
  <2>1. \A j \in OpenBurns : logs[j].amounts[id] \in Nat
    BY <1>2, Facts
  <2>2. IsFiniteSet(OpenBurns) /\ IsFiniteSet(OpenBurns \ {i})
    BY Facts, FS_RemoveElement
  <2> QED
    BY <1>2, <2>1, <2>2, TotalRemove, TotalType
<1> QED
  BY <1>1, <1>2, <1>3, <1>4

\* An exit releases what its burn was open for.
LEMMA ExitKeeps ==
  ASSUME IInv, standard' = standard, NEW i \in 1..Len(logs), Exit(i)
  PROVE  IInv'
<1>n. PICK to, x : to = logs[i].from /\ x = logs[i].amounts
  OBVIOUS
<1>1. TypeOK /\ Backed /\ BurnsHaveHolders
  BY DEF IInv
<1>2. /\ to \in User /\ x \in Amounts /\ Transfer(rootBalance, Predicate, to, x)
      /\ processedExits' = processedExits \cup {i}
      /\ syncs' = syncs /\ sunk' = sunk /\ childBalance' = childBalance /\ logs' = logs
      /\ delivered' = delivered /\ UNCHANGED <<childVars, delivered, checkpointed>>
      /\ \A id \in Id : /\ Total(logs, OpenBurns, id) = Total(logs, OpenBurns', id) + x[id]
                      /\ Total(logs, OpenBurns', id) \in Nat
  BY <1>n, <1>1, ExitPays DEF Transfer
<1>3. /\ to # Predicate /\ Predicate # NoOne
      /\ to \in Holder \cup {NoOne} /\ Predicate \in Holder \cup {NoOne}
  BY <1>2, FungibleAssumption DEF Holder
<1>4. /\ rootBalance' \in [Id -> [Holder -> 0..MaxUint[standard]]]
      /\ Enough(rootBalance, Predicate, x)
      /\ \A id \in Id : rootBalance'[id][Predicate] = rootBalance[id][Predicate] - x[id]
  BY <1>1, <1>2, <1>3, RootMove
<1>5. Backed'
  <2> SUFFICES ASSUME NEW id \in Id
               PROVE  rootBalance'[id][Predicate]
                        = Supply(childBalance, id) + Total(syncs, PendingDeposits, id)
                          + Total(logs, OpenBurns', id) + sunk[id]
    BY <1>2 DEF Backed, PendingDeposits
  <2>1. rootBalance[id][Predicate]
          = Supply(childBalance, id) + Total(syncs, PendingDeposits, id)
            + Total(logs, OpenBurns, id) + sunk[id]
    BY <1>1 DEF Backed
  <2>2. x[id] \in Nat
    BY <1>1, <1>2, Facts
  <2>3. rootBalance[id][Predicate] \in Nat
    BY <1>1, SumsAreNumbers, Facts
  <2> QED
    BY <1>1, <1>2, <1>4, <2>1, <2>2, <2>3, SumsAreNumbers
<1>6. BurnsHaveHolders'
  BY <1>1, <1>2 DEF BurnsHaveHolders
<1>7. TypeOK'
  <2>1. processedExits' \subseteq 1..Len(logs)
    BY <1>1, <1>2 DEF TypeOK
  <2>2. /\ syncs' \in Seq(Deposit) /\ Len(syncs) <= Len(syncs') /\ sunk' \in [Id -> Nat]
    <3>1. sunk \in [Id -> 0..MaxUint[standard]] /\ MaxUint[standard] \in Nat
      BY <1>1, Facts DEF TypeOK
    <3> QED
      BY <1>1, <1>2, <3>1, Facts DEF TypeOK
  <2> QED
    BY <1>1, <1>2, <1>4, <1>5, <2>1, <2>2, RootKeepsType
<1> QED
  BY <1>5, <1>6, <1>7 DEF IInv

-----------------------------------------------------------------------------
\* Every reachable state.

\* Nothing is held and nothing owed at first.
LEMMA InitHolds == Init => IInv
<1> SUFFICES ASSUME Init PROVE IInv
  OBVIOUS
<1>1. standard \in Standard /\ MaxUint[standard] \in Nat
  BY FungibleAssumption DEF Init
<1>2. TypeOK
  BY <1>1 DEF Init, TypeOK
<1>3. PendingDeposits = {} /\ OpenBurns = {}
  BY DEF Init, PendingDeposits, OpenBurns
<1>4. ASSUME NEW id \in Id PROVE Supply(childBalance, id) = 0
  <2>1. childBalance[id] = [u \in User |-> 0]
    BY DEF Init
  <2> QED
    BY <2>1, SumZero, FungibleAssumption DEF Supply, SumFunction
<1>5. Backed
  <2> SUFFICES ASSUME NEW id \in Id
               PROVE  rootBalance[id][Predicate]
                        = Supply(childBalance, id) + Total(syncs, PendingDeposits, id)
                          + Total(logs, OpenBurns, id) + sunk[id]
    BY DEF Backed
  <2>1. rootBalance[id][Predicate] = 0 /\ sunk[id] = 0
    BY DEF Init
  <2>2. Total(syncs, PendingDeposits, id) = 0 /\ Total(logs, OpenBurns, id) = 0
    BY <1>3, TotalEmpty
  <2> QED
    BY <1>4, <2>1, <2>2
<1>6. BurnsHaveHolders
  BY DEF Init, BurnsHaveHolders
<1> QED
  BY <1>2, <1>5, <1>6 DEF IInv

\* Action by action.
LEMMA NextKeeps == IInv /\ [Next]_vars => IInv'
<1> SUFFICES ASSUME IInv, [Next]_vars PROVE IInv'
  OBVIOUS
<1>1. CASE UNCHANGED vars
  BY <1>1, SameTypes DEF vars, rootVars, childVars, IInv, TypeOK, Backed, BurnsHaveHolders,
                         PendingDeposits, OpenBurns
<1>2. CASE Next
  <2>1. standard' = standard /\ Step
    BY <1>2 DEF Next
  <2>2. ASSUME NEW u \in User, NEW v \in User, NEW x \in Amounts, ChildTransfer(u, v, x)
        PROVE  IInv'
    BY <2>1, <2>2, ChildKeeps DEF ChildTransfer, MoveOnChild
  <2>3. ASSUME NEW u \in User, NEW x \in Amounts, Withdraw(u, x) PROVE IInv'
    BY <2>1, <2>3, ChildKeeps DEF Withdraw, MoveOnChild
  <2>4. CASE Deliver
    BY <2>1, <2>4, DeliverKeeps
  <2>5. CASE SubmitCheckpoint
    BY <2>1, <2>5, SubmitCheckpointKeeps
  <2>6. ASSUME NEW u \in User, NEW x \in Amounts, RootMint(u, x) PROVE IInv'
    BY <2>1, <2>6, RootMintKeeps
  <2>7. ASSUME NEW u \in User, NEW v \in User \cup {Predicate}, NEW x \in Amounts,
               RootTransfer(u, v, x)
        PROVE  IInv'
    BY <2>1, <2>7, RootTransferKeeps
  <2>8. ASSUME NEW u \in User, NEW v \in User, NEW x \in Amounts, DepositFor(u, v, x)
        PROVE  IInv'
    BY <2>1, <2>8, DepositForKeeps
  <2>9. ASSUME NEW i \in 1..Len(logs), Exit(i) PROVE IInv'
    BY <2>1, <2>9, ExitKeeps
  <2> QED
    BY <2>1, <2>2, <2>3, <2>4, <2>5, <2>6, <2>7, <2>8, <2>9 DEF Step
<1> QED
  BY <1>1, <1>2

\* The inductive invariant holds in every reachable state.
THEOREM Invariant == Spec => []IInv
<1> QED
  BY InitHolds, NextKeeps, PTL DEF Spec

\* Every variable has its type: no balance leaves the range of its word, and what
\* was given away to the predicate can never be more than one either.
THEOREM FungibleTypeOK == Spec => []TypeOK
<1>1. IInv => TypeOK
  BY DEF IInv
<1> QED
  BY <1>1, Invariant, PTL

\* The predicate holds what it owes, to the last unit.
THEOREM FungibleBacked == Spec => []Backed
<1>1. IInv => Backed
  BY DEF IInv
<1> QED
  BY <1>1, Invariant, PTL

\* No delivery of a deposit reverts: the tokens are minted for the receiver, though
\* the balances of the child token are not among what the root chain looks at.
THEOREM FungibleDelivery ==
  Spec => [][delivered' # delivered
               => LET d == syncs[delivered + 1]
                  IN  MoveOnChild(NoOne, d.user, d.amounts)]_vars
<1>1. ASSUME IInv, [Next]_vars, delivered' # delivered
      PROVE  MoveOnChild(NoOne, syncs[delivered + 1].user, syncs[delivered + 1].amounts)
  <2>1. TypeOK /\ Backed
    BY <1>1 DEF IInv
  <2>2. Deliver
    BY <1>1 DEF Next, Step, vars, ChildTransfer, Withdraw, SubmitCheckpoint, RootMint,
                RootTransfer, DepositFor, Exit
  <2> QED
    BY <2>1, <2>2, DeliverMints
<1>2. IInv /\ [Next]_vars
        => (delivered' # delivered
              => MoveOnChild(NoOne, syncs[delivered + 1].user, syncs[delivered + 1].amounts))
  BY <1>1
<1> QED
  BY <1>2, Invariant, PTL DEF Spec

-----------------------------------------------------------------------------
\* Burns can be paid.

\* A token that adds up its supply keeps it in a word.
Bounded ==
  TotalSupply => \A id \in Id : Supply(rootBalance, id) <= MaxUint[standard]

\* A transfer keeps the supply, and a mint looks at it first.
LEMMA TransferBounded ==
  ASSUME TypeOK, Bounded, standard' = standard,
         NEW from \in Holder \cup {NoOne}, NEW to \in Holder, NEW x \in Amounts,
         Transfer(rootBalance, from, to, x)
  PROVE  Bounded'
<1> SUFFICES ASSUME TotalSupply, NEW id \in Id
             PROVE  Supply(rootBalance', id) <= MaxUint[standard]
  BY DEF Bounded, TotalSupply
<1>1. PICK M : M = MaxUint[standard]
  OBVIOUS
<1>2. /\ M \in Nat /\ NoOne \notin Holder /\ IsFiniteSet(Holder) /\ x \in [Id -> Nat]
      /\ rootBalance \in [Id -> [Holder -> 0..M]] /\ to # NoOne
      /\ from # NoOne => Enough(rootBalance, from, x)
  BY <1>1, Facts DEF TypeOK, Holder, Transfer
<1>3. Movable(M, Holder, rootBalance, from, to, x)
  BY <1>2 DEF Movable
<1>4. /\ from # NoOne => Supply(Moved(rootBalance, from, to, x), id) = Supply(rootBalance, id)
      /\ from = NoOne => Supply(Moved(rootBalance, from, to, x), id)
                           = Supply(rootBalance, id) + x[id]
  BY ONLY <1>2, <1>3, SupplyMoved, id \in Id
<1>5. rootBalance' = Moved(rootBalance, from, to, x)
  BY DEF Transfer
<1>6. from = NoOne => Supply(rootBalance, id) + x[id] <= MaxUint[standard]
  BY <1>2 DEF Transfer, Fits
<1>7. Supply(rootBalance, id) <= MaxUint[standard]
  BY DEF Bounded
<1> QED
  BY <1>4, <1>5, <1>6, <1>7

\* No step lets the supply outgrow a word.
LEMMA NextBounded ==
  ASSUME IInv, Bounded, [Next]_vars
  PROVE  Bounded'
<1>1. TypeOK /\ User \subseteq Holder /\ Predicate \in Holder
  BY DEF IInv, Holder
<1>2. CASE rootBalance' = rootBalance /\ standard' = standard
  BY <1>2 DEF Bounded, TotalSupply
<1>3. CASE Next /\ rootBalance' # rootBalance
  <2>1. standard' = standard /\ Step
    BY <1>3 DEF Next
  <2>2. ASSUME NEW u \in User, NEW x \in Amounts, RootMint(u, x) PROVE Bounded'
    <3>1. Transfer(rootBalance, NoOne, u, x)
      BY <2>2 DEF RootMint
    <3> QED
      BY <1>1, <2>1, <3>1, TransferBounded
  <2>3. ASSUME NEW u \in User, NEW v \in User \cup {Predicate}, NEW x \in Amounts,
               RootTransfer(u, v, x)
        PROVE  Bounded'
    <3>1. Transfer(rootBalance, u, v, x)
      BY <2>3 DEF RootTransfer
    <3> QED
      BY <1>1, <2>1, <3>1, TransferBounded
  <2>4. ASSUME NEW u \in User, NEW v \in User, NEW x \in Amounts, DepositFor(u, v, x)
        PROVE  Bounded'
    <3>1. Transfer(rootBalance, u, Predicate, x)
      BY <2>4 DEF DepositFor, LockTokens
    <3> QED
      BY <1>1, <2>1, <3>1, TransferBounded
  <2>5. ASSUME NEW i \in 1..Len(logs), Exit(i) PROVE Bounded'
    <3>1. /\ logs[i].from \in User /\ logs[i].amounts \in Amounts
          /\ Transfer(rootBalance, Predicate, logs[i].from, logs[i].amounts)
      BY <2>5, ExitPays DEF IInv
    <3> QED
      BY <1>1, <2>1, <3>1, TransferBounded
  <2>6. /\ \A u, v \in User, x \in Amounts : ~ChildTransfer(u, v, x)
        /\ \A u \in User, x \in Amounts : ~Withdraw(u, x)
        /\ ~Deliver /\ ~SubmitCheckpoint
    BY <1>3 DEF ChildTransfer, Withdraw, Deliver, SubmitCheckpoint, rootVars
  <2> QED
    BY <2>1, <2>2, <2>3, <2>4, <2>5, <2>6 DEF Step
<1> QED
  BY <1>2, <1>3 DEF Next, vars, rootVars

\* Nothing is minted at first.
LEMMA InitBounded == Init => Bounded
<1> SUFFICES ASSUME Init, NEW id \in Id
             PROVE  Supply(rootBalance, id) <= MaxUint[standard]
  BY DEF Bounded
<1>1. rootBalance[id] = [a \in Holder |-> 0] /\ MaxUint[standard] \in Nat
  BY FungibleAssumption DEF Init, Holder
<1>2. IsFiniteSet(Holder)
  BY FungibleAssumption, FS_AddElement DEF Holder
<1>3. Supply(rootBalance, id) = 0
  BY <1>1, <1>2, SumZero DEF Supply, SumFunction
<1> QED
  BY <1>1, <1>3

\* Whether the exit of a burn passes, once the burn is in a checkpoint.
Payable(i) ==
  /\ Enough(rootBalance, Predicate, logs[i].amounts)
  /\ TotalSupply => Fits(rootBalance, Predicate, logs[i].from, logs[i].amounts)

\* What the predicate holds covers every burn that is open, as it covers them all
\* together; and together with what the receiver has it is part of the supply.
LEMMA OpenBurnPayable ==
  ASSUME IInv, Bounded, NEW i \in OpenBurns
  PROVE  Payable(i)
<1>0. TypeOK /\ Backed /\ BurnsHaveHolders
  BY DEF IInv
<1>1. i \in 1..Len(logs) /\ logs[i].from \in User /\ OpenBurns \subseteq 1..Len(logs)
  BY <1>0 DEF OpenBurns, BurnsHaveHolders
<1>2. ASSUME NEW id \in Id
      PROVE  rootBalance[id][Predicate] >= logs[i].amounts[id]
  <2>1. \A j \in OpenBurns : logs[j].amounts[id] \in Nat
    BY <1>0, <1>1, Facts
  <2>2. Total(logs, OpenBurns, id)
          = Total(logs, OpenBurns \ {i}, id) + logs[i].amounts[id]
    BY <1>0, <2>1, Facts, TotalRemove
  <2>3. Total(logs, OpenBurns \ {i}, id) \in Nat
    BY <1>0, <2>1, Facts, FS_RemoveElement, TotalType
  <2>4. rootBalance[id][Predicate]
          = Supply(childBalance, id) + Total(syncs, PendingDeposits, id)
            + Total(logs, OpenBurns, id) + sunk[id]
    BY <1>0 DEF Backed
  <2> QED
    BY <1>0, <2>1, <2>2, <2>3, <2>4, SumsAreNumbers
<1>3. ASSUME TotalSupply, NEW id \in Id
      PROVE  rootBalance[id][logs[i].from] + logs[i].amounts[id] <= MaxUint[standard]
  <2> DEFINE f == rootBalance[id]
             to == logs[i].from
  <2>1. f \in [Holder -> 0..MaxUint[standard]] /\ MaxUint[standard] \in Nat
    BY <1>0, Facts DEF TypeOK, Holder
  <2>2. /\ \A a \in Holder : f[a] \in Nat
        /\ Predicate \in Holder /\ to \in Holder \ {Predicate} /\ IsFiniteSet(Holder)
    BY <1>0, <1>1, <2>1, Facts DEF Holder
  <2>3. Supply(rootBalance, id) = SumFunctionOnSet(f, Holder)
    BY <2>1 DEF Supply, SumFunction
  <2> HIDE DEF f, to
  <2>4. SumFunctionOnSet(f, Holder) = f[Predicate] + SumFunctionOnSet(f, Holder \ {Predicate})
    BY <2>2, SumRemove
  <2>5. IsFiniteSet(Holder \ {Predicate}) /\ \A a \in Holder \ {Predicate} : f[a] \in Nat
    BY <2>2, FS_RemoveElement
  <2>6. /\ f[to] <= SumFunctionOnSet(f, Holder \ {Predicate})
        /\ SumFunctionOnSet(f, Holder \ {Predicate}) \in Nat
    BY <2>2, <2>5, SumBounds, SumType
  <2>7. f[Predicate] >= logs[i].amounts[id]
    BY <1>2 DEF f
  <2>8. SumFunctionOnSet(f, Holder) <= MaxUint[standard]
    BY <1>3, <2>3 DEF Bounded
  <2>9. f[Predicate] \in Nat /\ f[to] \in Nat /\ logs[i].amounts[id] \in Nat
    BY <1>0, <1>1, <2>2, Facts
  <2>10. f[to] + logs[i].amounts[id] <= MaxUint[standard]
    BY <2>1, <2>4, <2>6, <2>7, <2>8, <2>9
  <2> QED
    BY <2>10 DEF f, to
<1>4. Predicate # NoOne
  BY FungibleAssumption
<1> QED
  BY <1>2, <1>3, <1>4 DEF Payable, Enough, Fits

\* The safety behind WithdrawalsRelease: as soon as its burn is in a checkpoint, an
\* exit that was not made yet passes, whatever was proved before it.  Only the balance
\* of a receiver of an ERC1155 can be too full.
THEOREM FungiblePayable == Spec => [](\A i \in OpenBurns : Payable(i))
<1>1. IInv /\ Bounded => \A i \in OpenBurns : Payable(i)
  BY OpenBurnPayable
<1>2. Spec => []Bounded
  BY InitBounded, NextBounded, Invariant, PTL DEF Spec
<1> QED
  BY <1>1, <1>2, Invariant, PTL

-----------------------------------------------------------------------------
\* The refinement.  A wallet is a balance or what is on its way in somebody's name.

ToChild(u) == {i \in PendingDeposits : syncs[i].user = u}
ToRoot(u)  == {i \in OpenBurns : logs[i].from = u}

\* What wallet w has after x was paid.
After(w, from, to, had, x) ==
  IF w = from THEN had - x ELSE IF w = to THEN had + x ELSE had

\* After a step, everybody's wallets are as after a payment.
AllAfter(from, to, x) ==
  \A u \in User, id \in Id :
    /\ rootBalance'[id][u] = After(<<"root", u>>, from, to, rootBalance[id][u], x[id])
    /\ childBalance'[id][u] = After(<<"child", u>>, from, to, childBalance[id][u], x[id])
    /\ Total(syncs', ToChild(u)', id)
         = After(<<"toChild", u>>, from, to, Total(syncs, ToChild(u), id), x[id])
    /\ Total(logs', ToRoot(u)', id)
         = After(<<"toRoot", u>>, from, to, Total(logs, ToRoot(u), id), x[id])

\* The mapping, wallet by wallet, before and after a step.
LEMMA WalletIs ==
  /\ wallet = [w \in Wallets!Wallet |-> [id \in Id |-> wallet[w][id]]]
  /\ \A u \in User, id \in Id :
       /\ wallet[<<"root", u>>][id] = rootBalance[id][u]
       /\ wallet[<<"child", u>>][id] = childBalance[id][u]
       /\ wallet[<<"toChild", u>>][id] = Total(syncs, ToChild(u), id)
       /\ wallet[<<"toRoot", u>>][id] = Total(logs, ToRoot(u), id)
  /\ wallet' = [w \in Wallets!Wallet |-> [id \in Id |-> wallet'[w][id]]]
  /\ \A u \in User, id \in Id :
       /\ wallet'[<<"root", u>>][id] = rootBalance'[id][u]
       /\ wallet'[<<"child", u>>][id] = childBalance'[id][u]
       /\ wallet'[<<"toChild", u>>][id] = Total(syncs', ToChild(u)', id)
       /\ wallet'[<<"toRoot", u>>][id] = Total(logs', ToRoot(u)', id)
<1>1. wallet = [w \in Wallets!Wallet |-> [id \in Id |-> wallet[w][id]]]
  BY DEF wallet, Wallets!Wallet
<1>2. wallet' = [w \in Wallets!Wallet |-> [id \in Id |-> wallet'[w][id]]]
  BY DEF wallet, Wallets!Wallet
<1>3. ASSUME NEW u \in User, NEW id \in Id
      PROVE  /\ wallet[<<"root", u>>][id] = rootBalance[id][u]
             /\ wallet[<<"child", u>>][id] = childBalance[id][u]
             /\ wallet[<<"toChild", u>>][id] = Total(syncs, ToChild(u), id)
             /\ wallet[<<"toRoot", u>>][id] = Total(logs, ToRoot(u), id)
  BY DEF wallet, ToChild, ToRoot
<1>4. ASSUME NEW u \in User, NEW id \in Id
      PROVE  /\ wallet'[<<"root", u>>][id] = rootBalance'[id][u]
             /\ wallet'[<<"child", u>>][id] = childBalance'[id][u]
             /\ wallet'[<<"toChild", u>>][id] = Total(syncs', ToChild(u)', id)
             /\ wallet'[<<"toRoot", u>>][id] = Total(logs', ToRoot(u)', id)
  BY DEF wallet, ToChild, ToRoot
<1> QED
  BY <1>1, <1>2, <1>3, <1>4

\* What the wallets of every account are after a step says what wallet' is.
LEMMA WalletAfter ==
  ASSUME NEW from, NEW to, NEW x,
         AllAfter(from, to, x)
  PROVE  wallet' = [w \in Wallets!Wallet |->
                     [id \in Id |-> After(w, from, to, wallet[w][id], x[id])]]
<1>1. ASSUME NEW w \in Wallets!Wallet, NEW id \in Id
      PROVE  wallet'[w][id] = After(w, from, to, wallet[w][id], x[id])
  <2>1. PICK u \in User : w \in {<<"root", u>>, <<"child", u>>, <<"toChild", u>>, <<"toRoot", u>>}
    BY DEF Wallets!Wallet
  <2>2. CASE w = <<"root", u>>
    BY <2>2, WalletIs DEF AllAfter
  <2>3. CASE w = <<"child", u>>
    BY <2>3, WalletIs DEF AllAfter
  <2>4. CASE w = <<"toChild", u>>
    BY <2>4, WalletIs DEF AllAfter
  <2>5. CASE w = <<"toRoot", u>>
    BY <2>5, WalletIs DEF AllAfter
  <2> QED
    BY <2>1, <2>2, <2>3, <2>4, <2>5
<1>2. [w \in Wallets!Wallet |-> [id \in Id |-> wallet'[w][id]]]
        = [w \in Wallets!Wallet |-> [id \in Id |-> After(w, from, to, wallet[w][id], x[id])]]
  BY <1>1
<1> QED
  BY <1>2, WalletIs

\* A step of the bridge that moves x from one wallet to another is a payment.
LEMMA PaysIf ==
  ASSUME NEW from \in Wallets!Wallet, NEW to \in Wallets!Wallet, from # to, NEW x,
         AllAfter(from, to, x),
         \A id \in Id : wallet[from][id] >= x[id],
         supply' = supply
  PROVE  Wallets!Pays(from, to, x)
<1>1. wallet' = [w \in Wallets!Wallet |->
                  [id \in Id |-> After(w, from, to, wallet[w][id], x[id])]]
  BY WalletAfter
<1>2. wallet = [w \in Wallets!Wallet |-> [id \in Id |-> wallet[w][id]]]
  BY WalletIs
<1>3. ASSUME NEW w \in Wallets!Wallet
      PROVE  wallet'[w] = [wallet EXCEPT ![from] = Wallets!Minus(@, x),
                                         ![to] = Wallets!Plus(@, x)][w]
  <2>1. wallet[w] = [id \in Id |-> wallet[w][id]]
    BY <1>2
  <2>2. wallet'[w] = [id \in Id |-> After(w, from, to, wallet[w][id], x[id])]
    BY <1>1
  <2>3. CASE w = from
    BY <1>2, <2>2, <2>3 DEF After, Wallets!Minus
  <2>4. CASE w = to
    BY <1>2, <2>2, <2>4 DEF After, Wallets!Plus
  <2>5. CASE w \notin {from, to}
    <3>1. wallet'[w] = [id \in Id |-> wallet[w][id]]
      BY <2>2, <2>5 DEF After
    <3>2. wallet'[w] = wallet[w]
      BY <2>1, <3>1
    <3> QED
      BY <1>2, <2>5, <3>2
  <2> QED
    BY <2>3, <2>4, <2>5
<1>4. wallet' = [wallet EXCEPT ![from] = Wallets!Minus(@, x), ![to] = Wallets!Plus(@, x)]
  BY <1>1, <1>2, <1>3
<1> QED
  BY <1>4 DEF Wallets!Pays

\* After a step, every wallet has what it had.
AllSame ==
  \A u \in User, id \in Id :
    /\ rootBalance'[id][u] = rootBalance[id][u]
    /\ childBalance'[id][u] = childBalance[id][u]
    /\ Total(syncs', ToChild(u)', id) = Total(syncs, ToChild(u), id)
    /\ Total(logs', ToRoot(u)', id) = Total(logs, ToRoot(u), id)

WalletVars == <<wallet, supply>>

\* A step that changes no wallet and mints nothing is no step of the wallets.
LEMMA Unmoved ==
  ASSUME AllSame, supply' = supply
  PROVE  UNCHANGED WalletVars
<1>1. ASSUME NEW w \in Wallets!Wallet, NEW id \in Id
      PROVE  wallet'[w][id] = wallet[w][id]
  <2>1. PICK u \in User : w \in {<<"root", u>>, <<"child", u>>, <<"toChild", u>>, <<"toRoot", u>>}
    BY DEF Wallets!Wallet
  <2>2. /\ rootBalance'[id][u] = rootBalance[id][u]
        /\ childBalance'[id][u] = childBalance[id][u]
        /\ Total(syncs', ToChild(u)', id) = Total(syncs, ToChild(u), id)
        /\ Total(logs', ToRoot(u)', id) = Total(logs, ToRoot(u), id)
    BY DEF AllSame
  <2>3. /\ wallet'[<<"root", u>>][id] = rootBalance'[id][u]
        /\ wallet'[<<"child", u>>][id] = childBalance'[id][u]
        /\ wallet'[<<"toChild", u>>][id] = Total(syncs', ToChild(u)', id)
        /\ wallet'[<<"toRoot", u>>][id] = Total(logs', ToRoot(u)', id)
    BY WalletIs
  <2>4. /\ wallet[<<"root", u>>][id] = rootBalance[id][u]
        /\ wallet[<<"child", u>>][id] = childBalance[id][u]
        /\ wallet[<<"toChild", u>>][id] = Total(syncs, ToChild(u), id)
        /\ wallet[<<"toRoot", u>>][id] = Total(logs, ToRoot(u), id)
    BY WalletIs
  <2> QED
    BY <2>1, <2>2, <2>3, <2>4
<1>2. [w \in Wallets!Wallet |-> [id \in Id |-> wallet'[w][id]]]
        = [w \in Wallets!Wallet |-> [id \in Id |-> wallet[w][id]]]
  BY <1>1
<1>3. wallet' = wallet
  BY <1>2, WalletIs
<1> QED
  BY <1>3 DEF WalletVars

\* Entry m is written, and the entries P are as they were.
Written(entries, other, P, m, id) ==
  /\ IsFiniteSet(P) /\ m \notin P /\ other[m].amounts[id] \in Nat
  /\ \A i \in P : /\ entries[i].amounts[id] \in Nat
                  /\ other[i].amounts[id] = entries[i].amounts[id]

\* The totals over some of the entries then.
LEMMA TotalWritten ==
  ASSUME NEW entries, NEW other, NEW P, NEW m, NEW id, Written(entries, other, P, m, id)
  PROVE  /\ Total(other, P, id) = Total(entries, P, id)
         /\ Total(other, P \cup {m}, id) = Total(entries, P, id) + other[m].amounts[id]
<1>0. IsFiniteSet(P) /\ m \notin P /\ \A i \in P \cup {m} : other[i].amounts[id] \in Nat
  BY DEF Written
<1>1. \A i \in P : other[i].amounts[id] = entries[i].amounts[id]
  BY DEF Written
<1>2. Total(other, P, id) = Total(entries, P, id)
  BY ONLY <1>1, TotalSame
<1> DEFINE f == [i \in P |-> other[i].amounts[id]]
           g == [i \in P \cup {m} |-> other[i].amounts[id]]
<1>3. SumFunctionOnSet(g, P \cup {m}) = SumFunctionOnSet(g, P) + g[m]
  BY <1>0, SumAdd
<1>4. SumFunctionOnSet(g, P) = SumFunctionOnSet(f, P)
  BY <1>0, SumEqual
<1>5. Total(other, P, id) = SumFunctionOnSet(f, P)
  BY DEF Total, SumFunction
<1>6. Total(other, P \cup {m}, id) = SumFunctionOnSet(g, P \cup {m})
  BY DEF Total, SumFunction
<1> QED
  BY <1>2, <1>3, <1>4, <1>5, <1>6

\* The sets that what is on its way is summed over.
LEMMA TransitFacts ==
  ASSUME TypeOK, NEW u \in User
  PROVE  /\ IsFiniteSet(ToChild(u)) /\ ToChild(u) \subseteq 1..Len(syncs)
         /\ IsFiniteSet(ToRoot(u)) /\ ToRoot(u) \subseteq 1..Len(logs)
         /\ \A id \in Id : /\ \A i \in ToChild(u) : syncs[i].amounts[id] \in Nat
                         /\ \A i \in ToRoot(u) : logs[i].amounts[id] \in Nat
<1>1. ToChild(u) \subseteq 1..Len(syncs) /\ ToRoot(u) \subseteq 1..Len(logs)
  BY Facts DEF ToChild, ToRoot, PendingDeposits, OpenBurns
<1>2. IsFiniteSet(1..Len(syncs)) /\ IsFiniteSet(1..Len(logs))
  <2>1. Len(syncs) \in Int /\ Len(logs) \in Int /\ 1 \in Int
    BY Facts
  <2> QED
    BY ONLY <2>1, FS_Interval
<1>3. IsFiniteSet(ToChild(u)) /\ IsFiniteSet(ToRoot(u))
  BY <1>1, <1>2, FS_Subset
<1> QED
  BY <1>1, <1>3, Facts

\* A deposit that is sent is on its way to the child chain.
LEMMA SendTransit ==
  ASSUME TypeOK, NEW v \in User, NEW x \in Amounts,
         syncs' = Append(syncs, [user |-> v, amounts |-> x]), delivered' = delivered,
         NEW u \in User, NEW id \in Id
  PROVE  /\ u = v =>
              Total(syncs', ToChild(u)', id) = Total(syncs, ToChild(u), id) + x[id]
         /\ u # v =>
              Total(syncs', ToChild(u)', id) = Total(syncs, ToChild(u), id)
<1>n. PICK n, m : n = Len(syncs) /\ m = n + 1
  OBVIOUS
<1>1. /\ \A i \in 1..n : syncs'[i] = syncs[i]
      /\ syncs'[m] = [user |-> v, amounts |-> x]
      /\ PendingDeposits' = PendingDeposits \cup {m} /\ PendingDeposits \subseteq 1..n
  BY <1>n, SendPending
<1>2. n \in Nat /\ m \notin 1..n
  BY <1>n, Facts
<1>3. /\ u = v => ToChild(u)' = ToChild(u) \cup {m}
      /\ u # v => ToChild(u)' = ToChild(u)
  <2>1. ToChild(u)' = {i \in PendingDeposits \cup {m} : syncs'[i].user = u}
    BY <1>1 DEF ToChild
  <2>2. \A i \in PendingDeposits : syncs'[i].user = syncs[i].user
    BY <1>1
  <2>3. syncs'[m].user = v
    BY ONLY <1>1
  <2> QED
    BY <2>1, <2>2, <2>3 DEF ToChild
<1>4. \A i \in ToChild(u) : /\ syncs[i].amounts[id] \in Nat
                            /\ syncs'[i].amounts[id] = syncs[i].amounts[id]
  BY <1>n, <1>1, TransitFacts
<1>5. m \notin ToChild(u) /\ IsFiniteSet(ToChild(u))
  BY <1>n, <1>2, TransitFacts
<1>6. syncs'[m].amounts[id] = x[id] /\ syncs'[m].amounts[id] \in Nat
  <2>1. x \in [Id -> Nat] /\ x[id] \in Nat
    BY Facts
  <2> QED
    BY ONLY <1>1, <2>1
<1>7. /\ Total(syncs', ToChild(u), id) = Total(syncs, ToChild(u), id)
      /\ Total(syncs', ToChild(u) \cup {m}, id)
           = Total(syncs, ToChild(u), id) + syncs'[m].amounts[id]
  <2>1. Written(syncs, syncs', ToChild(u), m, id)
    BY ONLY <1>4, <1>5, <1>6 DEF Written
  <2> QED
    BY ONLY <2>1, TotalWritten
<1> QED
  BY <1>3, <1>6, <1>7

\* A deposit that is delivered is on its way no longer.
LEMMA DeliverTransit ==
  ASSUME TypeOK, delivered < Len(syncs), delivered' = delivered + 1, syncs' = syncs,
         NEW d, d = syncs[delivered + 1], NEW u \in User, NEW id \in Id
  PROVE  /\ u = d.user =>
              /\ Total(syncs, ToChild(u), id) = Total(syncs', ToChild(u)', id) + d.amounts[id]
              /\ Total(syncs', ToChild(u)', id) \in Nat
         /\ u # d.user =>
              Total(syncs', ToChild(u)', id) = Total(syncs, ToChild(u), id)
<1>n. PICK n : n = delivered + 1
  OBVIOUS
<1>1. n \in PendingDeposits /\ PendingDeposits' = PendingDeposits \ {n}
  BY <1>n, DeliverPending
<1>2. CASE u = d.user
  <2>1. n \in ToChild(u) /\ ToChild(u)' = ToChild(u) \ {n}
    BY <1>n, <1>1, <1>2 DEF ToChild
  <2>2. \A i \in ToChild(u) : syncs[i].amounts[id] \in Nat
    BY TransitFacts
  <2>3. IsFiniteSet(ToChild(u)) /\ IsFiniteSet(ToChild(u) \ {n})
    BY TransitFacts, FS_RemoveElement
  <2>4. /\ Total(syncs, ToChild(u), id)
              = Total(syncs, ToChild(u) \ {n}, id) + syncs[n].amounts[id]
        /\ Total(syncs, ToChild(u) \ {n}, id) \in Nat
    BY <2>1, <2>2, <2>3, TotalRemove, TotalType
  <2> QED
    BY <1>n, <1>2, <2>1, <2>4
<1>3. CASE u # d.user
  <2>1. ToChild(u)' = ToChild(u)
    BY <1>n, <1>1, <1>3 DEF ToChild
  <2> QED
    BY <1>3, <2>1
<1> QED
  BY <1>2, <1>3

\* A burn is on its way to the root chain, in the name of its holder; a mint or a
\* transfer puts nothing on its way.
LEMMA BurnTransit ==
  ASSUME TypeOK, BurnsHaveHolders, NEW from \in User \cup {NoOne},
         NEW to \in User \cup {NoOne}, NEW x \in Amounts, MoveOnChild(from, to, x),
         to = NoOne => from \in User, processedExits' = processedExits,
         NEW u \in User, NEW id \in Id
  PROVE  /\ to = NoOne /\ u = from =>
              Total(logs', ToRoot(u)', id) = Total(logs, ToRoot(u), id) + x[id]
         /\ to # NoOne \/ u # from =>
              Total(logs', ToRoot(u)', id) = Total(logs, ToRoot(u), id)
<1>n. PICK n, m : n = Len(logs) /\ m = n + 1
  OBVIOUS
<1>1. /\ \A i \in 1..n : logs'[i] = logs[i]
      /\ logs'[m] = [from |-> from, to |-> to, amounts |-> x]
  BY <1>n, ChildMove
<1>2. OpenBurns' = OpenBurns \cup (IF to = NoOne THEN {m} ELSE {})
  BY <1>n, ChildMoveBurns
<1>3. n \in Nat /\ m \notin 1..n /\ OpenBurns \subseteq 1..n
  BY <1>n, Facts DEF OpenBurns
<1>4. /\ to = NoOne /\ u = from => ToRoot(u)' = ToRoot(u) \cup {m}
      /\ to # NoOne \/ u # from => ToRoot(u)' = ToRoot(u)
  <2>1. ToRoot(u)' = {i \in OpenBurns' : logs'[i].from = u}
    BY DEF ToRoot
  <2>2. \A i \in OpenBurns : logs'[i].from = logs[i].from
    BY <1>1, <1>3
  <2>3. logs'[m].from = from
    BY <1>1
  <2> QED
    BY <1>2, <2>1, <2>2, <2>3 DEF ToRoot
<1>5. \A i \in ToRoot(u) : /\ logs[i].amounts[id] \in Nat
                           /\ logs'[i].amounts[id] = logs[i].amounts[id]
  BY <1>n, <1>1, TransitFacts
<1>6. m \notin ToRoot(u) /\ IsFiniteSet(ToRoot(u))
  BY <1>n, <1>3, TransitFacts
<1>7. logs'[m].amounts[id] = x[id] /\ logs'[m].amounts[id] \in Nat
  BY <1>1, Facts
<1>8. /\ Total(logs', ToRoot(u), id) = Total(logs, ToRoot(u), id)
      /\ Total(logs', ToRoot(u) \cup {m}, id)
           = Total(logs, ToRoot(u), id) + logs'[m].amounts[id]
  <2>1. Written(logs, logs', ToRoot(u), m, id)
    BY ONLY <1>5, <1>6, <1>7 DEF Written
  <2> QED
    BY ONLY <2>1, TotalWritten
<1> QED
  BY <1>4, <1>7, <1>8

\* A burn that is paid is on its way no longer.
LEMMA ExitTransit ==
  ASSUME TypeOK, BurnsHaveHolders, NEW i \in 1..Len(logs), Exit(i),
         NEW u \in User, NEW id \in Id
  PROVE  /\ u = logs[i].from =>
              /\ Total(logs, ToRoot(u), id) = Total(logs', ToRoot(u)', id) + logs[i].amounts[id]
              /\ Total(logs', ToRoot(u)', id) \in Nat
         /\ u # logs[i].from =>
              Total(logs', ToRoot(u)', id) = Total(logs, ToRoot(u), id)
<1>1. i \in OpenBurns /\ OpenBurns' = OpenBurns \ {i} /\ logs' = logs
  BY ExitPays
<1>2. CASE u = logs[i].from
  <2>1. i \in ToRoot(u) /\ ToRoot(u)' = ToRoot(u) \ {i}
    BY <1>1, <1>2 DEF ToRoot
  <2>2. \A j \in ToRoot(u) : logs[j].amounts[id] \in Nat
    BY TransitFacts
  <2>3. IsFiniteSet(ToRoot(u)) /\ IsFiniteSet(ToRoot(u) \ {i})
    BY TransitFacts, FS_RemoveElement
  <2>4. /\ Total(logs, ToRoot(u), id)
              = Total(logs, ToRoot(u) \ {i}, id) + logs[i].amounts[id]
        /\ Total(logs, ToRoot(u) \ {i}, id) \in Nat
    BY <2>1, <2>2, <2>3, TotalRemove, TotalType
  <2> QED
    BY <1>1, <1>2, <2>1, <2>4
<1>3. CASE u # logs[i].from
  <2>1. ToRoot(u)' = ToRoot(u)
    BY <1>1, <1>3 DEF ToRoot
  <2> QED
    BY <1>1, <1>3, <2>1
<1> QED
  BY <1>2, <1>3

\* What a move leaves everybody, and that the sender had it.
LEMMA ChildMoveAt ==
  ASSUME TypeOK, NEW from \in User \cup {NoOne}, NEW to \in User \cup {NoOne},
         NEW x \in Amounts, MoveOnChild(from, to, x), NEW u \in User, NEW id \in Id
  PROVE  /\ childBalance[id][u] \in Nat /\ x[id] \in Nat
         /\ u = from => childBalance[id][u] >= x[id]
         /\ u # from /\ u = to => childBalance'[id][u] = childBalance[id][u] + x[id]
         /\ u = from /\ u # to => childBalance'[id][u] = childBalance[id][u] - x[id]
         /\ (u = from /\ u = to) \/ u \notin {from, to} =>
              childBalance'[id][u] = childBalance[id][u]
<1>1. PICK M : M = MaxUint[standard]
  OBVIOUS
<1>2. /\ M \in Nat /\ NoOne \notin User
      /\ childBalance \in [Id -> [User -> 0..M]] /\ x \in [Id -> Nat]
  BY <1>1, Facts DEF TypeOK
<1>3. /\ childBalance' = Moved(childBalance, from, to, x)
      /\ from # NoOne => Enough(childBalance, from, x)
  BY DEF MoveOnChild, Transfer
<1>4. Moved(childBalance, from, to, x)[id][u]
        = IF u = from THEN (IF u = to THEN childBalance[id][u] ELSE childBalance[id][u] - x[id])
          ELSE (IF u = to THEN childBalance[id][u] + x[id] ELSE childBalance[id][u])
  BY ONLY <1>2, MovedAt, u \in User, id \in Id
<1>5. childBalance[id][u] \in Nat /\ x[id] \in Nat
  <2>1. childBalance[id] \in [User -> 0..M]
    BY <1>2
  <2> QED
    BY <1>2, <2>1
<1>6. u = from => childBalance[id][u] >= x[id]
  BY <1>2, <1>3 DEF Enough
<1> QED
  BY <1>3, <1>4, <1>5, <1>6

\* The same on the root chain, with the supply.
LEMMA RootMoveAt ==
  ASSUME TypeOK, NEW from \in Holder \cup {NoOne}, NEW to \in Holder \cup {NoOne},
         NEW x \in Amounts, Transfer(rootBalance, from, to, x), NEW u \in Holder, NEW id \in Id
  PROVE  /\ rootBalance[id][u] \in Nat /\ x[id] \in Nat
         /\ u = from => rootBalance[id][u] >= x[id]
         /\ u # from /\ u = to => rootBalance'[id][u] = rootBalance[id][u] + x[id]
         /\ u = from /\ u # to => rootBalance'[id][u] = rootBalance[id][u] - x[id]
         /\ (u = from /\ u = to) \/ u \notin {from, to} =>
              rootBalance'[id][u] = rootBalance[id][u]
         /\ from # NoOne /\ to # NoOne => Supply(rootBalance', id) = Supply(rootBalance, id)
         /\ from = NoOne /\ to # NoOne =>
              Supply(rootBalance', id) = Supply(rootBalance, id) + x[id]
<1>1. PICK M : M = MaxUint[standard]
  OBVIOUS
<1>2. /\ M \in Nat /\ NoOne \notin Holder /\ IsFiniteSet(Holder)
      /\ rootBalance \in [Id -> [Holder -> 0..M]] /\ x \in [Id -> Nat]
  BY <1>1, Facts DEF TypeOK, Holder
<1>3. /\ rootBalance' = Moved(rootBalance, from, to, x)
      /\ from # NoOne => Enough(rootBalance, from, x)
  BY DEF Transfer
<1>4. Moved(rootBalance, from, to, x)[id][u]
        = IF u = from THEN (IF u = to THEN rootBalance[id][u] ELSE rootBalance[id][u] - x[id])
          ELSE (IF u = to THEN rootBalance[id][u] + x[id] ELSE rootBalance[id][u])
  BY ONLY <1>2, MovedAt, u \in Holder, id \in Id
<1>5. rootBalance[id][u] \in Nat /\ x[id] \in Nat
  <2>1. rootBalance[id] \in [Holder -> 0..M]
    BY <1>2
  <2> QED
    BY <1>2, <2>1
<1>6. u = from => rootBalance[id][u] >= x[id]
  BY <1>2, <1>3 DEF Enough
<1>7. /\ from # NoOne /\ to # NoOne =>
           Supply(Moved(rootBalance, from, to, x), id) = Supply(rootBalance, id)
      /\ from = NoOne /\ to # NoOne =>
           Supply(Moved(rootBalance, from, to, x), id) = Supply(rootBalance, id) + x[id]
  <2>1. from # NoOne => Enough(rootBalance, from, x)
    BY <1>3
  <2>2. Movable(M, Holder, rootBalance, from, to, x)
    BY <1>2, <2>1 DEF Movable
  <2> QED
    BY ONLY <2>2, SupplyMoved, id \in Id
<1> QED
  BY <1>3, <1>4, <1>5, <1>6, <1>7

-----------------------------------------------------------------------------
\* Step by step.  A transfer to oneself and a checkpoint change no wallet; a
\* transfer, a deposit, a burn, a delivery and an exit are payments.

\* The amounts of the token's standard are among those of the wallets.
LEMMA AmountsMove ==
  ASSUME TypeOK
  PROVE  Amounts \subseteq UNION {AmountsOf(s) : s \in Standard}
BY DEF TypeOK, Amounts

\* A transfer on the child chain.
LEMMA ChildTransferRefines ==
  ASSUME IInv, standard' = standard, NEW u \in User, NEW v \in User, NEW x \in Amounts,
         ChildTransfer(u, v, x)
  PROVE  [Wallets!Next]_WalletVars
<1>1. /\ TypeOK /\ BurnsHaveHolders /\ MoveOnChild(u, v, x) /\ v # NoOne
      /\ u \in User \cup {NoOne} /\ v \in User \cup {NoOne}
  BY Facts DEF IInv, ChildTransfer
<1>2. /\ rootBalance' = rootBalance /\ syncs' = syncs /\ processedExits' = processedExits
      /\ delivered' = delivered
  BY DEF ChildTransfer, rootVars
<1>3. supply' = supply
  BY <1>2 DEF supply
<1>4. ASSUME NEW a \in User, NEW id \in Id
      PROVE  /\ rootBalance'[id][a] = rootBalance[id][a]
             /\ Total(syncs', ToChild(a)', id) = Total(syncs, ToChild(a), id)
             /\ Total(logs', ToRoot(a)', id) = Total(logs, ToRoot(a), id)
             /\ a = u => childBalance[id][a] >= x[id]
             /\ a # u /\ a = v => childBalance'[id][a] = childBalance[id][a] + x[id]
             /\ a = u /\ a # v => childBalance'[id][a] = childBalance[id][a] - x[id]
             /\ (a = u /\ a = v) \/ a \notin {u, v} =>
                  childBalance'[id][a] = childBalance[id][a]
  <2>1. Total(syncs', ToChild(a)', id) = Total(syncs, ToChild(a), id)
    BY <1>2 DEF ToChild, PendingDeposits
  <2>2. Total(logs', ToRoot(a)', id) = Total(logs, ToRoot(a), id)
    BY <1>1, <1>2, BurnTransit
  <2> QED
    BY <1>1, <1>2, <2>1, <2>2, ChildMoveAt
<1>5. CASE u = v
  <2>1. AllSame
    BY <1>4, <1>5 DEF AllSame
  <2> QED
    BY <1>3, <2>1, Unmoved
<1>6. CASE u # v
  <2>1. AllAfter(<<"child", u>>, <<"child", v>>, x)
    BY <1>4, <1>6 DEF AllAfter, After
  <2>2. \A id \in Id : wallet[<<"child", u>>][id] >= x[id]
    BY <1>4, WalletIs
  <2>3. Wallets!Give("child", u, v, x)
    BY <1>3, <1>6, <2>1, <2>2, PaysIf DEF Wallets!Give, Wallets!Wallet
  <2> QED
    BY <1>1, <2>3, AmountsMove DEF Wallets!Next
<1> QED
  BY <1>5, <1>6

\* A burn: from the child chain to the way back.
LEMMA WithdrawRefines ==
  ASSUME IInv, standard' = standard, NEW u \in User, NEW x \in Amounts, Withdraw(u, x)
  PROVE  Wallets!Next
<1>1. /\ TypeOK /\ BurnsHaveHolders /\ MoveOnChild(u, NoOne, x) /\ u # NoOne
      /\ u \in User \cup {NoOne} /\ NoOne \in User \cup {NoOne} /\ NoOne \notin User
  BY Facts DEF IInv, Withdraw
<1>2. /\ rootBalance' = rootBalance /\ syncs' = syncs /\ processedExits' = processedExits
      /\ delivered' = delivered
  BY DEF Withdraw, rootVars
<1>3. supply' = supply
  BY <1>2 DEF supply
<1>4. ASSUME NEW a \in User, NEW id \in Id
      PROVE  /\ rootBalance'[id][a] = rootBalance[id][a]
             /\ Total(syncs', ToChild(a)', id) = Total(syncs, ToChild(a), id)
             /\ a = u => Total(logs', ToRoot(a)', id) = Total(logs, ToRoot(a), id) + x[id]
             /\ a # u => Total(logs', ToRoot(a)', id) = Total(logs, ToRoot(a), id)
             /\ a = u => childBalance[id][a] >= x[id]
             /\ a = u => childBalance'[id][a] = childBalance[id][a] - x[id]
             /\ a # u => childBalance'[id][a] = childBalance[id][a]
  <2>1. Total(syncs', ToChild(a)', id) = Total(syncs, ToChild(a), id)
    BY <1>2 DEF ToChild, PendingDeposits
  <2>2. /\ a = u => Total(logs', ToRoot(a)', id) = Total(logs, ToRoot(a), id) + x[id]
        /\ a # u => Total(logs', ToRoot(a)', id) = Total(logs, ToRoot(a), id)
    BY <1>1, <1>2, BurnTransit
  <2>3. /\ a = u => childBalance[id][a] >= x[id]
        /\ a = u => childBalance'[id][a] = childBalance[id][a] - x[id]
        /\ a # u => childBalance'[id][a] = childBalance[id][a]
    BY <1>1, ChildMoveAt
  <2> QED
    BY <1>2, <2>1, <2>2, <2>3
<1>5. AllAfter(<<"child", u>>, <<"toRoot", u>>, x)
  BY <1>4 DEF AllAfter, After
<1>6. \A id \in Id : wallet[<<"child", u>>][id] >= x[id]
  BY <1>4, WalletIs
<1>7. Wallets!Withdraw(u, x)
  BY <1>3, <1>5, <1>6, PaysIf DEF Wallets!Withdraw, Wallets!Wallet
<1> QED
  BY <1>1, <1>7, AmountsMove DEF Wallets!Next

\* A delivery: what was sent arrives.
LEMMA DeliverRefines ==
  ASSUME IInv, standard' = standard, Deliver
  PROVE  Wallets!Next
<1>n. PICK d, u, x : d = syncs[delivered + 1] /\ u = d.user /\ x = d.amounts
  OBVIOUS
<1>1. /\ TypeOK /\ BurnsHaveHolders /\ delivered < Len(syncs) /\ delivered' = delivered + 1
      /\ MoveOnChild(NoOne, u, x)
      /\ rootBalance' = rootBalance /\ syncs' = syncs /\ processedExits' = processedExits
  BY <1>n, DeliverMints DEF IInv, rootVars, MoveOnChild
<1>2. /\ u \in User /\ x \in Amounts /\ NoOne \notin User
      /\ u \in User \cup {NoOne} /\ NoOne \in User \cup {NoOne} /\ u # NoOne
  BY <1>n, <1>1, DeliverPending, Facts
<1>3. supply' = supply
  BY <1>1 DEF supply
<1>4. ASSUME NEW a \in User, NEW id \in Id
      PROVE  /\ rootBalance'[id][a] = rootBalance[id][a]
             /\ a = u => /\ Total(syncs', ToChild(a)', id) = Total(syncs, ToChild(a), id) - x[id]
                         /\ Total(syncs, ToChild(a), id) >= x[id]
             /\ a # u => Total(syncs', ToChild(a)', id) = Total(syncs, ToChild(a), id)
             /\ Total(logs', ToRoot(a)', id) = Total(logs, ToRoot(a), id)
             /\ a = u => childBalance'[id][a] = childBalance[id][a] + x[id]
             /\ a # u => childBalance'[id][a] = childBalance[id][a]
  <2>1. /\ a = u =>
             /\ Total(syncs, ToChild(a), id) = Total(syncs', ToChild(a)', id) + x[id]
             /\ Total(syncs', ToChild(a)', id) \in Nat
        /\ a # u => Total(syncs', ToChild(a)', id) = Total(syncs, ToChild(a), id)
    BY <1>n, <1>1, DeliverTransit
  <2>2. Total(logs', ToRoot(a)', id) = Total(logs, ToRoot(a), id)
    BY <1>1, <1>2, BurnTransit
  <2>3. /\ x[id] \in Nat
        /\ a = u => childBalance'[id][a] = childBalance[id][a] + x[id]
        /\ a # u => childBalance'[id][a] = childBalance[id][a]
    BY <1>1, <1>2, ChildMoveAt
  <2> QED
    BY <1>1, <2>1, <2>2, <2>3
<1>5. AllAfter(<<"toChild", u>>, <<"child", u>>, x)
  BY <1>4 DEF AllAfter, After
<1>6. \A id \in Id : wallet[<<"toChild", u>>][id] >= x[id]
  BY <1>2, <1>4, WalletIs
<1>7. Wallets!Arrive(u, x)
  BY <1>2, <1>3, <1>5, <1>6, PaysIf DEF Wallets!Arrive, Wallets!Wallet
<1> QED
  BY <1>1, <1>2, <1>7, AmountsMove DEF Wallets!Next

\* A step of the root chain that changes one account's balances.
OnlyOf(u) ==
  /\ \A a \in User \ {u}, id \in Id : rootBalance'[id][a] = rootBalance[id][a]
  /\ UNCHANGED <<childBalance, syncs, delivered, logs, processedExits>>

\* It changes one wallet, and no other.
LEMMA OneWallet ==
  ASSUME NEW u \in User, OnlyOf(u)
  PROVE  /\ wallet' = [wallet EXCEPT ![<<"root", u>>] = wallet'[<<"root", u>>]]
         /\ <<"root", u>> \in DOMAIN wallet
<1>1. ASSUME NEW a \in User, NEW id \in Id
      PROVE  /\ wallet'[<<"child", a>>][id] = wallet[<<"child", a>>][id]
             /\ wallet'[<<"toChild", a>>][id] = wallet[<<"toChild", a>>][id]
             /\ wallet'[<<"toRoot", a>>][id] = wallet[<<"toRoot", a>>][id]
             /\ a # u => wallet'[<<"root", a>>][id] = wallet[<<"root", a>>][id]
  <2>1. /\ Total(syncs', ToChild(a)', id) = Total(syncs, ToChild(a), id)
        /\ Total(logs', ToRoot(a)', id) = Total(logs, ToRoot(a), id)
    BY DEF OnlyOf, ToChild, ToRoot, PendingDeposits, OpenBurns
  <2>2. /\ wallet'[<<"root", a>>][id] = rootBalance'[id][a]
        /\ wallet'[<<"child", a>>][id] = childBalance'[id][a]
        /\ wallet'[<<"toChild", a>>][id] = Total(syncs', ToChild(a)', id)
        /\ wallet'[<<"toRoot", a>>][id] = Total(logs', ToRoot(a)', id)
    BY WalletIs
  <2>3. /\ wallet[<<"root", a>>][id] = rootBalance[id][a]
        /\ wallet[<<"child", a>>][id] = childBalance[id][a]
        /\ wallet[<<"toChild", a>>][id] = Total(syncs, ToChild(a), id)
        /\ wallet[<<"toRoot", a>>][id] = Total(logs, ToRoot(a), id)
    BY WalletIs
  <2>4. /\ childBalance'[id][a] = childBalance[id][a]
        /\ a # u => rootBalance'[id][a] = rootBalance[id][a]
    BY DEF OnlyOf
  <2> QED
    BY <2>1, <2>2, <2>3, <2>4
<1>2. ASSUME NEW w \in Wallets!Wallet, w # <<"root", u>> PROVE wallet'[w] = wallet[w]
  <2>1. /\ wallet[w] = [id \in Id |-> wallet[w][id]]
        /\ wallet'[w] = [id \in Id |-> wallet'[w][id]]
    BY WalletIs
  <2>2. PICK a \in User : w \in {<<"root", a>>, <<"child", a>>, <<"toChild", a>>, <<"toRoot", a>>}
    BY DEF Wallets!Wallet
  <2>3. ASSUME NEW id \in Id PROVE wallet'[w][id] = wallet[w][id]
    <3>1. CASE w = <<"root", a>>
      BY <1>1, <1>2, <3>1
    <3>2. CASE w # <<"root", a>>
      BY <1>1, <2>2, <3>2
    <3> QED
      BY <3>1, <3>2
  <2> QED
    BY <2>1, <2>3
<1>3. /\ wallet = [w \in Wallets!Wallet |-> [id \in Id |-> wallet[w][id]]]
      /\ wallet' = [w \in Wallets!Wallet |-> [id \in Id |-> wallet'[w][id]]]
  BY WalletIs
<1>4. <<"root", u>> \in Wallets!Wallet
  BY DEF Wallets!Wallet
<1> QED
  BY <1>2, <1>3, <1>4

\* The wallets of a holder, by id.
LEMMA RootWallet ==
  ASSUME NEW u \in User
  PROVE  /\ wallet[<<"root", u>>] = [id \in Id |-> rootBalance[id][u]]
         /\ wallet'[<<"root", u>>] = [id \in Id |-> rootBalance'[id][u]]
BY DEF wallet

\* Money that is minted on the root chain.
LEMMA MintsIf ==
  ASSUME NEW u \in User, NEW x, OnlyOf(u),
         \A id \in Id : rootBalance'[id][u] = rootBalance[id][u] + x[id],
         \A id \in Id : Supply(rootBalance', id) = Supply(rootBalance, id) + x[id]
  PROVE  Wallets!Mint(u, x)
<1>1. wallet'[<<"root", u>>] = Wallets!Plus(wallet[<<"root", u>>], x)
  <2>1. wallet'[<<"root", u>>] = [id \in Id |-> rootBalance[id][u] + x[id]]
    BY RootWallet
  <2>2. \A id \in Id : wallet[<<"root", u>>][id] = rootBalance[id][u]
    BY WalletIs
  <2> QED
    BY <2>1, <2>2 DEF Wallets!Plus
<1>2. wallet' = [wallet EXCEPT ![<<"root", u>>] = Wallets!Plus(@, x)]
  BY <1>1, OneWallet
<1>3. supply' = Wallets!Plus(supply, x)
  BY DEF supply, Wallets!Plus
<1> QED
  BY <1>2, <1>3 DEF Wallets!Mint

\* Money that is given to the bridge.
LEMMA SinksIf ==
  ASSUME NEW u \in User, NEW x, OnlyOf(u),
         \A id \in Id : /\ rootBalance[id][u] >= x[id]
                        /\ rootBalance'[id][u] = rootBalance[id][u] - x[id],
         supply' = supply
  PROVE  Wallets!Sink(u, x)
<1>1. wallet'[<<"root", u>>] = Wallets!Minus(wallet[<<"root", u>>], x)
  <2>1. wallet'[<<"root", u>>] = [id \in Id |-> rootBalance[id][u] - x[id]]
    BY RootWallet
  <2>2. \A id \in Id : wallet[<<"root", u>>][id] = rootBalance[id][u]
    BY WalletIs
  <2> QED
    BY <2>1, <2>2 DEF Wallets!Minus
<1>2. wallet' = [wallet EXCEPT ![<<"root", u>>] = Wallets!Minus(@, x)]
  BY <1>1, OneWallet
<1>3. \A id \in Id : wallet[<<"root", u>>][id] >= x[id]
  BY WalletIs
<1> QED
  BY <1>2, <1>3 DEF Wallets!Sink

\* Money that is minted on the root chain is new.
LEMMA RootMintRefines ==
  ASSUME IInv, standard' = standard, NEW u \in User, NEW x \in Amounts, RootMint(u, x)
  PROVE  Wallets!Next
<1>1. /\ TypeOK /\ Transfer(rootBalance, NoOne, u, x) /\ u # NoOne
      /\ u \in Holder \cup {NoOne} /\ NoOne \in Holder \cup {NoOne}
      /\ \A a \in User : a \in Holder /\ a # NoOne
  BY Facts DEF IInv, RootMint, Holder, Transfer
<1>2. ASSUME NEW a \in User, NEW id \in Id
      PROVE  /\ a = u => rootBalance'[id][a] = rootBalance[id][a] + x[id]
             /\ a # u => rootBalance'[id][a] = rootBalance[id][a]
  BY <1>1, RootMoveAt
<1>3. OnlyOf(u)
  BY <1>2 DEF OnlyOf, RootMint, childVars
<1>4. ASSUME NEW id \in Id
      PROVE  Supply(rootBalance', id) = Supply(rootBalance, id) + x[id]
  BY <1>1, RootMoveAt
<1>5. Wallets!Mint(u, x)
  BY <1>2, <1>3, <1>4, MintsIf
<1> QED
  BY <1>1, <1>5, AmountsMove DEF Wallets!Next

\* Between holders, or to the predicate, money is only moved.
LEMMA RootTransferRefines ==
  ASSUME IInv, standard' = standard, NEW u \in User, NEW v \in User \cup {Predicate},
         NEW x \in Amounts, RootTransfer(u, v, x)
  PROVE  [Wallets!Next]_WalletVars
<1>1. /\ TypeOK /\ Transfer(rootBalance, u, v, x) /\ u # NoOne /\ v # NoOne /\ u # Predicate
      /\ u \in Holder \cup {NoOne} /\ v \in Holder \cup {NoOne}
      /\ Predicate \notin User /\ \A a \in User : a \in Holder
  BY Facts DEF IInv, RootTransfer, Holder, Transfer
<1>2. /\ UNCHANGED <<childBalance, syncs, delivered, logs, processedExits>>
      /\ childBalance' = childBalance
  BY DEF RootTransfer, childVars
<1>3. ASSUME NEW a \in User, NEW id \in Id
      PROVE  /\ a = u => rootBalance[id][a] >= x[id]
             /\ a # u /\ a = v => rootBalance'[id][a] = rootBalance[id][a] + x[id]
             /\ a = u /\ a # v => rootBalance'[id][a] = rootBalance[id][a] - x[id]
             /\ (a = u /\ a = v) \/ a \notin {u, v} =>
                  rootBalance'[id][a] = rootBalance[id][a]
  BY <1>1, RootMoveAt
<1>4. supply' = supply
  <2>1. \A id \in Id : Supply(rootBalance', id) = Supply(rootBalance, id)
    BY <1>1, RootMoveAt
  <2> QED
    BY <2>1 DEF supply
<1>5. ASSUME NEW a \in User, NEW id \in Id
      PROVE  /\ Total(syncs', ToChild(a)', id) = Total(syncs, ToChild(a), id)
             /\ Total(logs', ToRoot(a)', id) = Total(logs, ToRoot(a), id)
  BY <1>2 DEF ToChild, ToRoot, PendingDeposits, OpenBurns
<1>6. CASE u = v
  <2>1. AllSame
    BY <1>2, <1>3, <1>5, <1>6 DEF AllSame
  <2> QED
    BY <1>4, <2>1, Unmoved
<1>7. CASE u # v /\ v \in User
  <2>1. AllAfter(<<"root", u>>, <<"root", v>>, x)
    BY <1>2, <1>3, <1>5, <1>7 DEF AllAfter, After
  <2>2. \A id \in Id : wallet[<<"root", u>>][id] >= x[id]
    BY <1>3, WalletIs
  <2>3. Wallets!Give("root", u, v, x)
    BY <1>4, <1>7, <2>1, <2>2, PaysIf DEF Wallets!Give, Wallets!Wallet
  <2> QED
    BY <1>1, <1>7, <2>3, AmountsMove DEF Wallets!Next
<1>8. CASE v = Predicate
  <2>1. OnlyOf(u)
    BY <1>1, <1>2, <1>3, <1>8 DEF OnlyOf
  <2>2. Wallets!Sink(u, x)
    BY <1>1, <1>3, <1>4, <1>8, <2>1, SinksIf
  <2> QED
    BY <1>1, <2>2, AmountsMove DEF Wallets!Next
<1> QED
  BY <1>6, <1>7, <1>8

\* A deposit: to the way to the child chain, in the name of its receiver.
LEMMA DepositForRefines ==
  ASSUME IInv, standard' = standard, NEW u \in User, NEW v \in User, NEW x \in Amounts,
         DepositFor(u, v, x)
  PROVE  Wallets!Next
<1>1. /\ TypeOK /\ Transfer(rootBalance, u, Predicate, x) /\ u # NoOne /\ Predicate # NoOne
      /\ u # Predicate /\ u \in Holder \cup {NoOne} /\ Predicate \in Holder \cup {NoOne}
      /\ \A a \in User : a \in Holder /\ a # Predicate
  BY Facts, FungibleAssumption DEF IInv, DepositFor, LockTokens, Holder, Transfer
<1>2. /\ syncs' = Append(syncs, [user |-> v, amounts |-> x]) /\ delivered' = delivered
      /\ childBalance' = childBalance /\ logs' = logs /\ processedExits' = processedExits
  BY DEF DepositFor, childVars
<1>3. supply' = supply
  <2>1. \A id \in Id : Supply(rootBalance', id) = Supply(rootBalance, id)
    BY <1>1, RootMoveAt
  <2> QED
    BY <2>1 DEF supply
<1>4. ASSUME NEW a \in User, NEW id \in Id
      PROVE  /\ a = u => rootBalance[id][a] >= x[id]
             /\ a = u => rootBalance'[id][a] = rootBalance[id][a] - x[id]
             /\ a # u => rootBalance'[id][a] = rootBalance[id][a]
             /\ childBalance'[id][a] = childBalance[id][a]
             /\ a = v => Total(syncs', ToChild(a)', id) = Total(syncs, ToChild(a), id) + x[id]
             /\ a # v => Total(syncs', ToChild(a)', id) = Total(syncs, ToChild(a), id)
             /\ Total(logs', ToRoot(a)', id) = Total(logs, ToRoot(a), id)
  <2>1. /\ a = u => rootBalance[id][a] >= x[id]
        /\ a = u => rootBalance'[id][a] = rootBalance[id][a] - x[id]
        /\ a # u => rootBalance'[id][a] = rootBalance[id][a]
    BY <1>1, RootMoveAt
  <2>2. /\ a = v => Total(syncs', ToChild(a)', id) = Total(syncs, ToChild(a), id) + x[id]
        /\ a # v => Total(syncs', ToChild(a)', id) = Total(syncs, ToChild(a), id)
    BY <1>1, <1>2, SendTransit
  <2>3. Total(logs', ToRoot(a)', id) = Total(logs, ToRoot(a), id)
    BY <1>2 DEF ToRoot, OpenBurns
  <2> QED
    BY <1>2, <2>1, <2>2, <2>3
<1>5. AllAfter(<<"root", u>>, <<"toChild", v>>, x)
  BY <1>4 DEF AllAfter, After
<1>6. \A id \in Id : wallet[<<"root", u>>][id] >= x[id]
  BY <1>4, WalletIs
<1>7. Wallets!Deposit(u, v, x)
  BY <1>3, <1>5, <1>6, PaysIf DEF Wallets!Deposit, Wallets!Wallet
<1> QED
  BY <1>1, <1>7, AmountsMove DEF Wallets!Next

\* An exit: what was burned arrives with who burned it.
LEMMA ExitRefines ==
  ASSUME IInv, standard' = standard, NEW i \in 1..Len(logs), Exit(i)
  PROVE  Wallets!Next
<1>n. PICK u, x : u = logs[i].from /\ x = logs[i].amounts
  OBVIOUS
<1>1. /\ TypeOK /\ BurnsHaveHolders /\ u \in User /\ x \in Amounts
      /\ Transfer(rootBalance, Predicate, u, x)
      /\ delivered' = delivered /\ syncs' = syncs /\ childBalance' = childBalance
  BY <1>n, ExitPays DEF IInv, Transfer
<1>2. /\ u # NoOne /\ Predicate # NoOne /\ u # Predicate
      /\ u \in Holder \cup {NoOne} /\ Predicate \in Holder \cup {NoOne}
      /\ \A a \in User : a \in Holder /\ a # Predicate
  BY <1>1, FungibleAssumption DEF Holder
<1>3. supply' = supply
  <2>1. \A id \in Id : Supply(rootBalance', id) = Supply(rootBalance, id)
    BY <1>1, <1>2, RootMoveAt
  <2> QED
    BY <2>1 DEF supply
<1>4. ASSUME NEW a \in User, NEW id \in Id
      PROVE  /\ a = u => rootBalance'[id][a] = rootBalance[id][a] + x[id]
             /\ a # u => rootBalance'[id][a] = rootBalance[id][a]
             /\ childBalance'[id][a] = childBalance[id][a]
             /\ Total(syncs', ToChild(a)', id) = Total(syncs, ToChild(a), id)
             /\ a = u => /\ Total(logs', ToRoot(a)', id) = Total(logs, ToRoot(a), id) - x[id]
                         /\ Total(logs, ToRoot(a), id) >= x[id]
             /\ a # u => Total(logs', ToRoot(a)', id) = Total(logs, ToRoot(a), id)
  <2>1. /\ x[id] \in Nat
        /\ a = u => rootBalance'[id][a] = rootBalance[id][a] + x[id]
        /\ a # u => rootBalance'[id][a] = rootBalance[id][a]
    BY <1>1, <1>2, RootMoveAt
  <2>2. Total(syncs', ToChild(a)', id) = Total(syncs, ToChild(a), id)
    BY <1>1 DEF ToChild, PendingDeposits
  <2>3. /\ a = u =>
             /\ Total(logs, ToRoot(a), id) = Total(logs', ToRoot(a)', id) + x[id]
             /\ Total(logs', ToRoot(a)', id) \in Nat
        /\ a # u => Total(logs', ToRoot(a)', id) = Total(logs, ToRoot(a), id)
    BY <1>n, <1>1, ExitTransit
  <2> QED
    BY <1>1, <2>1, <2>2, <2>3
<1>5. AllAfter(<<"toRoot", u>>, <<"root", u>>, x)
  BY <1>4 DEF AllAfter, After
<1>6. \A id \in Id : wallet[<<"toRoot", u>>][id] >= x[id]
  BY <1>1, <1>4, WalletIs
<1>7. Wallets!Arrive(u, x)
  BY <1>1, <1>3, <1>5, <1>6, PaysIf DEF Wallets!Arrive, Wallets!Wallet
<1> QED
  BY <1>1, <1>7, AmountsMove DEF Wallets!Next

\* A checkpoint changes no wallet.
LEMMA CheckpointRefines ==
  ASSUME SubmitCheckpoint
  PROVE  UNCHANGED WalletVars
<1>1. /\ rootBalance' = rootBalance /\ childBalance' = childBalance /\ logs' = logs
      /\ syncs' = syncs /\ delivered' = delivered /\ processedExits' = processedExits
  BY DEF SubmitCheckpoint, rootVars, childVars
<1>2. AllSame
  BY <1>1 DEF AllSame, ToChild, ToRoot, PendingDeposits, OpenBurns
<1>3. supply' = supply
  BY <1>1 DEF supply
<1> QED
  BY <1>2, <1>3, Unmoved

\* Nobody has anything at first.
LEMMA InitRefines == Init => Wallets!Init
<1> SUFFICES ASSUME Init PROVE Wallets!Init
  OBVIOUS
<1>1. PendingDeposits = {} /\ OpenBurns = {}
  BY DEF Init, PendingDeposits, OpenBurns
<1>2. ASSUME NEW u \in User, NEW id \in Id
      PROVE  /\ wallet[<<"root", u>>][id] = 0 /\ wallet[<<"child", u>>][id] = 0
             /\ wallet[<<"toChild", u>>][id] = 0 /\ wallet[<<"toRoot", u>>][id] = 0
  <2>1. ToChild(u) = {} /\ ToRoot(u) = {}
    BY <1>1 DEF ToChild, ToRoot
  <2>2. Total(syncs, ToChild(u), id) = 0 /\ Total(logs, ToRoot(u), id) = 0
    BY <2>1, TotalEmpty
  <2>3. rootBalance[id][u] = 0 /\ childBalance[id][u] = 0
    BY DEF Init
  <2> QED
    BY <2>2, <2>3, WalletIs
<1>3. ASSUME NEW w \in Wallets!Wallet, NEW id \in Id PROVE wallet[w][id] = 0
  <2>1. PICK u \in User : w \in {<<"root", u>>, <<"child", u>>, <<"toChild", u>>, <<"toRoot", u>>}
    BY DEF Wallets!Wallet
  <2> QED
    BY <1>2, <2>1
<1>4. wallet = [w \in Wallets!Wallet |-> [id \in Id |-> 0]]
  <2>1. wallet = [w \in Wallets!Wallet |-> [id \in Id |-> wallet[w][id]]]
    BY WalletIs
  <2>2. [w \in Wallets!Wallet |-> [id \in Id |-> wallet[w][id]]]
          = [w \in Wallets!Wallet |-> [id \in Id |-> 0]]
    BY <1>3
  <2> QED
    BY <2>1, <2>2
<1>5. supply = [id \in Id |-> 0]
  <2>1. ASSUME NEW id \in Id PROVE Supply(rootBalance, id) = 0
    <3>1. rootBalance[id] = [a \in User \cup {Predicate} |-> 0]
      BY DEF Init
    <3>2. IsFiniteSet(User \cup {Predicate})
      BY FungibleAssumption, FS_AddElement
    <3> QED
      BY <3>1, <3>2, SumZero DEF Supply, SumFunction
  <2> QED
    BY <2>1 DEF supply
<1> QED
  BY <1>4, <1>5 DEF Wallets!Init

\* Every step is one of the wallets, or none.
LEMMA NextRefines ==
  ASSUME IInv, [Next]_vars
  PROVE  [Wallets!Next]_WalletVars
<1>1. CASE UNCHANGED vars
  <2>1. /\ rootBalance' = rootBalance /\ childBalance' = childBalance /\ logs' = logs
        /\ syncs' = syncs /\ delivered' = delivered /\ processedExits' = processedExits
    BY <1>1 DEF vars, rootVars, childVars
  <2>2. AllSame
    BY <2>1 DEF AllSame, ToChild, ToRoot, PendingDeposits, OpenBurns
  <2>3. supply' = supply
    BY <2>1 DEF supply
  <2> QED
    BY <2>2, <2>3, Unmoved
<1>2. CASE Next
  <2>1. standard' = standard /\ Step
    BY <1>2 DEF Next
  <2>2. ASSUME NEW u \in User, NEW v \in User, NEW x \in Amounts, ChildTransfer(u, v, x)
        PROVE  [Wallets!Next]_WalletVars
    BY <2>1, <2>2, ChildTransferRefines
  <2>3. ASSUME NEW u \in User, NEW x \in Amounts, Withdraw(u, x)
        PROVE  [Wallets!Next]_WalletVars
    BY <2>1, <2>3, WithdrawRefines
  <2>4. CASE Deliver
    BY <2>1, <2>4, DeliverRefines
  <2>5. CASE SubmitCheckpoint
    BY <2>5, CheckpointRefines
  <2>6. ASSUME NEW u \in User, NEW x \in Amounts, RootMint(u, x)
        PROVE  [Wallets!Next]_WalletVars
    BY <2>1, <2>6, RootMintRefines
  <2>7. ASSUME NEW u \in User, NEW v \in User \cup {Predicate}, NEW x \in Amounts,
               RootTransfer(u, v, x)
        PROVE  [Wallets!Next]_WalletVars
    BY <2>1, <2>7, RootTransferRefines
  <2>8. ASSUME NEW u \in User, NEW v \in User, NEW x \in Amounts, DepositFor(u, v, x)
        PROVE  [Wallets!Next]_WalletVars
    BY <2>1, <2>8, DepositForRefines
  <2>9. ASSUME NEW i \in 1..Len(logs), Exit(i)
        PROVE  [Wallets!Next]_WalletVars
    BY <2>1, <2>9, ExitRefines
  <2> QED
    BY <2>1, <2>2, <2>3, <2>4, <2>5, <2>6, <2>7, <2>8, <2>9 DEF Step
<1> QED
  BY <1>1, <1>2

\* Seen from its users, the bridge only moves money from wallet to wallet: what is
\* locked, sent, minted, burned, proved and released is always somebody's, and
\* no step makes or loses any of it.
THEOREM FungibleImplementsWallets == Spec => ImplementsWallets
<1>1. IInv /\ [Next]_vars => [Wallets!Next]_<<wallet, supply>>
  BY NextRefines DEF WalletVars
<1> QED
  BY <1>1, InitRefines, Invariant, PTL DEF Spec, ImplementsWallets, Wallets!Spec
=============================================================================
