----------------------------- MODULE ATokenProofs -----------------------------
(***************************************************************************)
(* Theorems about the conversions of the aToken bridge, for every word     *)
(* size, unit and argument; about the bridge, for every set of tokens,     *)
(* bytecode hashes and managers, and every bound; and about the scripts    *)
(* that operate it (ATokenHandover, which shares no variable with it), for *)
(* any tokens, any list of them, any number of transactions that wait and  *)
(* of scripts that run.                                                    *)
(***************************************************************************)
EXTENDS ATokenBridge, ATokenHandover, SumTheorems, SequenceTheorems

-----------------------------------------------------------------------------
\* The conversions.

\* What the quotient and the remainder are.
LEMMA DivBounds ==
  ASSUME NEW n \in Nat, NEW d \in Nat \ {0}
  PROVE  /\ n \div d \in Nat
         /\ d * (n \div d) <= n
         /\ n < d * (n \div d) + d
BY Z3

\* There is no other.
LEMMA DivUnique ==
  ASSUME NEW n \in Nat, NEW d \in Nat \ {0}, NEW q \in Nat,
         d * q <= n, n < d * q + d
  PROVE  n \div d = q
BY Z3

\* Wrapping leaves words alone, and takes at least one word from the rest.
LEMMA WrapFacts ==
  ASSUME NEW n \in Nat
  PROVE  /\ Wrap(n) \in Nat
         /\ Wrap(n) < Word
         /\ n < Word => Wrap(n) = n
         /\ n >= Word => Wrap(n) <= n - Word
BY WordAssumption, Z3 DEF Wrap

\* Adding half of the divisor before the division rounds half up.
LEMMA HalfUpByAddition ==
  ASSUME NEW n \in Nat, NEW d \in Nat \ {0}
  PROVE  (n + d \div 2) \div d = HalfUp(n, d)
<1> DEFINE h == d \div 2
           q == (n + h) \div d
<1>1. h \in Nat /\ 2 * h <= d /\ d <= 2 * h + 1
  BY DivBounds, 2 \in Nat \ {0}
<1>2. q \in Nat /\ d * q <= n + h /\ n + h < d * q + d
  BY <1>1, DivBounds, n + h \in Nat
<1> DEFINE p == d * q
<1>3. p \in Nat /\ (2 * d) * q = 2 * p
  BY <1>2, Z3
<1> HIDE DEF h
<1>4. p <= n + h /\ n + h < p + d
  BY <1>2
<1> HIDE DEF q
<1>5. 2 * p <= 2 * n + d /\ 2 * n + d < 2 * p + 2 * d
  <2> HIDE DEF p
  <2> QED BY <1>1, <1>3, <1>4
<1>6. (2 * n + d) \div (2 * d) = q
  <2>1. 2 * n + d \in Nat /\ 2 * d \in Nat \ {0}
    OBVIOUS
  <2>2. (2 * d) * q <= 2 * n + d /\ 2 * n + d < (2 * d) * q + 2 * d
    BY <1>3, <1>5
  <2> QED BY <2>1, <2>2, <1>2, DivUnique
<1> QED BY <1>6 DEF q, h, HalfUp

\* Solidity's way to see an overflow of a sum: it is less than what was added.
LEMMA SumCheck ==
  ASSUME NEW n \in Nat, NEW h \in Nat, n < Word
  PROVE  /\ Wrap(n + h) >= h <=> n + h < Word
         /\ n + h < Word => Wrap(n + h) = n + h
<1>1. n + h \in Nat /\ Word \in Nat
  BY WordAssumption
<1>2. CASE n + h < Word
  BY <1>1, <1>2, WrapFacts
<1>3. CASE n + h >= Word
  <2>1. Wrap(n + h) <= n + h - Word /\ Wrap(n + h) \in Nat
    BY <1>1, <1>3, WrapFacts
  <2> QED BY <1>1, <1>3, <2>1
<1> QED BY <1>1, <1>2, <1>3

\* Solidity's way to see an overflow of a product: dividing by one factor does
\* not give the other one back.
LEMMA ProductCheck ==
  ASSUME NEW m \in Nat \ {0}, NEW n \in Nat
  PROVE  /\ n = Wrap(m * n) \div m <=> m * n < Word
         /\ m * n < Word => Wrap(m * n) = m * n
<1> DEFINE p == m * n
<1>1. p \in Nat /\ Word \in Nat
  BY WordAssumption, Z3
<1>2. CASE p < Word
  <2>1. Wrap(p) = p
    BY <1>1, <1>2, WrapFacts
  <2>2. p \div m = n
    BY <1>1, DivUnique
  <2> QED BY <1>2, <2>1, <2>2
<1>3. CASE p >= Word
  <2>1. Wrap(p) \in Nat /\ Wrap(p) <= p - Word
    BY <1>1, <1>3, WrapFacts
  <2>2. m * (Wrap(p) \div m) <= Wrap(p)
    BY <2>1, DivBounds
  <2>3. Word > 0
    BY WordAssumption
  <2>4. n # Wrap(p) \div m
    <3> SUFFICES ASSUME n = Wrap(p) \div m PROVE FALSE
      OBVIOUS
    <3>1. p <= Wrap(p)
      BY <2>2
    <3> HIDE DEF p
    <3> QED BY <1>1, <2>1, <2>3, <3>1
  <2> QED BY <1>1, <1>3, <2>4
<1> QED BY <1>1, <1>2, <1>3

-----------------------------------------------------------------------------
\* p27Div is the rounded quotient of its comment and reverts exactly if that
\* cannot be computed in words: both of its checks find every overflow.
THEOREM DivRoundsHalfUp == \A a, b \in Uint : DivIsHalfUp(a, b)
<1> SUFFICES ASSUME NEW a \in Uint, NEW b \in Uint PROVE DivIsHalfUp(a, b)
  OBVIOUS
<1> DEFINE n == a * P27
           h == b \div 2
<1>1. a \in Nat /\ b \in Nat /\ P27 \in Nat \ {0} /\ Word \in Nat
  BY WordAssumption DEF Uint
<1>2. n \in Nat /\ n = P27 * a
  BY <1>1, Z3
<1>3. h \in Nat
  BY <1>1, DivBounds, 2 \in Nat \ {0}
<1>4. /\ a = Wrap(n) \div P27 <=> n < Word
      /\ n < Word => Wrap(n) = n
  BY <1>1, <1>2, ProductCheck
<1>5. n < Word => /\ Wrap(n + h) >= h <=> n + h < Word
                  /\ n + h < Word => Wrap(n + h) = n + h
  BY <1>2, <1>3, SumCheck
<1>6. b # 0 => (n + h) \div b = HalfUp(n, b)
  BY <1>1, <1>2, HalfUpByAddition
<1>7. n + h < Word => n < Word
  BY <1>1, <1>2, <1>3
<1> HIDE DEF n, h
<1>8. CASE b # 0 /\ n + h < Word
  BY <1>4, <1>5, <1>6, <1>7, <1>8 DEF DivIsHalfUp, p27Div, n, h
<1>9. CASE ~(b # 0 /\ n + h < Word)
  BY <1>4, <1>5, <1>7, <1>9 DEF DivIsHalfUp, p27Div, n, h
<1> QED BY <1>8, <1>9

\* Half a unit is a word.
LEMMA HalfFacts == HALF_P27 \in Nat /\ HALF_P27 < Word
<1>1. P27 \in Nat \ {0} /\ Word \in Nat /\ P27 < Word
  BY WordAssumption
<1>2. HALF_P27 \in Nat /\ 2 * HALF_P27 <= P27
  BY <1>1, DivBounds, 2 \in Nat \ {0} DEF HALF_P27
<1> QED BY <1>1, <1>2

\* p27Mul is the rounded product of its comment for factors for which it can be
\* computed in words.  For others it reverts, but for those whose product wraps to zero, for
\* which it returns 0: the one overflow that its checks do not find.
THEOREM MulRoundsHalfUp == \A a, b \in Uint : MulIsHalfUp(a, b)
<1> SUFFICES ASSUME NEW a \in Uint, NEW b \in Uint PROVE MulIsHalfUp(a, b)
  OBVIOUS
<1> DEFINE n == a * b
<1>1. a \in Nat /\ b \in Nat /\ P27 \in Nat \ {0} /\ Word \in Nat
  BY WordAssumption DEF Uint
<1>2. n \in Nat /\ (n # 0 => a \in Nat \ {0})
  BY <1>1, Z3
<1>3. n # 0 => /\ b = Wrap(n) \div a <=> n < Word
               /\ n < Word => Wrap(n) = n
  BY <1>1, <1>2, ProductCheck
<1>4. HALF_P27 \in Nat
  BY <1>1, DivBounds, 2 \in Nat \ {0} DEF HALF_P27
<1>5. n < Word => /\ Wrap(n + HALF_P27) >= HALF_P27 <=> n + HALF_P27 < Word
                  /\ n + HALF_P27 < Word => Wrap(n + HALF_P27) = n + HALF_P27
  BY <1>2, <1>4, SumCheck
<1>6. (n + HALF_P27) \div P27 = HalfUp(n, P27)
  BY <1>1, <1>2, HalfUpByAddition DEF HALF_P27
<1>7. n < Word => Wrap(n) = n
  BY <1>2, WrapFacts
<1>8. HalfUp(0, P27) = 0
  <2>1. (2 * 0 + P27) \div (2 * P27) = 0
    BY <1>1, DivUnique, 2 * 0 + P27 = P27, 2 * P27 \in Nat \ {0}, (2 * P27) * 0 = 0
  <2> QED BY <2>1 DEF HalfUp
<1> HIDE DEF n
<1>9. ASSUME n < Word
      PROVE  p27Mul(a, b) = IF n + HALF_P27 < Word THEN {HalfUp(n, P27)}
                            ELSE IF Wrap(n) = 0 THEN {0} ELSE {}
  <2>1. CASE n = 0
    <3>1. n + HALF_P27 < Word
      BY HalfFacts, <2>1
    <3> QED BY <1>7, <1>8, <1>9, <2>1, <3>1 DEF p27Mul, n
  <2>2. CASE n # 0
    BY <1>3, <1>5, <1>6, <1>7, <1>9, <2>2 DEF p27Mul, n
  <2> QED BY <2>1, <2>2
<1>10. ASSUME n >= Word PROVE p27Mul(a, b) = IF Wrap(n) = 0 THEN {0} ELSE {}
  <2>1. n # 0 /\ ~(n < Word)
    BY <1>1, <1>2, <1>10, WordAssumption
  <2> QED BY <1>3, <2>1 DEF p27Mul, n
<1>11. n < Word \/ (n >= Word /\ ~(n + HALF_P27 < Word))
  BY <1>1, <1>2, <1>4
<1> QED BY <1>9, <1>10, <1>11 DEF MulIsHalfUp, n

\* What an exit pays is worth the units that were burned, at every index from 1
\* upwards: two roundings give back what went in.
THEOREM RoundTripExact == \A u, i \in Uint : RoundTrip(u, i)
<1> SUFFICES ASSUME NEW u \in Uint, NEW i \in Uint, i >= P27, u * i < Word,
                    NEW v \in p27Mul(u, i)
             PROVE  p27Div(v, i) \subseteq {u}
  BY DEF RoundTrip
<1> DEFINE n == u * i
           m == v * P27
<1>1. u \in Nat /\ i \in Nat \ {0} /\ P27 \in Nat \ {0} /\ Word \in Nat
  BY WordAssumption DEF Uint
<1>2. n \in Nat /\ (2 * i) * u = 2 * n
  BY <1>1, Z3
<1>3. v = HalfUp(n, P27)
  <2>1. n < Word /\ Wrap(n) = n
    BY <1>2, WrapFacts
  <2>2. v \in IF n + HALF_P27 < Word THEN {HalfUp(n, P27)} ELSE IF Wrap(n) = 0 THEN {0} ELSE {}
    BY MulRoundsHalfUp DEF MulIsHalfUp
  <2> HIDE DEF n
  <2>3. Wrap(n) = 0 => n + HALF_P27 < Word
    BY <2>1, HalfFacts
  <2> QED BY <2>2, <2>3
<1>4. /\ v \in Nat
      /\ (2 * P27) * v <= 2 * n + P27
      /\ 2 * n + P27 < (2 * P27) * v + 2 * P27
  <2>1. 2 * n + P27 \in Nat /\ 2 * P27 \in Nat \ {0}
    BY <1>1, <1>2
  <2> HIDE DEF n
  <2> QED BY <1>3, <2>1, DivBounds DEF HalfUp
<1>5. m \in Nat /\ (2 * P27) * v = 2 * m
  BY <1>1, <1>4, Z3
<1>6. 2 * m <= 2 * n + P27 /\ 2 * n < 2 * m + P27
  <2> HIDE DEF n, m
  <2> QED BY <1>1, <1>2, <1>4, <1>5
<1>7. HalfUp(m, i) = u
  <2>1. CASE i = P27
    <3>1. (2 * n + P27) \div (2 * P27) = u
      <4>1. 2 * n + P27 \in Nat /\ 2 * P27 \in Nat \ {0}
        BY <1>1, <1>2
      <4>2. (2 * P27) * u <= 2 * n + P27 /\ 2 * n + P27 < (2 * P27) * u + 2 * P27
        <5> HIDE DEF n
        <5> QED BY <1>1, <1>2, <2>1
      <4> QED BY <1>1, <4>1, <4>2, DivUnique
    <3>2. v = u
      BY <1>3, <3>1 DEF HalfUp
    <3> QED BY <1>3, <2>1, <3>2
  <2>2. CASE i > P27
    <3>1. 2 * m + i \in Nat /\ 2 * i \in Nat \ {0}
      BY <1>1, <1>5
    <3>2. (2 * i) * u <= 2 * m + i /\ 2 * m + i < (2 * i) * u + 2 * i
      <4> HIDE DEF n, m
      <4> QED BY <1>1, <1>2, <1>5, <1>6, <2>2
    <3>3. (2 * m + i) \div (2 * i) = u
      <4> HIDE DEF m
      <4> QED BY <1>1, <3>1, <3>2, DivUnique
    <3> QED BY <3>3 DEF HalfUp
  <2> QED BY <1>1, <2>1, <2>2
<1>8. v \in Uint
  <2>1. P27 >= 2 /\ P27 < Word
    BY WordAssumption
  <2>2. 2 * v <= m
    BY <1>1, <1>4, <2>1, Z3
  <2> HIDE DEF m
  <2>3. n < Word /\ n \in Nat
    BY <1>2
  <2> HIDE DEF n
  <2>4. v < Word
    BY <1>1, <1>4, <1>5, <1>6, <2>1, <2>2, <2>3
  <2> QED BY <1>1, <1>4, <2>4 DEF Uint
<1> QED BY <1>7, <1>8, DivRoundsHalfUp DEF DivIsHalfUp

-----------------------------------------------------------------------------
\* The registries.

\* What the clean-ups need besides OneToOne.  Address zero has no partner, or
\* they would write there; and a child token can only be the partner of the root
\* token that is part of its address, which mapToken, that cleans nothing, needs.
Sound(forward, backward) ==
  /\ forward \in Forward /\ backward \in Backward
  /\ forward[Zero] = Zero /\ backward[Zero] = Zero
  /\ OneToOneIn(forward, backward)
  /\ \A c \in Address : backward[c] # Zero => backward[c] = c[2]

\* A pair that is free on both sides can be written without cleaning up.
LEMMA MappingFresh ==
  ASSUME NEW f, NEW b, Sound(f, b), NEW r \in RootToken, NEW c \in Address, c[2] = r,
         f[r] = Zero
  PROVE  Sound([f EXCEPT ![r] = c], [b EXCEPT ![c] = r])
<1>1. Zero \notin RootToken /\ Zero \notin Address
  BY ATokenAssumption DEF Address
<1>2. f \in Forward /\ b \in Backward /\ f[Zero] = Zero /\ b[Zero] = Zero
  BY DEF Sound
<1>3. b[c] = Zero
  BY <1>1 DEF Sound, OneToOneIn
<1> DEFINE g == [f EXCEPT ![r] = c]
           h == [b EXCEPT ![c] = r]
<1>4. /\ g[r] = c /\ \A s \in RootToken \cup {Zero} : s # r => g[s] = f[s]
      /\ h[c] = r /\ \A d \in Address \cup {Zero} : d # c => h[d] = b[d]
      /\ g \in Forward /\ h \in Backward
  BY <1>2 DEF Forward, Backward
<1> HIDE DEF g, h
<1>5. g[Zero] = Zero /\ h[Zero] = Zero
  BY <1>1, <1>2, <1>4
<1>6. OneToOneIn(g, h)
  <2>1. ASSUME NEW s \in RootToken, g[s] # Zero PROVE h[g[s]] = s
    <3>1. CASE s = r
      BY <1>4, <3>1
    <3>2. CASE s # r
      <4>1. g[s] = f[s] /\ b[f[s]] = s /\ f[s] \in Address
        BY <1>2, <1>4, <2>1, <3>2 DEF Sound, OneToOneIn, Forward
      <4>2. f[s] # c
        BY <1>1, <1>3, <4>1
      <4> QED BY <1>4, <4>1, <4>2
    <3> QED BY <3>1, <3>2
  <2>2. ASSUME NEW d \in Address, h[d] # Zero PROVE g[h[d]] = d
    <3>1. CASE d = c
      BY <1>4, <3>1
    <3>2. CASE d # c
      <4>1. h[d] = b[d] /\ f[b[d]] = d /\ b[d] \in RootToken
        BY <1>2, <1>4, <2>2, <3>2 DEF Sound, OneToOneIn, Backward
      <4>2. b[d] # r
        BY <1>1, <4>1
      <4> QED BY <1>4, <4>1, <4>2
    <3> QED BY <3>1, <3>2
  <2> QED BY <2>1, <2>2 DEF OneToOneIn
<1>7. \A d \in Address : h[d] # Zero => h[d] = d[2]
  BY <1>4 DEF Sound
<1> QED BY <1>4, <1>5, <1>6, <1>7 DEF Sound, g, h

\* Clearing the old partners leaves a sound registry in which r is free.
LEMMA CleaningFrees ==
  ASSUME NEW f, NEW b, Sound(f, b), NEW r \in RootToken, NEW c \in Address, c[2] = r,
         c # f[r]
  PROVE  LET old == Cleaned(f, b, b[c], f[r])
         IN  Sound([old.rootToChildToken EXCEPT ![r] = c],
                   [old.childToRootToken EXCEPT ![c] = r])
<1>1. Zero \notin RootToken /\ Zero \notin Address
  BY ATokenAssumption DEF Address
<1>2. f \in Forward /\ b \in Backward /\ f[Zero] = Zero /\ b[Zero] = Zero
  BY DEF Sound
<1>3. b[c] = Zero
  <2>1. b[c] # Zero => b[c] = r /\ f[b[c]] = c
    BY DEF Sound, OneToOneIn
  <2> QED BY <2>1
<1> DEFINE old == Cleaned(f, b, b[c], f[r])
           g == [f EXCEPT ![r] = c]
           h == [b EXCEPT ![f[r]] = Zero, ![c] = r]
<1>4. old.rootToChildToken = f
  BY <1>2, <1>3 DEF Cleaned
<1>5. old.childToRootToken = [b EXCEPT ![f[r]] = Zero]
  BY <1>2 DEF Cleaned, Backward, Forward
<1>6. /\ g[r] = c /\ \A s \in RootToken \cup {Zero} : s # r => g[s] = f[s]
      /\ h[c] = r /\ \A d \in Address \cup {Zero} : d # c /\ d # f[r] => h[d] = b[d]
      /\ h[f[r]] = Zero
      /\ g \in Forward /\ h \in Backward
  BY <1>2 DEF Forward, Backward
<1> HIDE DEF g, h, old
<1>7. g[Zero] = Zero /\ h[Zero] = Zero
  BY <1>1, <1>2, <1>6
<1>8. OneToOneIn(g, h)
  <2>1. ASSUME NEW s \in RootToken, g[s] # Zero PROVE h[g[s]] = s
    <3>1. CASE s = r
      BY <1>6, <3>1
    <3>2. CASE s # r
      <4>1. g[s] = f[s] /\ b[f[s]] = s /\ f[s] \in Address
        BY <1>2, <1>6, <2>1, <3>2 DEF Sound, OneToOneIn, Forward
      <4>2. f[s] # c
        BY <1>1, <1>3, <4>1
      <4>3. f[s] # f[r]
        BY <1>1, <3>2, <4>1 DEF Sound, OneToOneIn
      <4> QED BY <1>6, <4>1, <4>2, <4>3
    <3> QED BY <3>1, <3>2
  <2>2. ASSUME NEW d \in Address, h[d] # Zero PROVE g[h[d]] = d
    <3>1. CASE d = c
      BY <1>6, <3>1
    <3>2. CASE d # c
      <4>1. d # f[r]
        BY <1>6, <2>2
      <4>2. h[d] = b[d] /\ f[b[d]] = d /\ b[d] \in RootToken
        BY <1>2, <1>6, <2>2, <3>2, <4>1 DEF Sound, OneToOneIn, Backward
      <4>3. b[d] # r
        BY <4>1, <4>2
      <4> QED BY <1>6, <4>2, <4>3
    <3> QED BY <3>1, <3>2
  <2> QED BY <2>1, <2>2 DEF OneToOneIn
<1>9. \A d \in Address : h[d] # Zero => h[d] = d[2]
  BY <1>6 DEF Sound
<1>10. Sound(g, h)
  BY <1>6, <1>7, <1>8, <1>9 DEF Sound
<1>11. [old.childToRootToken EXCEPT ![c] = r] = h
  BY <1>5 DEF h
<1> QED BY <1>4, <1>10, <1>11 DEF g, old

-----------------------------------------------------------------------------
\* Types.

\* What a conversion returns is a natural number.
LEMMA ConversionsNat ==
  ASSUME NEW a \in Nat, NEW b \in Nat
  PROVE  p27Div(a, b) \subseteq Nat /\ p27Mul(a, b) \subseteq Nat
<1>1. \A n \in Nat : Wrap(n) \in Nat
  BY WordAssumption DEF Wrap
<1>2. p27Div(a, b) \subseteq Nat
  <2> DEFINE d == Wrap(Wrap(a * P27) + b \div 2)
  <2>1. SUFFICES ASSUME b # 0 PROVE d \div b \in Nat
    BY DEF p27Div
  <2>2. a * P27 \in Nat /\ b \div 2 \in Nat
    BY WordAssumption
  <2>3. d \in Nat
    BY <1>1, <2>2
  <2> QED BY <2>1, <2>3
<1>3. p27Mul(a, b) \subseteq Nat
  <2> DEFINE d == Wrap(Wrap(a * b) + HALF_P27)
  <2>1. a * b \in Nat /\ HALF_P27 \in Nat
    BY WordAssumption DEF HALF_P27
  <2>2. d \in Nat
    BY <1>1, <2>1
  <2>3. d \div P27 \in Nat
    BY <2>2, WordAssumption
  <2> QED BY <2>3 DEF p27Mul
<1> QED BY <1>2, <1>3

\* The address that each chain computes for a root token is an address, and
\* names the root token.
LEMMA AddressNamesRoot ==
  ASSUME NEW m \in Manager, NEW r \in RootToken, NEW h \in Code
  PROVE  <<m, r, h>> \in Address /\ <<m, r, h>>[2] = r
BY DEF Address

IInv ==
  /\ TypeOK
  /\ Sound(rootToChildToken, childToRootToken)
  /\ Sound(onChild.rootToChildToken, onChild.childToRootToken)

\* Nothing is mapped at first.
LEMMA InitIInv == Init => IInv
<1> SUFFICES ASSUME Init PROVE IInv
  OBVIOUS
<1>1. Zero \notin RootToken /\ Zero \notin Address
  BY ATokenAssumption DEF Address
<1>2. NoForward \in Forward /\ NoBackward \in Backward
  BY DEF NoForward, NoBackward, Forward, Backward
<1>3. Sound(NoForward, NoBackward)
  BY <1>1, <1>2 DEF Sound, OneToOneIn, NoForward, NoBackward
<1>4. TypeOK
  BY <1>2, WordAssumption, ATokenAssumption DEF Init, TypeOK
<1> QED BY <1>3, <1>4 DEF Init, IInv

\* Sending a sync of the right type keeps the log of syncs one.
LEMMA SendSyncType ==
  ASSUME TypeOK, NEW kind \in {"DEPOSIT", "MAP_TOKEN"}, NEW r \in RootToken,
         NEW units \in Nat, NEW c \in Address, SendSync(kind, r, units, c)
  PROVE  syncs' \in Seq(Sync) /\ Len(syncs') = Len(syncs) + 1
<1> DEFINE s == [kind |-> kind, to |-> childChainManagerAddress,
                 root |-> r, units |-> units, child |-> c]
<1>1. s \in Sync
  BY DEF TypeOK, Sync
<1> HIDE DEF s
<1>2. syncs' = Append(syncs, s) /\ syncs \in Seq(Sync)
  BY DEF SendSync, TypeOK, s
<1> QED BY <1>1, <1>2

\* One step per action: the root registry by the lemmas above in mapToken and
\* remapToken, the child registry in the delivery of a mapping.
LEMMA NextIInv == IInv /\ [Next]_vars => IInv'
<1> SUFFICES ASSUME IInv, [Next]_vars PROVE IInv'
  OBVIOUS
<1>0. TypeOK /\ Sound(rootToChildToken, childToRootToken)
             /\ Sound(onChild.rootToChildToken, onChild.childToRootToken)
  BY DEF IInv
<1>1. ASSUME NEW r \in RootToken, MapToken(r) PROVE IInv'
  <2> DEFINE c == childTokenAddress(r)
  <2>1. c \in Address /\ c[2] = r
    BY <1>0, AddressNamesRoot DEF TypeOK, childTokenAddress
  <2> HIDE DEF c
  <2>2. /\ rootToChildToken[r] = Zero
        /\ rootToChildToken' = [rootToChildToken EXCEPT ![r] = c]
        /\ childToRootToken' = [childToRootToken EXCEPT ![c] = r]
        /\ SendSync("MAP_TOKEN", r, 0, c)
    BY <1>1 DEF MapToken, c
  <2>3. Sound(rootToChildToken', childToRootToken')
    BY <1>0, <2>1, <2>2, MappingFresh
  <2>4. syncs' \in Seq(Sync) /\ Len(syncs') = Len(syncs) + 1
    BY <1>0, <2>1, <2>2, SendSyncType
  <2>5. TypeOK'
    BY <1>0, <1>1, <2>3, <2>4 DEF MapToken, TypeOK, Sound, config, childVars
  <2> QED BY <1>0, <1>1, <2>3, <2>5 DEF IInv, MapToken, childVars
<1>2. ASSUME NEW r \in RootToken, RemapToken(r) PROVE IInv'
  <2> DEFINE c == childTokenAddress(r)
             old == Cleaned(rootToChildToken, childToRootToken,
                            childToRootToken[c], rootToChildToken[r])
  <2>1. c \in Address /\ c[2] = r
    BY <1>0, AddressNamesRoot DEF TypeOK, childTokenAddress
  <2>2. /\ c # rootToChildToken[r]
        /\ rootToChildToken' = [old.rootToChildToken EXCEPT ![r] = c]
        /\ childToRootToken' = [old.childToRootToken EXCEPT ![c] = r]
        /\ SendSync("MAP_TOKEN", r, 0, c)
    BY <1>2 DEF RemapToken
  <2> HIDE DEF c
  <2>3. Sound(rootToChildToken', childToRootToken')
    BY <1>0, <2>1, <2>2, CleaningFrees
  <2>4. syncs' \in Seq(Sync) /\ Len(syncs') = Len(syncs) + 1
    BY <1>0, <2>1, <2>2, SendSyncType
  <2>5. TypeOK'
    BY <1>0, <1>2, <2>3, <2>4 DEF RemapToken, TypeOK, Sound, config, childVars
  <2> QED BY <1>0, <1>2, <2>3, <2>5 DEF IInv, RemapToken, childVars
<1>3. ASSUME NEW r \in RootToken, Accrue(r) PROVE IInv'
  <2>1. TypeOK'
    BY <1>0, <1>3 DEF Accrue, TypeOK, registry, config, childVars
  <2> QED BY <1>0, <1>3, <2>1 DEF IInv, Accrue, registry, childVars
<1>4. ASSUME NEW m \in Manager, NEW h \in Code, SetChildChainManagerAddressAndHash(m, h)
      PROVE  IInv'
  <2>1. TypeOK'
    BY <1>0, <1>4 DEF SetChildChainManagerAddressAndHash, TypeOK, registry, childVars
  <2> QED BY <1>0, <1>4, <2>1 DEF IInv, SetChildChainManagerAddressAndHash, registry, childVars
<1>5. ASSUME NEW r \in RootToken, NEW value \in 1..MaxValue, DepositFor(r, value) PROVE IInv'
  <2>1. value \in Nat /\ index[r] \in Nat /\ held[r] \in Nat
    BY <1>0, ATokenAssumption, WordAssumption DEF TypeOK
  <2>2. rootToChildToken[r] \in Address
    BY <1>0, <1>5 DEF DepositFor, TypeOK, Forward
  <2>3. PICK moved \in p27Div(value, index[r]) : held' = [held EXCEPT ![r] = @ + moved]
    BY <1>5 DEF DepositFor, TransferUnits
  <2>4. PICK units \in p27Div(value, index[r]) :
          SendSync("DEPOSIT", r, units, rootToChildToken[r])
    BY <1>5 DEF DepositFor
  <2>5. moved \in Nat /\ units \in Nat
    BY <2>1, ConversionsNat
  <2>6. syncs' \in Seq(Sync) /\ Len(syncs') = Len(syncs) + 1
    BY <1>0, <2>2, <2>4, <2>5, SendSyncType
  <2>7. held' \in [RootToken -> Nat]
    BY <1>0, <2>1, <2>3, <2>5 DEF TypeOK
  <2>8. TypeOK'
    BY <1>0, <1>5, <2>6, <2>7 DEF DepositFor, TypeOK, registry, config, childVars
  <2> QED BY <1>0, <1>5, <2>8 DEF IInv, DepositFor, registry, childVars
<1>6. ASSUME NEW i \in 1..Len(burns), Exit(i) PROVE IInv'
  <2> DEFINE r == childToRootToken[burns[i].token]
             B == [token : Address, units : Nat]
  <2>1. burns[i].token \in Address /\ burns[i].units \in Nat
    <3>1. burns \in Seq(B)
      BY <1>0 DEF TypeOK
    <3> HIDE DEF B
    <3>2. burns[i] \in B
      BY <3>1
    <3> QED BY <3>2 DEF B
  <2>2. r \in RootToken
    BY <1>0, <1>6, <2>1 DEF Exit, TypeOK, Backward
  <2>3. index[r] \in Nat /\ held[r] \in Nat
    <3> HIDE DEF r
    <3> QED BY <1>0, <2>2, ATokenAssumption, WordAssumption DEF TypeOK
  <2>4. PICK value \in p27Mul(burns[i].units, index[r]) :
          \E moved \in TransferUnits(value, r) :
            held[r] >= moved /\ held' = [held EXCEPT ![r] = @ - moved]
    BY <1>6 DEF Exit
  <2>5. value \in Nat
    BY <2>1, <2>3, ConversionsNat
  <2>6. PICK moved \in p27Div(value, index[r]) :
          held[r] >= moved /\ held' = [held EXCEPT ![r] = @ - moved]
    BY <2>4 DEF TransferUnits
  <2>7. moved \in Nat
    BY <2>3, <2>5, ConversionsNat
  <2> HIDE DEF r
  <2>8. held' \in [RootToken -> Nat]
    BY <1>0, <2>2, <2>3, <2>6, <2>7 DEF TypeOK
  <2>9. processedExits' \subseteq 1..Len(burns)
    BY <1>0, <1>6 DEF Exit, TypeOK
  <2>10. TypeOK'
    BY <1>0, <1>6, <2>8, <2>9 DEF Exit, TypeOK, registry, config, childVars
  <2> QED BY <1>0, <1>6, <2>10 DEF IInv, Exit, registry, childVars
<1>7. ASSUME Deliver PROVE IInv'
  <2> DEFINE s == syncs[delivered + 1]
  <2>1. s \in Sync
    BY <1>0, <1>7 DEF Deliver, TypeOK
  <2>2. s.root \in RootToken /\ s.units \in Nat
    BY <2>1 DEF Sync
  <2>3. delivered' \in 0..Len(syncs)
    BY <1>0, <1>7 DEF Deliver, TypeOK
  <2>4. \/ Credit(s) \/ CreateToken(s)
        \/ kept' = (kept /\ s.kind = "DEPOSIT") /\ UNCHANGED <<onChild, supply>>
    BY <1>7 DEF Deliver
  <2> HIDE DEF s
  <2>5. /\ Sound(onChild'.rootToChildToken, onChild'.childToRootToken)
        /\ DOMAIN supply' \subseteq Address /\ \A c \in DOMAIN supply' : supply'[c] \in Nat
        /\ kept' \in BOOLEAN
    <3>1. CASE Credit(s)
      BY <1>0, <2>2, <3>1 DEF Credit, TypeOK
    <3>2. CASE CreateToken(s)
      <4> DEFINE c == <<ChildManager, s.root, code>>
                 old == Cleaned(onChild.rootToChildToken, onChild.childToRootToken,
                                onChild.childToRootToken[c], onChild.rootToChildToken[s.root])
      <4>1. c \in Address /\ c[2] = s.root
        BY <1>0, <2>2, AddressNamesRoot, ATokenAssumption DEF TypeOK
      <4>2. /\ supply' = [d \in DOMAIN supply \cup {c} |-> IF d = c THEN 0 ELSE supply[d]]
            /\ c # onChild.rootToChildToken[s.root]
            /\ onChild' = [rootToChildToken |-> [old.rootToChildToken EXCEPT ![s.root] = c],
                           childToRootToken |-> [old.childToRootToken EXCEPT ![c] = s.root]]
            /\ kept' = (kept /\ c = s.child)
        BY <3>2 DEF CreateToken
      <4> HIDE DEF c
      <4>3. Sound([old.rootToChildToken EXCEPT ![s.root] = c],
                  [old.childToRootToken EXCEPT ![c] = s.root])
        BY <1>0, <2>2, <4>1, <4>2, CleaningFrees
      <4> HIDE DEF old
      <4>4. DOMAIN supply' \subseteq Address /\ \A d \in DOMAIN supply' : supply'[d] \in Nat
        BY <1>0, <4>1, <4>2 DEF TypeOK
      <4>5. kept' \in BOOLEAN
        BY <4>2
      <4> QED BY <4>2, <4>3, <4>4, <4>5
    <3>3. CASE kept' = (kept /\ s.kind = "DEPOSIT") /\ UNCHANGED <<onChild, supply>>
      BY <1>0, <3>3 DEF TypeOK
    <3> QED BY <2>4, <3>1, <3>2, <3>3
  <2>6. TypeOK'
    BY <1>0, <1>7, <2>3, <2>5 DEF Deliver, TypeOK, Sound, registry, config
  <2> QED BY <1>0, <1>7, <2>5, <2>6 DEF IInv, Deliver, registry
<1>8. ASSUME NEW h \in Code, UpgradeChildManager(h) PROVE IInv'
  <2>1. TypeOK'
    BY <1>0, <1>8 DEF UpgradeChildManager, TypeOK, registry, config, childVars
  <2> QED BY <1>0, <1>8, <2>1 DEF IInv, UpgradeChildManager, registry, childVars
<1>9. ASSUME NEW c \in DOMAIN supply, NEW units \in 1..(MaxValue * MaxSyncs), Withdraw(c, units)
      PROVE  IInv'
  <2>1. c \in Address /\ supply[c] \in Nat /\ units \in Nat /\ units <= supply[c]
    BY <1>0, <1>9, ATokenAssumption DEF TypeOK, Withdraw
  <2>2. DOMAIN supply' \subseteq Address /\ \A d \in DOMAIN supply' : supply'[d] \in Nat
    BY <1>0, <1>9, <2>1 DEF TypeOK, Withdraw
  <2>3. burns' \in Seq([token : Address, units : Nat]) /\ Len(burns') = Len(burns) + 1
    BY <1>0, <1>9, <2>1 DEF TypeOK, Withdraw
  <2>4. TypeOK'
    BY <1>0, <1>9, <2>2, <2>3 DEF Withdraw, TypeOK, registry, config
  <2> QED BY <1>0, <1>9, <2>4 DEF IInv, Withdraw, registry
<1>10. ASSUME SubmitCheckpoint PROVE IInv'
  <2>1. TypeOK'
    BY <1>0, <1>10 DEF SubmitCheckpoint, TypeOK, registry, config, childVars
  <2> QED BY <1>0, <1>10, <2>1 DEF IInv, SubmitCheckpoint, registry, childVars
<1>11. CASE UNCHANGED vars
  <2>1. TypeOK'
    BY <1>0, <1>11 DEF vars, TypeOK, registry, config, childVars
  <2> QED BY <1>0, <1>11, <2>1 DEF IInv, vars, registry, childVars
<1> QED BY <1>1, <1>2, <1>3, <1>4, <1>5, <1>6, <1>7, <1>8, <1>9, <1>10, <1>11 DEF Next

\* The inductive invariant of the registries holds in every reachable state.
LEMMA Invariance == Spec => []IInv
BY InitIInv, NextIInv, PTL DEF Spec

\* All variables of both chains keep their types, through conversions that may
\* revert and syncs that may.
THEOREM ATokenTypeOK == Spec => []TypeOK
<1>1. IInv => TypeOK
  BY DEF IInv
<1> QED BY <1>1, Invariance, PTL

\* Each registry stays one-to-one, for any configuration of the root manager and
\* any code of the child manager.
THEOREM ATokenOneToOne == Spec => []OneToOne
<1>1. IInv => OneToOne
  BY DEF IInv, Sound, OneToOne
<1> QED BY <1>1, Invariance, PTL

-----------------------------------------------------------------------------
\* Deposits in flight.

\* Sync j is the last mapping of r among the first n syncs of the log.
LastMapping(log, n, j, r) ==
  /\ j \in 1..n
  /\ log[j].kind = "MAP_TOKEN" /\ log[j].root = r
  /\ \A k \in (j + 1)..n : ~(log[k].kind = "MAP_TOKEN" /\ log[k].root = r)

\* The child token a deposit was made for is that of the last mapping before it.
DepositsFollow(log) ==
  \A i \in 1..Len(log) :
    log[i].kind = "DEPOSIT" =>
      \E j \in 1..(i - 1) : /\ LastMapping(log, i - 1, j, log[i].root)
                            /\ log[j].child = log[i].child

\* The root registry has what was announced last.
RegistryFollows(log, forward) ==
  \A r \in RootToken :
    forward[r] # Zero =>
      \E j \in 1..Len(log) : LastMapping(log, Len(log), j, r) /\ log[j].child = forward[r]

\* While mappings were kept, the child registry has what was delivered last, and
\* the token exists.
ChildFollows(log, n, forward, tokens) ==
  \A r \in RootToken, j \in 1..n :
    LastMapping(log, n, j, r) => log[j].child = forward[r] /\ log[j].child \in tokens

PInv ==
  /\ DepositsFollow(syncs)
  /\ RegistryFollows(syncs, rootToChildToken)
  /\ kept => ChildFollows(syncs, delivered, onChild.rootToChildToken, DOMAIN supply)

\* Appending a sync changes nothing about the ones before it.
LEMMA LastMappingGrows ==
  ASSUME NEW S, NEW log \in Seq(S), NEW s \in S, NEW n \in 0..Len(log), NEW j, NEW r
  PROVE  LastMapping(Append(log, s), n, j, r) <=> LastMapping(log, n, j, r)
<1>1. \A k \in 1..n : Append(log, s)[k] = log[k]
  OBVIOUS
<1> QED BY <1>1 DEF LastMapping

\* A sync that follows the registry keeps the history in order: a mapping to the
\* token that the registry gets, or a deposit for the token that it has.
LEMMA SyncFollows ==
  ASSUME NEW S, NEW log \in Seq(S), NEW s \in S, NEW f \in Forward, NEW g \in Forward,
         DepositsFollow(log), RegistryFollows(log, f), s.root \in RootToken,
         \/ s.kind = "MAP_TOKEN" /\ g[s.root] = s.child
         \/ s.kind = "DEPOSIT" /\ g = f /\ f[s.root] = s.child /\ f[s.root] # Zero,
         \A r \in RootToken : r # s.root => g[r] = f[r]
  PROVE  DepositsFollow(Append(log, s)) /\ RegistryFollows(Append(log, s), g)
<1> DEFINE more == Append(log, s)
           n == Len(log)
<1>1. /\ n \in Nat /\ Len(more) = n + 1 /\ more[n + 1] = s
      /\ \A k \in 1..n : more[k] = log[k]
  OBVIOUS
<1>2. \A m \in 0..n : \A j, r : LastMapping(more, m, j, r) <=> LastMapping(log, m, j, r)
  BY LastMappingGrows
<1> HIDE DEF more
<1>3. DepositsFollow(more)
  <2> SUFFICES ASSUME NEW i \in 1..Len(more), more[i].kind = "DEPOSIT"
               PROVE  \E j \in 1..(i - 1) : /\ LastMapping(more, i - 1, j, more[i].root)
                                            /\ more[j].child = more[i].child
    BY DEF DepositsFollow
  <2>1. i - 1 \in 0..n
    BY <1>1
  <2>2. CASE i <= n
    <3>1. i \in 1..n /\ more[i] = log[i]
      BY <1>1, <2>2
    <3>2. PICK j \in 1..(i - 1) : /\ LastMapping(log, i - 1, j, log[i].root)
                                  /\ log[j].child = log[i].child
      BY <3>1 DEF DepositsFollow
    <3>3. more[j] = log[j]
      BY <1>1, <3>1
    <3> QED BY <1>2, <2>1, <3>1, <3>2, <3>3
  <2>3. CASE i = n + 1
    <3>1. s.kind = "DEPOSIT" /\ f[s.root] = s.child /\ f[s.root] # Zero
      BY <1>1, <2>3
    <3>2. PICK j \in 1..n : LastMapping(log, n, j, s.root) /\ log[j].child = f[s.root]
      BY <3>1 DEF RegistryFollows
    <3> QED BY <1>1, <1>2, <2>3, <3>1, <3>2
  <2> QED BY <1>1, <2>2, <2>3
<1>4. RegistryFollows(more, g)
  <2> SUFFICES ASSUME NEW r \in RootToken, g[r] # Zero
               PROVE  \E j \in 1..Len(more) : LastMapping(more, Len(more), j, r)
                                              /\ more[j].child = g[r]
    BY DEF RegistryFollows
  <2>1. CASE s.kind = "MAP_TOKEN" /\ r = s.root
    <3>1. LastMapping(more, n + 1, n + 1, r)
      BY <1>1, <2>1 DEF LastMapping
    <3>2. more[n + 1].child = g[r]
      BY <1>1, <2>1
    <3> QED BY <1>1, <3>1, <3>2
  <2>2. CASE ~(s.kind = "MAP_TOKEN" /\ r = s.root)
    <3>1. g[r] = f[r]
      BY <2>2
    <3>2. PICK j \in 1..n : LastMapping(log, n, j, r) /\ log[j].child = f[r]
      BY <3>1 DEF RegistryFollows
    <3>3. LastMapping(more, n, j, r)
      BY <1>1, <1>2, <3>2
    <3>4. LastMapping(more, n + 1, j, r)
      BY <1>1, <2>2, <3>3 DEF LastMapping
    <3> QED BY <1>1, <3>1, <3>2, <3>4
  <2> QED BY <2>1, <2>2
<1> QED BY <1>3, <1>4 DEF more

\* A mapping writes the forward direction of its own root token only: nobody
\* else can have that child token.
LEMMA CleaningLocal ==
  ASSUME NEW f, NEW b, Sound(f, b), NEW r \in RootToken, NEW c \in Address, c[2] = r,
         c # f[r]
  PROVE  Cleaned(f, b, b[c], f[r]).rootToChildToken = f
<1>1. f[Zero] = Zero
  BY DEF Sound
<1>2. b[c] = Zero
  <2>1. b[c] # Zero => b[c] = r /\ f[b[c]] = c
    BY DEF Sound, OneToOneIn
  <2> QED BY <2>1
<1> QED BY <1>1, <1>2 DEF Cleaned

\* No sync, nothing to follow, at first.
LEMMA InitPInv == Init => PInv
<1> SUFFICES ASSUME Init PROVE PInv
  OBVIOUS
<1>1. Len(syncs) = 0 /\ delivered = 0 /\ \A r \in RootToken : rootToChildToken[r] = Zero
  BY DEF Init, NoForward
<1> QED BY <1>1 DEF PInv, DepositsFollow, RegistryFollows, ChildFollows

\* What the child chain reads of the history does not change when a sync is sent.
LEMMA ChildFollowsStill ==
  ASSUME NEW S, NEW log \in Seq(S), NEW s \in S, NEW n \in 0..Len(log), NEW f, NEW T,
         ChildFollows(log, n, f, T)
  PROVE  ChildFollows(Append(log, s), n, f, T)
<1>1. \A k \in 1..n : Append(log, s)[k] = log[k]
  OBVIOUS
<1>2. \A j, r : LastMapping(Append(log, s), n, j, r) <=> LastMapping(log, n, j, r)
  BY LastMappingGrows
<1> QED BY <1>1, <1>2 DEF ChildFollows

\* The next sync in the child registry: a mapping that was kept, or a deposit.
LEMMA DeliverFollows ==
  ASSUME IInv, PInv, Deliver, kept'
  PROVE  ChildFollows(syncs, delivered', onChild'.rootToChildToken, DOMAIN supply')
<1> DEFINE s == syncs[delivered + 1]
           n == delivered
           f == onChild.rootToChildToken
           g == onChild'.rootToChildToken
<1>0. /\ TypeOK /\ Sound(f, onChild.childToRootToken)
      /\ kept => ChildFollows(syncs, n, f, DOMAIN supply)
  BY DEF IInv, PInv
<1>1. n \in Nat /\ n + 1 \in 1..Len(syncs) /\ n' = n + 1 /\ s \in Sync
  BY <1>0 DEF Deliver, TypeOK
<1>2. s.root \in RootToken /\ s.kind \in {"DEPOSIT", "MAP_TOKEN"}
  BY <1>1 DEF Sync
<1>3. \/ Credit(s) \/ CreateToken(s)
      \/ kept' = (kept /\ s.kind = "DEPOSIT") /\ UNCHANGED <<onChild, supply>>
  BY DEF Deliver
<1>4. CASE s.kind = "DEPOSIT"
  <2>1. kept /\ g = f /\ DOMAIN supply' = DOMAIN supply
    BY <1>3, <1>4 DEF Credit, CreateToken
  <2>2. ASSUME NEW r \in RootToken, NEW j \in 1..(n + 1), LastMapping(syncs, n + 1, j, r)
        PROVE  j \in 1..n /\ LastMapping(syncs, n, j, r)
    <3>1. /\ syncs[j].kind = "MAP_TOKEN" /\ syncs[j].root = r
          /\ \A k \in (j + 1)..(n + 1) : ~(syncs[k].kind = "MAP_TOKEN" /\ syncs[k].root = r)
      BY <2>2 DEF LastMapping
    <3>2. j # n + 1
      BY <1>4, <3>1
    <3>3. j \in 1..n
      BY <1>1, <3>2
    <3>4. \A k \in (j + 1)..n : k \in (j + 1)..(n + 1)
      BY <1>1, <3>3
    <3> HIDE DEF s, n
    <3> QED
      BY <3>1, <3>3, <3>4 DEF LastMapping
  <2> QED BY <1>0, <1>1, <2>1, <2>2 DEF ChildFollows
<1>5. CASE s.kind = "MAP_TOKEN"
  <2> DEFINE c == <<ChildManager, s.root, code>>
             old == Cleaned(f, onChild.childToRootToken,
                            onChild.childToRootToken[c], f[s.root])
  <2>1. /\ c # f[s.root] /\ kept /\ c = s.child
        /\ g = [old.rootToChildToken EXCEPT ![s.root] = c]
        /\ DOMAIN supply' = DOMAIN supply \cup {c}
    <3>1. CreateToken(s)
      <4>1. ~Credit(s)
        BY <1>5 DEF Credit
      <4>2. ~(kept' = (kept /\ s.kind = "DEPOSIT"))
        BY <1>5
      <4> QED BY <1>3, <4>1, <4>2
    <3>2. kept' = (kept /\ c = s.child)
      BY <3>1 DEF CreateToken
    <3>3. DOMAIN supply' = DOMAIN supply \cup {c}
      BY <3>1 DEF CreateToken
    <3> QED BY <3>1, <3>2, <3>3 DEF CreateToken
  <2>2. c \in Address /\ c[2] = s.root
    BY <1>0, <1>2, AddressNamesRoot, ATokenAssumption DEF TypeOK
  <2> HIDE DEF c
  <2>3. old.rootToChildToken = f
    BY <1>0, <1>2, <2>1, <2>2, CleaningLocal
  <2> HIDE DEF old, s, f, g
  <2>4. g = [f EXCEPT ![s.root] = c] /\ f \in Forward
    BY <1>0, <2>1, <2>3 DEF Sound
  <2>5. ASSUME NEW r \in RootToken, NEW j \in 1..(n + 1), LastMapping(syncs, n + 1, j, r)
        PROVE  syncs[j].child = g[r] /\ syncs[j].child \in DOMAIN supply'
    <3>1. CASE j = n + 1
      <4>1. syncs[j] = s /\ s.root = r
        BY <2>5, <3>1 DEF LastMapping, s
      <4> QED BY <1>2, <2>1, <2>4, <4>1 DEF Forward
    <3>2. CASE j # n + 1
      <4>1. r # s.root
        BY <1>1, <1>5, <2>5, <3>2 DEF LastMapping, s
      <4>2. j \in 1..n /\ LastMapping(syncs, n, j, r)
        BY <1>1, <2>5, <3>2 DEF LastMapping
      <4>3. syncs[j].child = f[r] /\ syncs[j].child \in DOMAIN supply
        BY <1>0, <2>1, <4>2 DEF ChildFollows
      <4> QED BY <2>1, <2>4, <4>1, <4>3 DEF Forward
    <3> QED BY <3>1, <3>2
  <2> QED BY <1>1, <2>5 DEF ChildFollows, g
<1> QED BY <1>2, <1>4, <1>5

\* Action by action.
LEMMA NextPInv == IInv /\ IInv' /\ PInv /\ [Next]_vars => PInv'
<1> SUFFICES ASSUME IInv, IInv', PInv, [Next]_vars PROVE PInv'
  OBVIOUS
<1>0. /\ TypeOK /\ TypeOK'
      /\ syncs \in Seq(Sync) /\ delivered \in 0..Len(syncs)
      /\ rootToChildToken \in Forward /\ rootToChildToken' \in Forward
      /\ DepositsFollow(syncs) /\ RegistryFollows(syncs, rootToChildToken)
      /\ kept => ChildFollows(syncs, delivered, onChild.rootToChildToken, DOMAIN supply)
  BY DEF IInv, TypeOK, PInv
\* A mapping or a deposit was sent.
<1>1. ASSUME NEW s \in Sync, syncs' = Append(syncs, s), UNCHANGED childVars,
             \/ s.kind = "MAP_TOKEN" /\ rootToChildToken'[s.root] = s.child
             \/ /\ s.kind = "DEPOSIT" /\ UNCHANGED rootToChildToken
                /\ rootToChildToken[s.root] = s.child /\ s.child # Zero,
             \A r \in RootToken : r # s.root => rootToChildToken'[r] = rootToChildToken[r]
      PROVE  PInv'
  <2>1. s.root \in RootToken
    BY DEF Sync
  <2>2. DepositsFollow(syncs') /\ RegistryFollows(syncs', rootToChildToken')
    BY <1>0, <1>1, <2>1, SyncFollows
  <2>3. kept => ChildFollows(syncs', delivered, onChild.rootToChildToken, DOMAIN supply)
    BY <1>0, <1>1, ChildFollowsStill
  <2> QED BY <1>1, <2>2, <2>3 DEF PInv, childVars
<1>2. ASSUME NEW r \in RootToken, MapToken(r) \/ RemapToken(r) PROVE PInv'
  <2> DEFINE c == childTokenAddress(r)
             s == [kind |-> "MAP_TOKEN", to |-> childChainManagerAddress,
                   root |-> r, units |-> 0, child |-> c]
  <2>1. c \in Address /\ c[2] = r
    BY <1>0, AddressNamesRoot DEF TypeOK, childTokenAddress
  <2>2. s \in Sync
    BY <1>0, <2>1 DEF TypeOK, Sync
  <2> HIDE DEF c
  <2>3. syncs' = Append(syncs, s) /\ UNCHANGED childVars
    BY <1>2 DEF MapToken, RemapToken, SendSync, c
  <2>4. rootToChildToken' = [rootToChildToken EXCEPT ![r] = c]
    <3>1. CASE MapToken(r)
      BY <3>1 DEF MapToken, c
    <3>2. CASE RemapToken(r)
      <4> DEFINE old == Cleaned(rootToChildToken, childToRootToken,
                                childToRootToken[c], rootToChildToken[r])
      <4>1. c # rootToChildToken[r]
            /\ rootToChildToken' = [old.rootToChildToken EXCEPT ![r] = c]
        BY <3>2 DEF RemapToken, c
      <4>2. old.rootToChildToken = rootToChildToken
        BY <2>1, <4>1, CleaningLocal DEF IInv
      <4> HIDE DEF old
      <4> QED BY <4>1, <4>2
    <3> QED BY <1>2, <3>1, <3>2
  <2>5. rootToChildToken'[r] = c
        /\ \A t \in RootToken : t # r => rootToChildToken'[t] = rootToChildToken[t]
    BY <1>0, <2>4 DEF Forward
  <2>6. s.kind = "MAP_TOKEN" /\ s.root = r /\ s.child = c
    OBVIOUS
  <2> HIDE DEF s
  <2> QED BY <1>1, <2>2, <2>3, <2>5, <2>6
<1>3. ASSUME NEW r \in RootToken, NEW value \in 1..MaxValue, DepositFor(r, value) PROVE PInv'
  <2>1. value \in Nat /\ index[r] \in Nat
    BY <1>0, ATokenAssumption, WordAssumption DEF TypeOK
  <2>2. rootToChildToken[r] \in Address /\ rootToChildToken[r] # Zero
    BY <1>0, <1>3 DEF DepositFor, Forward
  <2>3. PICK units \in p27Div(value, index[r]) :
          SendSync("DEPOSIT", r, units, rootToChildToken[r])
    BY <1>3 DEF DepositFor
  <2>4. units \in Nat
    BY <2>1, <2>3, ConversionsNat
  <2> DEFINE s == [kind |-> "DEPOSIT", to |-> childChainManagerAddress,
                   root |-> r, units |-> units, child |-> rootToChildToken[r]]
  <2>5. s \in Sync
    BY <1>0, <2>2, <2>4 DEF TypeOK, Sync
  <2>6. syncs' = Append(syncs, s) /\ UNCHANGED <<childVars, rootToChildToken>>
    BY <1>3, <2>3 DEF DepositFor, SendSync, registry
  <2>7. s.kind = "DEPOSIT" /\ s.root = r /\ s.child = rootToChildToken[r]
    OBVIOUS
  <2> HIDE DEF s
  <2> QED BY <1>1, <2>2, <2>5, <2>6, <2>7
<1>4. CASE Deliver
  <2>1. UNCHANGED <<syncs, rootToChildToken>>
    BY <1>4 DEF Deliver, registry
  <2>2. kept' => ChildFollows(syncs, delivered', onChild'.rootToChildToken, DOMAIN supply')
    BY <1>4, DeliverFollows
  <2> QED BY <1>0, <2>1, <2>2 DEF PInv
<1>5. ASSUME NEW c \in DOMAIN supply, NEW units \in 1..(MaxValue * MaxSyncs), Withdraw(c, units)
      PROVE  PInv'
  <2>1. DOMAIN supply' = DOMAIN supply
        /\ UNCHANGED <<syncs, rootToChildToken, onChild, delivered, kept>>
    BY <1>5 DEF Withdraw, registry
  <2> QED BY <1>0, <2>1 DEF PInv
<1>6. CASE UNCHANGED <<syncs, rootToChildToken, childVars>>
  BY <1>0, <1>6 DEF PInv, childVars
<1>7. \/ \E r \in RootToken : MapToken(r) \/ RemapToken(r)
      \/ \E r \in RootToken, value \in 1..MaxValue : DepositFor(r, value)
      \/ Deliver
      \/ \E c \in DOMAIN supply, units \in 1..(MaxValue * MaxSyncs) : Withdraw(c, units)
      \/ UNCHANGED <<syncs, rootToChildToken, childVars>>
  BY DEF Next, vars, Accrue, SetChildChainManagerAddressAndHash, Exit,
         UpgradeChildManager, SubmitCheckpoint, registry
<1> QED BY <1>2, <1>3, <1>4, <1>5, <1>6, <1>7

\* While every delivered mapping created the token that was announced, a
\* deposit is credited in the token that it was made for: the last mapping
\* before it in the log is the last one that the child chain has seen.
THEOREM ATokenDepositsKept == Spec => CreditedAsPromised
<1> DEFINE A == delivered' # delivered
                  => LET s == syncs[delivered + 1]
                     IN kept /\ s.kind = "DEPOSIT" /\ s.to = ChildManager
                          => /\ s.child \in DOMAIN supply
                             /\ supply'[s.child] = supply[s.child] + s.units
<1>1. IInv /\ PInv /\ [Next]_vars => [A]_vars
  <2> SUFFICES ASSUME IInv, PInv, Next, delivered' # delivered PROVE A
    OBVIOUS
  <2>0. TypeOK /\ delivered \in 0..Len(syncs) /\ syncs \in Seq(Sync)
    BY DEF IInv, TypeOK
  <2>1. Deliver
    BY DEF Next, MapToken, RemapToken, Accrue, SetChildChainManagerAddressAndHash,
           DepositFor, Exit, UpgradeChildManager, Withdraw, SubmitCheckpoint, childVars
  <2> DEFINE i == delivered + 1
             s == syncs[i]
  <2>2. i \in 1..Len(syncs) /\ s \in Sync /\ i - 1 = delivered
    BY <2>0, <2>1 DEF Deliver
  <2> SUFFICES ASSUME kept, s.kind = "DEPOSIT", s.to = ChildManager
               PROVE  s.child \in DOMAIN supply /\ supply'[s.child] = supply[s.child] + s.units
    OBVIOUS
  <2>3. s.root \in RootToken /\ s.child \in Address /\ s.child # Zero
    BY <2>2, ATokenAssumption DEF Sync, Address
  <2>4. PICK j \in 1..delivered : LastMapping(syncs, delivered, j, s.root)
                                  /\ syncs[j].child = s.child
    BY <2>2 DEF PInv, DepositsFollow
  <2>5. s.child = onChild.rootToChildToken[s.root] /\ s.child \in DOMAIN supply
    BY <2>3, <2>4 DEF PInv, ChildFollows
  <2>6. Credit(s)
    BY <2>1, <2>3, <2>5 DEF Deliver, CreateToken
  <2>7. supply' = [supply EXCEPT ![s.child] = @ + s.units]
    BY <2>5, <2>6 DEF Credit
  <2> QED BY <2>5, <2>7
<1>2. Spec => []PInv
  BY InitIInv, InitPInv, NextIInv, NextPInv, PTL DEF Spec
<1> QED BY <1>1, <1>2, Invariance, PTL DEF Spec, CreditedAsPromised

-----------------------------------------------------------------------------
\* Values.

\* An index is a machine word.
LEMMA IndexIsWord ==
  ASSUME TypeOK, NEW r \in RootToken
  PROVE  index[r] \in Uint /\ index[r] >= P27 /\ index[r] \in Nat \ {0}
<1>1. index[r] \in P27..MaxIndex
  BY DEF TypeOK
<1> QED BY <1>1, ATokenAssumption, WordAssumption DEF Uint

\* Whatever the reserves' indices grow to, the conversions are the quotient and the
\* product of their comments, revert or wrap to zero, and the one takes back what
\* the other gave.
THEOREM ATokenConversionsExact == Spec => []ConversionsExact
<1>1. IInv => ConversionsExact
  BY DivRoundsHalfUp, MulRoundsHalfUp, RoundTripExact, IndexIsWord DEF IInv, ConversionsExact
<1> QED BY <1>1, Invariance, PTL

\* What an exit takes from the manager is no more than the units that were
\* burned: as many, if their value is a word, and none if it wraps to zero.
LEMMA ExitTakes ==
  ASSUME NEW units \in Nat, NEW i \in Uint, i >= P27,
         NEW value \in p27Mul(units, i), NEW moved \in p27Div(value, i)
  PROVE  moved \in Nat /\ moved <= units
<1>1. i \in Nat \ {0} /\ Word \in Nat /\ units * i \in Nat
  BY WordAssumption DEF Uint
<1>2. CASE units * i < Word
  <2>1. units <= units * i
    BY <1>1, Z3
  <2>2. units \in Uint
    BY <1>1, <1>2, <2>1 DEF Uint
  <2>3. moved \in {units}
    BY <1>2, <2>2, RoundTripExact DEF RoundTrip
  <2> QED BY <2>3
<1>3. CASE units * i >= Word
  <2>1. units \in Nat \ {0}
    BY <1>1, <1>3, WordAssumption
  <2>2. ~(i = Wrap(units * i) \div units)
    BY <1>1, <1>3, <2>1, ProductCheck
  <2>3. value = 0
    BY <2>2 DEF p27Mul
  <2>4. p27Div(0, i) \subseteq {0}
    <3>1. 0 \in Uint /\ DivIsHalfUp(0, i)
      BY DivRoundsHalfUp, WordAssumption DEF Uint
    <3>2. HalfUp(0 * P27, i) = 0
      <4>1. (2 * 0 + i) \div (2 * i) = 0
        BY <1>1, DivUnique, 2 * 0 + i = i, 2 * i \in Nat \ {0}, (2 * i) * 0 = 0
      <4>2. 0 * P27 = 0
        BY WordAssumption
      <4> QED BY <4>1, <4>2 DEF HalfUp
    <3> QED BY <3>1, <3>2 DEF DivIsHalfUp
  <2> QED BY <2>1, <2>3, <2>4
<1> QED BY <1>1, <1>2, <1>3

-----------------------------------------------------------------------------
\* What is owed, summed up.

\* Units add up to a number.
LEMMA UnitsType ==
  ASSUME NEW entries, NEW S, IsFiniteSet(S), \A i \in S : entries[i].units \in Nat
  PROVE  Units(entries, S) \in Nat
BY SumType DEF Units, SumFunction

\* Entry m is written, and the entries P are as they were.
Written(entries, other, P, m) ==
  /\ IsFiniteSet(P) /\ m \notin P /\ other[m].units \in Nat
  /\ \A i \in P : entries[i].units \in Nat /\ other[i].units = entries[i].units

\* The units of both then.
LEMMA UnitsWritten ==
  ASSUME NEW entries, NEW other, NEW P, NEW m, Written(entries, other, P, m)
  PROVE  /\ Units(other, P) = Units(entries, P)
         /\ Units(other, P \cup {m}) = Units(entries, P) + other[m].units
<1>1. IsFiniteSet(P) /\ m \notin P /\ \A i \in P \cup {m} : other[i].units \in Nat
  BY DEF Written
<1>2. Units(other, P) = Units(entries, P)
  <2>1. [i \in P |-> other[i].units] = [i \in P |-> entries[i].units]
    BY DEF Written
  <2> QED BY <2>1 DEF Units
<1> DEFINE f == [i \in P |-> other[i].units]
           g == [i \in P \cup {m} |-> other[i].units]
<1>3. SumFunctionOnSet(g, P \cup {m}) = SumFunctionOnSet(g, P) + g[m]
  BY <1>1, SumAdd
<1>4. SumFunctionOnSet(g, P) = SumFunctionOnSet(f, P)
  BY <1>1, SumEqual
<1>5. Units(other, P) = SumFunctionOnSet(f, P)
  BY DEF Units, SumFunction
<1>6. Units(other, P \cup {m}) = SumFunctionOnSet(g, P \cup {m})
  BY DEF Units, SumFunction
<1> QED BY <1>2, <1>3, <1>4, <1>5, <1>6

\* The units with an entry less.
LEMMA UnitsRemove ==
  ASSUME NEW entries, NEW S, IsFiniteSet(S), NEW m \in S,
         \A i \in S : entries[i].units \in Nat
  PROVE  /\ Units(entries, S) = Units(entries, S \ {m}) + entries[m].units
         /\ Units(entries, S \ {m}) \in Nat
<1>1. (S \ {m}) \cup {m} = S
  OBVIOUS
<1>2. IsFiniteSet(S \ {m})
  BY FS_RemoveElement
<1>3. Written(entries, entries, S \ {m}, m)
  BY <1>2 DEF Written
<1>4. Units(entries, (S \ {m}) \cup {m}) = Units(entries, S \ {m}) + entries[m].units
  BY ONLY <1>3, UnitsWritten
<1>5. Units(entries, S \ {m}) \in Nat
  BY <1>2, UnitsType
<1> QED BY <1>1, <1>4, <1>5

\* The sets that units are summed over, and what is in them.
LEMMA OwedFacts ==
  ASSUME TypeOK, IsFiniteSet(DOMAIN supply), NEW r \in RootToken
  PROVE  /\ IsFiniteSet(ChildTokens(r)) /\ \A c \in ChildTokens(r) : supply[c] \in Nat
         /\ OnItsWay(r) \subseteq 1..Len(syncs) /\ IsFiniteSet(OnItsWay(r))
         /\ \A i \in 1..Len(syncs) : syncs[i].units \in Nat /\ syncs[i].root \in RootToken
         /\ OpenBurns(r) \subseteq 1..Len(burns) /\ IsFiniteSet(OpenBurns(r))
         /\ \A i \in 1..Len(burns) : burns[i].units \in Nat /\ burns[i].token \in Address
         /\ Len(syncs) \in Nat /\ Len(burns) \in Nat /\ delivered \in Nat
<1>1. Len(syncs) \in Nat /\ Len(burns) \in Nat /\ delivered \in Nat
  BY DEF TypeOK
<1>2. IsFiniteSet(ChildTokens(r)) /\ \A c \in ChildTokens(r) : supply[c] \in Nat
  <2>1. ChildTokens(r) \subseteq DOMAIN supply
    BY DEF ChildTokens
  <2> QED BY <2>1, FS_Subset DEF TypeOK
<1>3. OnItsWay(r) \subseteq 1..Len(syncs) /\ OpenBurns(r) \subseteq 1..Len(burns)
  BY <1>1 DEF OnItsWay, OpenBurns
<1>4. IsFiniteSet(1..Len(syncs)) /\ IsFiniteSet(1..Len(burns))
  <2>1. Len(syncs) \in Int /\ Len(burns) \in Int /\ 1 \in Int
    BY <1>1
  <2> QED BY ONLY <2>1, FS_Interval
<1>5. IsFiniteSet(OnItsWay(r)) /\ IsFiniteSet(OpenBurns(r))
  BY <1>3, <1>4, FS_Subset
<1>6. ASSUME NEW i \in 1..Len(syncs)
      PROVE  syncs[i].units \in Nat /\ syncs[i].root \in RootToken
  <2>1. syncs[i] \in Sync
    BY DEF TypeOK
  <2> QED BY <2>1 DEF Sync
<1>7. ASSUME NEW i \in 1..Len(burns)
      PROVE  burns[i].units \in Nat /\ burns[i].token \in Address
  <2> DEFINE B == [token : Address, units : Nat]
  <2>1. burns \in Seq(B)
    BY DEF TypeOK
  <2> HIDE DEF B
  <2>2. burns[i] \in B
    BY <2>1
  <2> QED BY <2>2 DEF B
<1> QED BY <1>1, <1>2, <1>3, <1>5, <1>6, <1>7

\* The three sums are numbers.
LEMMA OwedIsNumber ==
  ASSUME TypeOK, IsFiniteSet(DOMAIN supply), NEW r \in RootToken
  PROVE  /\ SumFunctionOnSet(supply, ChildTokens(r)) \in Nat
         /\ Units(syncs, OnItsWay(r)) \in Nat
         /\ Units(burns, OpenBurns(r)) \in Nat
<1>1. \A i \in OnItsWay(r) : syncs[i].units \in Nat
  BY OwedFacts
<1>2. \A i \in OpenBurns(r) : burns[i].units \in Nat
  BY OwedFacts
<1> QED BY <1>1, <1>2, OwedFacts, UnitsType, SumType

\* A sync that is sent is on its way.
LEMMA SentIsOwed ==
  ASSUME TypeOK, IsFiniteSet(DOMAIN supply), NEW s \in Sync,
         syncs' = Append(syncs, s), delivered' = delivered, NEW r \in RootToken
  PROVE  /\ s.root = r => Units(syncs', OnItsWay(r)') = Units(syncs, OnItsWay(r)) + s.units
         /\ s.root # r => Units(syncs', OnItsWay(r)') = Units(syncs, OnItsWay(r))
<1>n. PICK n, m : n = Len(syncs) /\ m = n + 1
  OBVIOUS
<1>1. /\ n \in Nat /\ delivered \in 0..n /\ Len(syncs') = m /\ syncs'[m] = s
      /\ \A i \in 1..n : syncs'[i] = syncs[i]
      /\ m \notin 1..n
  BY <1>n DEF TypeOK
<1>2. (delivered + 1)..m = ((delivered + 1)..n) \cup {m} /\ (delivered + 1)..n \subseteq 1..n
  BY <1>n, <1>1
<1>3. OnItsWay(r)' = {i \in ((delivered + 1)..n) \cup {m} : syncs'[i].root = r}
  BY <1>1, <1>2 DEF OnItsWay
<1>4. /\ s.root = r => OnItsWay(r)' = OnItsWay(r) \cup {m}
      /\ s.root # r => OnItsWay(r)' = OnItsWay(r)
  <2>1. OnItsWay(r) = {i \in (delivered + 1)..n : syncs[i].root = r}
    BY <1>n DEF OnItsWay
  <2>2. \A i \in (delivered + 1)..n : syncs'[i].root = syncs[i].root
    BY ONLY <1>1, <1>2
  <2>3. syncs'[m].root = s.root
    BY ONLY <1>1
  <2> QED BY ONLY <1>3, <2>1, <2>2, <2>3
<1>5. Written(syncs, syncs', OnItsWay(r), m)
  <2>1. /\ OnItsWay(r) \subseteq 1..n /\ IsFiniteSet(OnItsWay(r))
        /\ \A i \in 1..n : syncs[i].units \in Nat
    BY <1>n, OwedFacts
  <2>2. s.units \in Nat
    BY DEF Sync
  <2> QED BY ONLY <1>1, <2>1, <2>2 DEF Written
<1>6. /\ Units(syncs', OnItsWay(r)) = Units(syncs, OnItsWay(r))
      /\ Units(syncs', OnItsWay(r) \cup {m}) = Units(syncs, OnItsWay(r)) + syncs'[m].units
  BY ONLY <1>5, UnitsWritten
<1> QED BY ONLY <1>1, <1>4, <1>6

\* A sync that is consumed is on its way no longer.
LEMMA ConsumedIsNotOwed ==
  ASSUME TypeOK, IsFiniteSet(DOMAIN supply), delivered < Len(syncs),
         delivered' = delivered + 1, syncs' = syncs, NEW s, s = syncs[delivered + 1],
         NEW r \in RootToken
  PROVE  /\ s.root = r =>
              Units(syncs, OnItsWay(r)) = Units(syncs', OnItsWay(r)') + s.units
         /\ s.root # r => Units(syncs', OnItsWay(r)') = Units(syncs, OnItsWay(r))
         /\ Units(syncs', OnItsWay(r)') \in Nat /\ s.units \in Nat
<1>n. PICK m : m = delivered + 1
  OBVIOUS
<1>1. delivered \in Nat /\ Len(syncs) \in Nat /\ m \in 1..Len(syncs)
  BY <1>n, OwedFacts
<1>2. (delivered' + 1)..Len(syncs') = ((delivered + 1)..Len(syncs)) \ {m}
  BY <1>n, <1>1
<1>3. OnItsWay(r)' = OnItsWay(r) \ {m}
  BY <1>2 DEF OnItsWay
<1>4. \A i \in OnItsWay(r) : syncs[i].units \in Nat
  BY OwedFacts
<1>5. CASE s.root = r
  <2>1. m \in OnItsWay(r)
    BY <1>n, <1>1, <1>5 DEF OnItsWay
  <2>2. /\ Units(syncs, OnItsWay(r)) = Units(syncs, OnItsWay(r) \ {m}) + syncs[m].units
        /\ Units(syncs, OnItsWay(r) \ {m}) \in Nat
    BY <1>4, <2>1, OwedFacts, UnitsRemove
  <2> QED BY <1>n, <1>3, <1>4, <1>5, <2>1, <2>2
<1>6. CASE s.root # r
  <2>1. OnItsWay(r)' = OnItsWay(r)
    BY <1>n, <1>3, <1>6 DEF OnItsWay
  <2>2. s.units \in Nat
    BY <1>n, <1>1, OwedFacts
  <2> QED BY <1>6, <2>1, <2>2, OwedIsNumber
<1> QED BY <1>5, <1>6

\* A burn is owed.
LEMMA BurnedIsOwed ==
  ASSUME TypeOK, IsFiniteSet(DOMAIN supply), NEW c \in Address, NEW units \in Nat,
         burns' = Append(burns, [token |-> c, units |-> units]),
         processedExits' = processedExits, NEW r \in RootToken
  PROVE  /\ c[2] = r => Units(burns', OpenBurns(r)') = Units(burns, OpenBurns(r)) + units
         /\ c[2] # r => Units(burns', OpenBurns(r)') = Units(burns, OpenBurns(r))
<1>n. PICK n, m, s : n = Len(burns) /\ m = n + 1 /\ s = [token |-> c, units |-> units]
  OBVIOUS
<1>1. /\ n \in Nat /\ Len(burns') = m /\ burns'[m] = s
      /\ \A i \in 1..n : burns'[i] = burns[i]
      /\ m \notin 1..n /\ processedExits \subseteq 1..n
  <2>1. burns \in Seq([token : Address, units : Nat]) /\ processedExits \subseteq 1..n
    BY <1>n DEF TypeOK
  <2> QED BY <1>n, <2>1
<1>2. (1..m) \ processedExits = ((1..n) \ processedExits) \cup {m}
  BY <1>n, <1>1
<1>3. OpenBurns(r)' = {i \in ((1..n) \ processedExits) \cup {m} : burns'[i].token[2] = r}
  BY <1>1, <1>2 DEF OpenBurns
<1>4. /\ c[2] = r => OpenBurns(r)' = OpenBurns(r) \cup {m}
      /\ c[2] # r => OpenBurns(r)' = OpenBurns(r)
  <2>1. OpenBurns(r) = {i \in (1..n) \ processedExits : burns[i].token[2] = r}
    BY <1>n DEF OpenBurns
  <2>2. \A i \in (1..n) \ processedExits : burns'[i].token[2] = burns[i].token[2]
    BY ONLY <1>1
  <2>3. burns'[m].token[2] = c[2]
    BY ONLY <1>n, <1>1
  <2> QED BY ONLY <1>3, <2>1, <2>2, <2>3
<1>5. burns'[m].units = units
  BY ONLY <1>n, <1>1
<1>6. Written(burns, burns', OpenBurns(r), m)
  <2>1. /\ OpenBurns(r) \subseteq 1..n /\ IsFiniteSet(OpenBurns(r))
        /\ \A i \in 1..n : burns[i].units \in Nat
    BY <1>n, OwedFacts
  <2> QED BY ONLY <1>1, <1>5, <2>1, units \in Nat DEF Written
<1>7. /\ Units(burns', OpenBurns(r)) = Units(burns, OpenBurns(r))
      /\ Units(burns', OpenBurns(r) \cup {m}) = Units(burns, OpenBurns(r)) + burns'[m].units
  BY ONLY <1>6, UnitsWritten
<1> QED BY ONLY <1>4, <1>5, <1>7

\* A burn that was exited is owed no longer.
LEMMA ExitedIsNotOwed ==
  ASSUME TypeOK, IsFiniteSet(DOMAIN supply), NEW i \in 1..Len(burns), i \notin processedExits,
         processedExits' = processedExits \cup {i}, burns' = burns, NEW r \in RootToken
  PROVE  /\ burns[i].token[2] = r =>
              Units(burns, OpenBurns(r)) = Units(burns', OpenBurns(r)') + burns[i].units
         /\ burns[i].token[2] # r =>
              Units(burns', OpenBurns(r)') = Units(burns, OpenBurns(r))
         /\ Units(burns', OpenBurns(r)') \in Nat /\ burns[i].units \in Nat
<1>1. OpenBurns(r)' = OpenBurns(r) \ {i}
  BY DEF OpenBurns
<1>2. (\A j \in OpenBurns(r) : burns[j].units \in Nat) /\ burns[i].units \in Nat
  BY OwedFacts
<1>3. CASE burns[i].token[2] = r
  <2>1. i \in OpenBurns(r)
    BY <1>3 DEF OpenBurns
  <2>2. /\ Units(burns, OpenBurns(r)) = Units(burns, OpenBurns(r) \ {i}) + burns[i].units
        /\ Units(burns, OpenBurns(r) \ {i}) \in Nat
    BY <1>2, <2>1, OwedFacts, UnitsRemove
  <2> QED BY <1>1, <1>2, <1>3, <2>2
<1>4. CASE burns[i].token[2] # r
  <2>1. OpenBurns(r)' = OpenBurns(r)
    BY <1>1, <1>4 DEF OpenBurns
  <2> QED BY <1>2, <1>4, <2>1, OwedIsNumber
<1> QED BY <1>3, <1>4

\* A supply that changes is one of the supplies of its root token.
LEMMA SupplyChanges ==
  ASSUME TypeOK, IsFiniteSet(DOMAIN supply), NEW c \in DOMAIN supply, NEW n \in Nat,
         supply' = [supply EXCEPT ![c] = n], NEW r \in RootToken
  PROVE  /\ c[2] = r => SumFunctionOnSet(supply', ChildTokens(r)') + supply[c]
                          = SumFunctionOnSet(supply, ChildTokens(r)) + n
         /\ c[2] # r => SumFunctionOnSet(supply', ChildTokens(r)')
                          = SumFunctionOnSet(supply, ChildTokens(r))
         /\ SumFunctionOnSet(supply', ChildTokens(r)') \in Nat
<1>1. PICK T, old, new : T = ChildTokens(r) /\ old = supply /\ new = supply'
  OBVIOUS
<1>2. ChildTokens(r)' = T
  BY <1>1 DEF ChildTokens
<1>3. /\ IsFiniteSet(T) /\ \A d \in T : old[d] \in Nat /\ new[d] \in Nat
      /\ \A d \in T \ {c} : new[d] = old[d]
  <2>1. /\ T \subseteq DOMAIN supply /\ IsFiniteSet(T)
        /\ \A d \in T : supply[d] \in Nat
    BY <1>1, OwedFacts DEF ChildTokens
  <2>2. \A d \in T : supply'[d] = IF d = c THEN n ELSE supply[d]
    BY <2>1
  <2> QED BY ONLY <1>1, <2>1, <2>2, n \in Nat
<1>4. SumFunctionOnSet(new, T) \in Nat
  BY ONLY <1>3, SumType
<1>5. CASE c[2] = r
  <2>1. c \in T /\ new[c] = n /\ old[c] = supply[c]
    BY <1>1, <1>5 DEF ChildTokens
  <2>2. SumFunctionOnSet(new, T) + old[c] = SumFunctionOnSet(old, T) + new[c]
    BY ONLY <1>3, <2>1, SumChange
  <2> QED BY ONLY <1>1, <1>2, <1>4, <1>5, <2>1, <2>2
<1>6. CASE c[2] # r
  <2>1. c \notin T
    BY <1>1, <1>6 DEF ChildTokens
  <2>2. \A d \in T : old[d] \in Nat /\ new[d] = old[d]
    BY ONLY <1>3, <2>1
  <2>3. SumFunctionOnSet(new, T) = SumFunctionOnSet(old, T)
    BY ONLY <1>3, <2>2, SumEqual
  <2> QED BY ONLY <1>1, <1>2, <1>4, <1>6, <2>3
<1> QED BY <1>5, <1>6

\* A new token has no supply.
LEMMA SupplyStarts ==
  ASSUME TypeOK, IsFiniteSet(DOMAIN supply), NEW c, c \notin DOMAIN supply,
         supply' = [d \in DOMAIN supply \cup {c} |-> IF d = c THEN 0 ELSE supply[d]],
         NEW r \in RootToken
  PROVE  /\ SumFunctionOnSet(supply', ChildTokens(r)') = SumFunctionOnSet(supply, ChildTokens(r))
         /\ IsFiniteSet(DOMAIN supply')
<1>1. PICK T, old, new : T = ChildTokens(r) /\ old = supply /\ new = supply'
  OBVIOUS
<1>2. /\ IsFiniteSet(T) /\ \A d \in T : old[d] \in Nat /\ new[d] = old[d]
      /\ c \notin T /\ new[c] = 0
  <2>1. T \subseteq DOMAIN supply /\ IsFiniteSet(T) /\ \A d \in T : supply[d] \in Nat
    BY <1>1, OwedFacts DEF ChildTokens
  <2>2. \A d \in T : supply'[d] = supply[d]
    BY <2>1
  <2>3. supply'[c] = 0
    OBVIOUS
  <2> QED BY ONLY <1>1, <2>1, <2>2, <2>3, c \notin DOMAIN supply
<1>3. SumFunctionOnSet(new, T) = SumFunctionOnSet(old, T)
  BY ONLY <1>2, SumEqual
<1>4. SumFunctionOnSet(new, T \cup {c}) = SumFunctionOnSet(new, T) + 0
  <2>1. \A d \in T \cup {c} : new[d] \in Nat
    BY ONLY <1>2
  <2> QED BY ONLY <1>2, <2>1, SumAdd
<1>5. SumFunctionOnSet(old, T) \in Nat
  BY ONLY <1>2, SumType
<1>6. ChildTokens(r)' = IF c[2] = r THEN T \cup {c} ELSE T
  BY <1>1 DEF ChildTokens
<1>7. IsFiniteSet(DOMAIN supply')
  BY FS_AddElement
<1> QED BY ONLY <1>1, <1>3, <1>4, <1>5, <1>6, <1>7

\* The root manager has what it owes; and tokens were created one by one.
BInv == IsFiniteSet(DOMAIN supply) /\ Backed

\* Nothing is held and nothing owed at first.
LEMMA InitBInv == Init => BInv
<1> SUFFICES ASSUME Init PROVE BInv
  OBVIOUS
<1>1. DOMAIN supply = {}
  BY DEF Init
<1>2. ASSUME NEW r \in RootToken PROVE held[r] >= Outstanding(r)
  <2>1. ChildTokens(r) = {} /\ OnItsWay(r) = {} /\ OpenBurns(r) = {}
    BY <1>1 DEF Init, ChildTokens, OnItsWay, OpenBurns
  <2>2. Outstanding(r) = 0 /\ held[r] = 0
    BY <2>1, SumEmpty DEF Init, Outstanding, Units, SumFunction
  <2> QED BY <2>2
<1> QED BY <1>1, <1>2, FS_EmptySet DEF BInv, Backed

\* The sums, as numbers that add up to what is owed.
LEMMA OwedIs ==
  ASSUME IInv, BInv, NEW r \in RootToken
  PROVE  /\ Outstanding(r) = SumFunctionOnSet(supply, ChildTokens(r))
                              + Units(syncs, OnItsWay(r)) + Units(burns, OpenBurns(r))
         /\ SumFunctionOnSet(supply, ChildTokens(r)) \in Nat
         /\ Units(syncs, OnItsWay(r)) \in Nat /\ Units(burns, OpenBurns(r)) \in Nat
         /\ held[r] \in Nat /\ held[r] >= Outstanding(r)
BY OwedIsNumber DEF IInv, BInv, Backed, TypeOK, Outstanding

\* A sync is sent, and the manager takes its units.
LEMMA SentKeepsBacked ==
  ASSUME IInv, BInv, NEW s \in Sync, syncs' = Append(syncs, s),
         UNCHANGED <<delivered, supply, burns, processedExits>>,
         \A r \in RootToken : /\ r = s.root => held'[r] = held[r] + s.units
                              /\ r # s.root => held'[r] = held[r]
  PROVE  BInv'
<1>1. ASSUME NEW r \in RootToken PROVE held'[r] >= Outstanding(r)'
  <2>1. /\ s.root = r => Units(syncs', OnItsWay(r)') = Units(syncs, OnItsWay(r)) + s.units
        /\ s.root # r => Units(syncs', OnItsWay(r)') = Units(syncs, OnItsWay(r))
    BY SentIsOwed DEF IInv, BInv
  <2>2. Outstanding(r)' = SumFunctionOnSet(supply, ChildTokens(r))
                          + Units(syncs', OnItsWay(r)') + Units(burns, OpenBurns(r))
    BY DEF Outstanding, ChildTokens, OpenBurns
  <2>3. s.units \in Nat
    BY DEF Sync
  <2>4. /\ r = s.root => held'[r] = held[r] + s.units
        /\ r # s.root => held'[r] = held[r]
    OBVIOUS
  <2>5. /\ Outstanding(r) = SumFunctionOnSet(supply, ChildTokens(r))
                            + Units(syncs, OnItsWay(r)) + Units(burns, OpenBurns(r))
        /\ SumFunctionOnSet(supply, ChildTokens(r)) \in Nat
        /\ Units(syncs, OnItsWay(r)) \in Nat /\ Units(burns, OpenBurns(r)) \in Nat
        /\ held[r] \in Nat /\ held[r] >= Outstanding(r)
    BY OwedIs
  <2> QED BY ONLY <2>1, <2>2, <2>3, <2>4, <2>5
<1> QED BY <1>1 DEF BInv, Backed

\* A mapping is sent with no units.
LEMMA MappingKeepsBacked ==
  ASSUME IInv, BInv, NEW r \in RootToken, NEW c \in Address, SendSync("MAP_TOKEN", r, 0, c),
         UNCHANGED <<delivered, supply, burns, processedExits, held>>
  PROVE  BInv'
<1> DEFINE s == [kind |-> "MAP_TOKEN", to |-> childChainManagerAddress,
                 root |-> r, units |-> 0, child |-> c]
<1>1. s \in Sync
  BY DEF IInv, TypeOK, Sync
<1>2. syncs' = Append(syncs, s)
  BY DEF SendSync
<1>3. \A t \in RootToken : held[t] \in Nat
  BY DEF IInv, TypeOK
<1>4. \A t \in RootToken : /\ t = s.root => held'[t] = held[t] + s.units
                           /\ t # s.root => held'[t] = held[t]
  BY <1>3
<1> HIDE DEF s
<1> QED BY <1>1, <1>2, <1>4, SentKeepsBacked

\* A deposit takes the units that it sends: both are the same conversion.
LEMMA DepositKeepsBacked ==
  ASSUME IInv, BInv, NEW r \in RootToken, NEW value \in 1..MaxValue, DepositFor(r, value)
  PROVE  BInv'
<1>0. TypeOK
  BY DEF IInv
<1>1. value \in Nat /\ index[r] \in Nat /\ held \in [RootToken -> Nat]
  BY <1>0, ATokenAssumption, IndexIsWord DEF TypeOK
<1>2. rootToChildToken[r] \in Address
  BY <1>0 DEF DepositFor, TypeOK, Forward
<1>3. PICK moved \in p27Div(value, index[r]) : held' = [held EXCEPT ![r] = @ + moved]
  BY DEF DepositFor, TransferUnits
<1>4. PICK units \in p27Div(value, index[r]) :
        SendSync("DEPOSIT", r, units, rootToChildToken[r])
  BY DEF DepositFor
<1>5. moved = units /\ units \in Nat
  <2>1. units \in Nat
    BY <1>1, ConversionsNat
  <2> QED BY <2>1 DEF p27Div
<1> DEFINE s == [kind |-> "DEPOSIT", to |-> childChainManagerAddress,
                 root |-> r, units |-> units, child |-> rootToChildToken[r]]
<1>6. s \in Sync
  BY <1>0, <1>2, <1>5 DEF TypeOK, Sync
<1>7. syncs' = Append(syncs, s) /\ UNCHANGED <<delivered, supply, burns, processedExits>>
  BY <1>4 DEF DepositFor, SendSync, childVars
<1>8. \A t \in RootToken : /\ t = s.root => held'[t] = held[t] + s.units
                           /\ t # s.root => held'[t] = held[t]
  BY <1>1, <1>3, <1>5
<1> HIDE DEF s
<1> QED BY <1>6, <1>7, <1>8, SentKeepsBacked

\* An exit pays for the root token that the burned token's address names.
LEMMA ExitKeepsBacked ==
  ASSUME IInv, BInv, NEW i \in 1..Len(burns), Exit(i)
  PROVE  BInv'
<1> DEFINE r == childToRootToken[burns[i].token]
<1>0. TypeOK /\ IsFiniteSet(DOMAIN supply)
  BY DEF IInv, BInv
<1>1. UNCHANGED <<delivered, supply, burns, syncs>> /\ i \notin processedExits
      /\ processedExits' = processedExits \cup {i} /\ r # Zero
  BY DEF Exit, childVars
<1>2. burns[i].token \in Address /\ burns[i].units \in Nat
  <2> DEFINE B == [token : Address, units : Nat]
  <2>1. burns \in Seq(B)
    BY <1>0 DEF TypeOK
  <2> HIDE DEF B
  <2>2. burns[i] \in B
    BY <2>1
  <2> QED BY <2>2 DEF B
<1>3. r \in RootToken /\ r = burns[i].token[2]
  BY <1>1, <1>2 DEF IInv, Sound, Backward
<1>4. PICK value \in p27Mul(burns[i].units, index[r]) :
        \E moved \in TransferUnits(value, r) :
          held[r] >= moved /\ held' = [held EXCEPT ![r] = @ - moved]
  BY DEF Exit
<1>5. PICK moved \in p27Div(value, index[r]) :
        held[r] >= moved /\ held' = [held EXCEPT ![r] = @ - moved]
  BY <1>4 DEF TransferUnits
<1> HIDE DEF r
<1>6. index[r] \in Uint /\ index[r] >= P27
  BY <1>0, <1>3, IndexIsWord
<1>7. moved \in Nat /\ moved <= burns[i].units
  BY <1>2, <1>4, <1>5, <1>6, ExitTakes
<1>8. ASSUME NEW t \in RootToken PROVE held'[t] >= Outstanding(t)'
  <2>1. /\ burns[i].token[2] = t =>
             Units(burns, OpenBurns(t)) = Units(burns', OpenBurns(t)') + burns[i].units
        /\ burns[i].token[2] # t =>
             Units(burns', OpenBurns(t)') = Units(burns, OpenBurns(t))
        /\ Units(burns', OpenBurns(t)') \in Nat
    BY <1>0, <1>1, ExitedIsNotOwed
  <2>2. Outstanding(t)' = SumFunctionOnSet(supply, ChildTokens(t))
                          + Units(syncs, OnItsWay(t)) + Units(burns', OpenBurns(t)')
    BY <1>1 DEF Outstanding, ChildTokens, OnItsWay
  <2>3. /\ t = r => held'[t] = held[t] - moved
        /\ t # r => held'[t] = held[t]
    BY <1>0, <1>3, <1>5 DEF TypeOK
  <2>4. /\ Outstanding(t) = SumFunctionOnSet(supply, ChildTokens(t))
                            + Units(syncs, OnItsWay(t)) + Units(burns, OpenBurns(t))
        /\ SumFunctionOnSet(supply, ChildTokens(t)) \in Nat
        /\ Units(syncs, OnItsWay(t)) \in Nat /\ Units(burns, OpenBurns(t)) \in Nat
        /\ held[t] \in Nat /\ held[t] >= Outstanding(t)
    BY OwedIs
  <2>5. moved \in Nat /\ moved <= burns[i].units /\ burns[i].units \in Nat
        /\ r = burns[i].token[2]
    BY <1>2, <1>3, <1>7
  <2>6. CASE t = r
    <3>1. /\ Units(burns, OpenBurns(t)) = Units(burns', OpenBurns(t)') + burns[i].units
          /\ held'[t] = held[t] - moved
      BY <2>1, <2>3, <2>5, <2>6
    <3> QED BY ONLY <2>1, <2>2, <2>4, <2>5, <3>1
  <2>7. CASE t # r
    <3>1. Units(burns', OpenBurns(t)') = Units(burns, OpenBurns(t)) /\ held'[t] = held[t]
      BY <2>1, <2>3, <2>5, <2>7
    <3> QED BY ONLY <2>1, <2>2, <2>4, <3>1
  <2> QED BY <2>6, <2>7
<1> QED BY <1>0, <1>1, <1>8 DEF BInv, Backed

\* A sync that is consumed: its units are credited to a token of its root token, or
\* lost, and a token that is created has none.
LEMMA DeliveryKeepsBacked ==
  ASSUME IInv, BInv, Deliver
  PROVE  BInv'
<1> DEFINE s == syncs[delivered + 1]
<1>0. TypeOK /\ IsFiniteSet(DOMAIN supply)
  BY DEF IInv, BInv
<1>1. /\ delivered < Len(syncs) /\ delivered' = delivered + 1
      /\ UNCHANGED <<held, syncs, burns, processedExits>>
  BY DEF Deliver
<1>2. s.root \in RootToken /\ s.units \in Nat
  <2>1. delivered + 1 \in 1..Len(syncs)
    BY <1>0, <1>1 DEF TypeOK
  <2>2. s \in Sync
    BY <1>0, <2>1 DEF TypeOK
  <2> QED BY <2>2 DEF Sync
<1>3. \/ Credit(s) \/ CreateToken(s)
      \/ UNCHANGED supply
  BY DEF Deliver
<1>4. PICK y : y = s
  OBVIOUS
<1> HIDE DEF s
<1>5. ASSUME NEW r \in RootToken
      PROVE  /\ SumFunctionOnSet(supply', ChildTokens(r)') \in Nat
             /\ y.root = r => SumFunctionOnSet(supply', ChildTokens(r)')
                                <= SumFunctionOnSet(supply, ChildTokens(r)) + y.units
             /\ y.root # r => SumFunctionOnSet(supply', ChildTokens(r)')
                                = SumFunctionOnSet(supply, ChildTokens(r))
  <2>0. SumFunctionOnSet(supply, ChildTokens(r)) \in Nat
    BY <1>0, OwedIsNumber
  <2>1. CASE UNCHANGED supply
    <3>1. SumFunctionOnSet(supply', ChildTokens(r)') = SumFunctionOnSet(supply, ChildTokens(r))
      BY <2>1 DEF ChildTokens
    <3> QED BY <1>2, <1>4, <2>0, <3>1
  <2>2. CASE Credit(s)
    <3> DEFINE c == onChild.rootToChildToken[s.root]
    <3>1. c # Zero /\ supply' = [supply EXCEPT ![c] = @ + s.units]
      BY <2>2 DEF Credit
    <3>2. c[2] = s.root
      <4>1. Sound(onChild.rootToChildToken, onChild.childToRootToken)
        BY DEF IInv
      <4> QED BY <1>2, <3>1, <4>1 DEF Sound, OneToOneIn, Forward
    <3> HIDE DEF c
    <3>3. CASE c \in DOMAIN supply
      <4>1. supply[c] \in Nat /\ supply[c] + s.units \in Nat
        BY <1>0, <1>2, <3>3 DEF TypeOK
      <4>2. supply' = [supply EXCEPT ![c] = supply[c] + s.units]
        BY <3>1
      <4>3. /\ c[2] = r => SumFunctionOnSet(supply', ChildTokens(r)') + supply[c]
                              = SumFunctionOnSet(supply, ChildTokens(r)) + (supply[c] + s.units)
            /\ c[2] # r => SumFunctionOnSet(supply', ChildTokens(r)')
                              = SumFunctionOnSet(supply, ChildTokens(r))
            /\ SumFunctionOnSet(supply', ChildTokens(r)') \in Nat
        BY <1>0, <3>3, <4>1, <4>2, SupplyChanges
      <4> QED BY <1>2, <1>4, <2>0, <3>2, <4>1, <4>3
    <3>4. CASE c \notin DOMAIN supply
      <4>1. ChildTokens(r)' = ChildTokens(r)
        BY <3>1, <3>4 DEF ChildTokens
      <4>2. \A d \in ChildTokens(r) : supply[d] \in Nat /\ supply'[d] = supply[d]
        BY <1>0, <3>1, <3>4, OwedFacts DEF ChildTokens
      <4>3. IsFiniteSet(ChildTokens(r))
        BY <1>0, OwedFacts
      <4>4. SumFunctionOnSet(supply', ChildTokens(r)) = SumFunctionOnSet(supply, ChildTokens(r))
        BY <4>2, <4>3, SumEqual
      <4> QED BY <1>2, <1>4, <2>0, <4>1, <4>4
    <3> QED BY <3>3, <3>4
  <2>3. CASE CreateToken(s)
    <3> DEFINE c == <<ChildManager, s.root, code>>
    <3>1. /\ c \notin DOMAIN supply
          /\ supply' = [d \in DOMAIN supply \cup {c} |-> IF d = c THEN 0 ELSE supply[d]]
      BY <2>3 DEF CreateToken
    <3> HIDE DEF c
    <3>2. SumFunctionOnSet(supply', ChildTokens(r)') = SumFunctionOnSet(supply, ChildTokens(r))
      BY <1>0, <3>1, SupplyStarts
    <3> QED BY <1>2, <1>4, <2>0, <3>2
  <2> QED BY <1>3, <2>1, <2>2, <2>3
<1>6. IsFiniteSet(DOMAIN supply')
  <2>1. CASE CreateToken(s)
    <3> DEFINE c == <<ChildManager, s.root, code>>
    <3>1. DOMAIN supply' = DOMAIN supply \cup {c}
      BY <2>1 DEF CreateToken
    <3> QED BY <1>0, <3>1, FS_AddElement
  <2>2. CASE DOMAIN supply' = DOMAIN supply
    BY <1>0, <2>2
  <2> QED BY <1>3, <2>1, <2>2 DEF Credit
<1>7. ASSUME NEW r \in RootToken PROVE held'[r] >= Outstanding(r)'
  <2>1. /\ y.root = r =>
             Units(syncs, OnItsWay(r)) = Units(syncs', OnItsWay(r)') + y.units
        /\ y.root # r => Units(syncs', OnItsWay(r)') = Units(syncs, OnItsWay(r))
        /\ Units(syncs', OnItsWay(r)') \in Nat /\ y.units \in Nat
    BY <1>0, <1>1, <1>4, ConsumedIsNotOwed DEF s
  <2>2. Outstanding(r)' = SumFunctionOnSet(supply', ChildTokens(r)')
                          + Units(syncs', OnItsWay(r)') + Units(burns, OpenBurns(r))
    BY <1>1 DEF Outstanding, OpenBurns
  <2>3. held'[r] = held[r]
    BY <1>1
  <2> QED BY <1>5, <2>1, <2>2, <2>3, OwedIs
<1> QED BY <1>6, <1>7 DEF BInv, Backed

\* A burn makes what exists what is on its way back.
LEMMA WithdrawKeepsBacked ==
  ASSUME IInv, BInv, NEW c \in DOMAIN supply, NEW units \in 1..(MaxValue * MaxSyncs),
         Withdraw(c, units)
  PROVE  BInv'
<1>0. TypeOK /\ IsFiniteSet(DOMAIN supply)
  BY DEF IInv, BInv
<1>1. /\ units \in Nat /\ c \in Address /\ supply[c] \in Nat /\ units <= supply[c]
      /\ supply' = [supply EXCEPT ![c] = supply[c] - units]
      /\ burns' = Append(burns, [token |-> c, units |-> units])
      /\ UNCHANGED <<held, syncs, delivered, processedExits>>
  BY <1>0, ATokenAssumption DEF TypeOK, Withdraw
<1>2. ASSUME NEW r \in RootToken PROVE held'[r] >= Outstanding(r)'
  <2>1. supply[c] - units \in Nat
    BY <1>1
  <2>2. /\ c[2] = r => SumFunctionOnSet(supply', ChildTokens(r)') + supply[c]
                          = SumFunctionOnSet(supply, ChildTokens(r)) + (supply[c] - units)
        /\ c[2] # r => SumFunctionOnSet(supply', ChildTokens(r)')
                          = SumFunctionOnSet(supply, ChildTokens(r))
        /\ SumFunctionOnSet(supply', ChildTokens(r)') \in Nat
    BY <1>0, <1>1, <2>1, SupplyChanges
  <2>3. /\ c[2] = r => Units(burns', OpenBurns(r)') = Units(burns, OpenBurns(r)) + units
        /\ c[2] # r => Units(burns', OpenBurns(r)') = Units(burns, OpenBurns(r))
    BY <1>0, <1>1, BurnedIsOwed
  <2>4. Outstanding(r)' = SumFunctionOnSet(supply', ChildTokens(r)')
                          + Units(syncs, OnItsWay(r)) + Units(burns', OpenBurns(r)')
    BY <1>1 DEF Outstanding, OnItsWay
  <2>5. held'[r] = held[r]
    BY <1>1
  <2> QED BY <1>1, <2>2, <2>3, <2>4, <2>5, OwedIs
<1>3. IsFiniteSet(DOMAIN supply')
  BY <1>0, <1>1
<1> QED BY <1>2, <1>3 DEF BInv, Backed

\* Action by action; the others touch nothing that is summed up.
LEMMA NextBInv == IInv /\ BInv /\ [Next]_vars => BInv'
<1> SUFFICES ASSUME IInv, BInv, [Next]_vars PROVE BInv'
  OBVIOUS
<1>1. ASSUME NEW r \in RootToken, MapToken(r) \/ RemapToken(r) PROVE BInv'
  <2>1. childTokenAddress(r) \in Address
    BY AddressNamesRoot DEF IInv, TypeOK, childTokenAddress
  <2>2. /\ SendSync("MAP_TOKEN", r, 0, childTokenAddress(r))
        /\ UNCHANGED <<delivered, supply, burns, processedExits, held>>
    BY <1>1 DEF MapToken, RemapToken, childVars, SendSync
  <2> QED BY <2>1, <2>2, MappingKeepsBacked
<1>2. ASSUME NEW r \in RootToken, NEW value \in 1..MaxValue, DepositFor(r, value) PROVE BInv'
  BY <1>2, DepositKeepsBacked
<1>3. ASSUME NEW i \in 1..Len(burns), Exit(i) PROVE BInv'
  BY <1>3, ExitKeepsBacked
<1>4. CASE Deliver
  BY <1>4, DeliveryKeepsBacked
<1>5. ASSUME NEW c \in DOMAIN supply, NEW units \in 1..(MaxValue * MaxSyncs), Withdraw(c, units)
      PROVE  BInv'
  BY <1>5, WithdrawKeepsBacked
<1>6. CASE UNCHANGED <<held, syncs, delivered, supply, burns, processedExits>>
  <2>1. \A r \in RootToken : Outstanding(r)' = Outstanding(r)
    BY <1>6 DEF Outstanding, ChildTokens, OnItsWay, OpenBurns
  <2> QED BY <1>6, <2>1 DEF BInv, Backed
<1>7. \/ \E r \in RootToken : MapToken(r) \/ RemapToken(r)
      \/ \E r \in RootToken, value \in 1..MaxValue : DepositFor(r, value)
      \/ \E i \in 1..Len(burns) : Exit(i)
      \/ Deliver
      \/ \E c \in DOMAIN supply, units \in 1..(MaxValue * MaxSyncs) : Withdraw(c, units)
      \/ UNCHANGED <<held, syncs, delivered, supply, burns, processedExits>>
  BY DEF Next, vars, Accrue, SetChildChainManagerAddressAndHash,
         UpgradeChildManager, SubmitCheckpoint, childVars
<1> QED BY <1>1, <1>2, <1>3, <1>4, <1>5, <1>6, <1>7

\* At any index, through any number of conversions and whatever is remapped, the
\* manager holds the units that exist on the child chain or are on their way.
THEOREM ATokenBacked == Spec => []Backed
<1>1. BInv => Backed
  BY DEF BInv
<1>2. Spec => []BInv
  BY InitIInv, InitBInv, NextIInv, NextBInv, PTL DEF Spec
<1> QED BY <1>1, <1>2, PTL

\* Whether the manager has what the exit of burn i takes, at the index as it is.
PaidInFull(i) ==
  LET r == burns[i].token[2]
  IN  \A value \in p27Mul(burns[i].units, index[r]) :
        \A moved \in TransferUnits(value, r) : held[r] >= moved

\* The units of an open burn are part of what is outstanding, and no more is taken.
LEMMA OpenBurnPaid ==
  ASSUME IInv, BInv, NEW i \in (1..Len(burns)) \ processedExits
  PROVE  PaidInFull(i)
<1> DEFINE r == burns[i].token[2]
<1>0. TypeOK /\ IsFiniteSet(DOMAIN supply)
  BY DEF IInv, BInv
<1>1. burns[i].token \in Address /\ burns[i].units \in Nat
  <2> DEFINE B == [token : Address, units : Nat]
  <2>1. burns \in Seq(B)
    BY <1>0 DEF TypeOK
  <2> HIDE DEF B
  <2>2. burns[i] \in B
    BY <2>1
  <2> QED BY <2>2 DEF B
<1>2. r \in RootToken
  BY <1>1 DEF Address
<1>3. i \in OpenBurns(r)
  BY DEF OpenBurns
<1> HIDE DEF r
<1>4. \A j \in OpenBurns(r) : burns[j].units \in Nat
  BY <1>0, <1>2, OwedFacts
<1>5. /\ Units(burns, OpenBurns(r)) = Units(burns, OpenBurns(r) \ {i}) + burns[i].units
      /\ Units(burns, OpenBurns(r) \ {i}) \in Nat
  BY <1>0, <1>2, <1>3, <1>4, OwedFacts, UnitsRemove
<1>6. /\ Outstanding(r) = SumFunctionOnSet(supply, ChildTokens(r))
                          + Units(syncs, OnItsWay(r)) + Units(burns, OpenBurns(r))
      /\ SumFunctionOnSet(supply, ChildTokens(r)) \in Nat
      /\ Units(syncs, OnItsWay(r)) \in Nat
      /\ held[r] \in Nat /\ held[r] >= Outstanding(r)
  BY <1>2, OwedIs
<1>7. held[r] >= burns[i].units
  BY ONLY <1>1, <1>5, <1>6
<1>8. index[r] \in Uint /\ index[r] >= P27
  BY <1>0, <1>2, IndexIsWord
<1>9. ASSUME NEW value \in p27Mul(burns[i].units, index[r]),
             NEW moved \in p27Div(value, index[r])
      PROVE  held[r] >= moved
  <2>1. moved \in Nat /\ moved <= burns[i].units
    BY <1>1, <1>8, ExitTakes
  <2> QED BY <1>1, <1>6, <1>7, <2>1
<1> QED BY <1>9 DEF PaidInFull, TransferUnits, r

\* What keeps an exit from passing is never that the manager has too little: the
\* aTokens are there for every burn that was not exited, at every index.
THEOREM ATokenPayable == Spec => [](\A i \in (1..Len(burns)) \ processedExits : PaidInFull(i))
<1>1. IInv /\ BInv => \A i \in (1..Len(burns)) \ processedExits : PaidInFull(i)
  BY OpenBurnPaid
<1>2. Spec => []BInv
  BY InitIInv, InitBInv, NextIInv, NextBInv, PTL DEF Spec
<1> QED BY <1>1, <1>2, Invariance, PTL


-----------------------------------------------------------------------------
(* The steps of the scripts.                                               *)

LEMMA TransferChildSteps ==
  /\ Len(TransferChild) = Len(Listed) + 2
  /\ TransferChild[1] = "setOwner"
  /\ TransferChild[2] = "transferProxyOwnership"
  /\ \A n \in 3..(Len(Listed) + 2) : TransferChild[n] = "transferToken"
<1> DEFINE Methods == {"setOwner", "transferProxyOwnership", "transferToken"}
           loop == [i \in 1..Len(Listed) |-> "transferToken"]
           head == <<"setOwner", "transferProxyOwnership">>
<1>1. Len(Listed) \in Nat
  BY HandoverAssumption
<1>2. loop \in [1..Len(Listed) -> Methods]
  OBVIOUS
<1>3. loop \in Seq(Methods)
  BY <1>1, <1>2, SeqDef
<1>4. Len(loop) = Len(Listed)
  BY <1>1, <1>3, LenProperties
<1>5. head \in Seq(Methods) /\ Len(head) = 2
  OBVIOUS
<1>6. head[1] = "setOwner" /\ head[2] = "transferProxyOwnership"
  OBVIOUS
<1>7. \A n \in 1..Len(Listed) : loop[n] = "transferToken"
  OBVIOUS
<1>8. TransferChild = head \o loop
  BY DEF TransferChild
<1> HIDE DEF head, loop, Methods
<1>9. /\ Len(head \o loop) = Len(Listed) + 2
      /\ \A n \in 1..(Len(Listed) + 2) :
           (head \o loop)[n] = IF n <= 2 THEN head[n] ELSE loop[n - 2]
  <2>1. /\ Len(head \o loop) = Len(head) + Len(loop)
        /\ \A n \in 1..(Len(head) + Len(loop)) :
             (head \o loop)[n] = IF n <= Len(head) THEN head[n] ELSE loop[n - Len(head)]
    BY <1>3, <1>5, ConcatProperties, Zenon
  <2>2. Len(head) + Len(loop) = Len(Listed) + 2
    BY <1>1, <1>4, <1>5
  <2> QED
    BY <1>5, <2>1, <2>2, Zenon
<1> QED
  BY <1>1, <1>6, <1>7, <1>8, <1>9

\* Which transaction is which step of which script.
StepsAreKnown ==
  \A s \in Script :
    /\ Len(Steps(s)) \in Nat
    /\ s = "transferRoot" =>
         /\ Len(Steps(s)) = 3
         /\ Steps(s)[1] = "setMapper" /\ Steps(s)[2] = "setOwner"
         /\ Steps(s)[3] = "transferProxyOwnership"
    /\ s = "transferChild" =>
         /\ Len(Steps(s)) = Len(Listed) + 2
         /\ Steps(s)[1] = "setOwner" /\ Steps(s)[2] = "transferProxyOwnership"
         /\ \A n \in 3..(Len(Listed) + 2) : Steps(s)[n] = "transferToken"
    /\ s \in {"upgradeRoot", "upgradeChild"} =>
         Len(Steps(s)) = 2 /\ Steps(s)[1] = "deploy" /\ Steps(s)[2] = "updateImplementation"
    /\ s = "mapToken" => Len(Steps(s)) = 1 /\ Steps(s)[1] = "mapToken"

LEMMA StepsKnown == StepsAreKnown
<1> SUFFICES ASSUME NEW s \in Script
             PROVE  /\ Len(Steps(s)) \in Nat
                    /\ s = "transferRoot" =>
                         /\ Len(Steps(s)) = 3
                         /\ Steps(s)[1] = "setMapper" /\ Steps(s)[2] = "setOwner"
                         /\ Steps(s)[3] = "transferProxyOwnership"
                    /\ s = "transferChild" =>
                         /\ Len(Steps(s)) = Len(Listed) + 2
                         /\ Steps(s)[1] = "setOwner" /\ Steps(s)[2] = "transferProxyOwnership"
                         /\ \A n \in 3..(Len(Listed) + 2) : Steps(s)[n] = "transferToken"
                    /\ s \in {"upgradeRoot", "upgradeChild"} =>
                         Len(Steps(s)) = 2 /\ Steps(s)[1] = "deploy" /\ Steps(s)[2] = "updateImplementation"
                    /\ s = "mapToken" => Len(Steps(s)) = 1 /\ Steps(s)[1] = "mapToken"
  BY DEF StepsAreKnown
<1>1. CASE s = "transferRoot"
  <2>1. Steps(s) = TransferRoot
    BY <1>1 DEF Steps
  <2> QED
    BY <1>1, <2>1 DEF TransferRoot
<1>2. CASE s = "transferChild"
  <2>1. Steps(s) = TransferChild
    BY <1>2 DEF Steps
  <2>2. Len(Listed) \in Nat
    BY HandoverAssumption
  <2> QED
    BY <1>2, <2>1, <2>2, TransferChildSteps
<1>3. CASE s \in {"upgradeRoot", "upgradeChild"}
  <2>1. Steps(s) = UpgradeRoot
    BY <1>3 DEF Steps, UpgradeRoot, UpgradeChild
  <2> QED
    BY <1>3, <2>1 DEF UpgradeRoot
<1>4. CASE s = "mapToken"
  <2>1. Steps(s) = MapAToken
    BY <1>4 DEF Steps
  <2> QED
    BY <1>4, <2>1 DEF MapAToken
<1> QED
  BY <1>1, <1>2, <1>3, <1>4 DEF Script

-----------------------------------------------------------------------------
(* Sequences of transactions.                                              *)

LEMMA Appended ==
  ASSUME NEW q \in Seq(Tx), NEW tx \in Tx
  PROVE  /\ Append(q, tx) \in Seq(Tx)
         /\ Len(Append(q, tx)) = Len(q) + 1
         /\ \A i \in 1..Len(q) : Append(q, tx)[i] = q[i]
         /\ Append(q, tx)[Len(q) + 1] = tx
<1> HIDE DEF Tx
<1> QED
  OBVIOUS

LEMMA Tailed ==
  ASSUME NEW q \in Seq(Tx), q # << >>
  PROVE  /\ Head(q) = q[1] /\ Head(q) \in Tx
         /\ Len(q) \in Nat /\ Len(q) >= 1
         /\ Tail(q) \in Seq(Tx)
         /\ Len(Tail(q)) = Len(q) - 1
         /\ \A i \in 1..(Len(q) - 1) : Tail(q)[i] = q[i + 1]
<1> HIDE DEF Tx
<1> QED
  OBVIOUS

LEMMA IdleRun == Idle \in Run /\ Idle.step = 0 /\ Idle.sent = FALSE
<1>1. (CHOOSE t \in Token : TRUE) \in Token
  BY HandoverAssumption
<1> QED
  BY <1>1 DEF Idle, Run

-----------------------------------------------------------------------------
(* The inductive invariant.                                                *)

\* A transaction is in the queue of its chain and is a step of its script; the
\* script that awaits it is at that step, and awaits no other.
Queued(c, i) ==
  LET tx == mempool[c][i]
  IN  /\ ChainOf(tx.script) = c
      /\ tx.step <= Len(Steps(tx.script))
      /\ tx.awaited => run[tx.script].step = tx.step /\ run[tx.script].sent
      /\ \A j \in 1..Len(mempool[c]) :
           i # j /\ tx.awaited /\ mempool[c][j].awaited => mempool[c][j].script # tx.script

QueueOK == \A c \in Chain : \A i \in 1..Len(mempool[c]) : Queued(c, i)

\* What is so when a handover of the root or of the child chain is at a step.
RootReached(step) ==
  /\ step >= 2 => mapper = Multisig
  /\ step >= 3 => owner["root"] = Multisig

ChildReached(step) ==
  /\ step >= 2 => owner["child"] = Multisig
  /\ step >= 3 => proxyOwner["child"] = Multisig
  /\ \A i \in 1..Len(Listed) : i + 2 < step => tokenOwner[Listed[i]] # Deployer

Reached ==
  /\ RootReached(run["transferRoot"].step)
  /\ ChildReached(run["transferChild"].step)
  /\ \A i \in 1..Len(mempool["root"]) :
       mempool["root"][i].script = "transferRoot" => RootReached(mempool["root"][i].step)
  /\ \A i \in 1..Len(mempool["child"]) :
       mempool["child"][i].script = "transferChild" => ChildReached(mempool["child"][i].step)

HandoverInv == HandoverTypeOK /\ QueueOK /\ Reached /\ HandedOverInOrder /\ SuccessIsComplete

THEOREM InitHandoverInv == HandoverInit => HandoverInv
<1> SUFFICES ASSUME HandoverInit PROVE HandoverInv
  OBVIOUS
<1> USE DEF HandoverInit, Chain, Account, Script
<1>1. HandoverTypeOK
  <2>1. run \in [Script -> Run] /\ \A s \in Script : run[s].step = 0
    BY IdleRun
  <2>2. \A s \in Script : run[s].step <= Len(Steps(s))
    BY <2>1, StepsKnown DEF StepsAreKnown
  <2>3. mempool \in [Chain -> Seq(Tx)]
    OBVIOUS
  <2> QED
    BY <2>1, <2>2, <2>3 DEF HandoverTypeOK
<1>2. QueueOK
  BY DEF QueueOK
<1>3. Reached
  BY IdleRun, HandoverAssumption DEF Reached, RootReached, ChildReached
<1>4. HandedOverInOrder /\ SuccessIsComplete
  BY HandoverAssumption DEF HandedOverInOrder, SuccessIsComplete
<1> QED
  BY <1>1, <1>2, <1>3, <1>4 DEF HandoverInv

-----------------------------------------------------------------------------
(* What a transaction does, by its script and step.                        *)

RootEffect(tx) ==
  /\ tx.script = "transferRoot"
  /\ \/ tx.step = 1 /\ SetMapper /\ owner["root"] = Deployer
     \/ tx.step = 2 /\ SetOwner("root") /\ owner["root"] = Deployer
     \/ tx.step = 3 /\ TransferProxyOwnership("root") /\ proxyOwner["root"] = Deployer

ChildEffect(tx) ==
  /\ tx.script = "transferChild"
  /\ \/ tx.step = 1 /\ SetOwner("child")
     \/ tx.step = 2 /\ TransferProxyOwnership("child")
     \/ tx.step \in 3..(Len(Listed) + 2) /\ TransferToken(Listed[tx.step - 2])

OtherEffect(tx, c) ==
  \/ /\ tx.script \in {"upgradeRoot", "upgradeChild"}
     /\ \/ tx.step = 1 /\ DeployImplementation(c)
        \/ tx.step = 2 /\ UpdateImplementation(c, tx.version)
  \/ tx.script = "mapToken" /\ MapListed(tx.token)

Effect(tx, c) == RootEffect(tx) \/ ChildEffect(tx) \/ OtherEffect(tx, c)

LEMMA EffectKnown ==
  ASSUME NEW tx \in Tx, NEW c \in Chain, ChainOf(tx.script) = c,
         tx.step <= Len(Steps(tx.script)), Passes(tx), Execute(tx)
  PROVE  Effect(tx, c)
<1> DEFINE s == tx.script
           n == tx.step
<1>1. s \in Script /\ n \in Nat /\ n > 0 /\ Method(tx) = Steps(s)[n]
  BY DEF Tx, Method
<1> DEFINE m == Method(tx)
<1>2. /\ m \in {"setMapper", "setOwner"} => owner[c] = Deployer
      /\ m \in {"transferProxyOwnership", "updateImplementation"} => proxyOwner[c] = Deployer
  BY DEF Passes, OnlyOwner, OnlyProxyOwner
<1>3. /\ m = "setMapper" => SetMapper
      /\ m = "setOwner" => SetOwner(c)
      /\ m = "transferProxyOwnership" => TransferProxyOwnership(c)
      /\ m = "transferToken" => TransferToken(ListedAt(n))
      /\ m = "deploy" => DeployImplementation(c)
      /\ m = "updateImplementation" => UpdateImplementation(c, tx.version)
      /\ m = "mapToken" => MapListed(tx.token)
  BY DEF Execute
<1>4. CASE s = "transferRoot"
  <2>1. c = "root"
    BY <1>4 DEF ChainOf
  <2>2. \/ n = 1 /\ m = "setMapper"
        \/ n = 2 /\ m = "setOwner"
        \/ n = 3 /\ m = "transferProxyOwnership"
    BY <1>1, <1>4, StepsKnown DEF StepsAreKnown
  <2> HIDE DEF m
  <2> QED
    BY <1>2, <1>3, <1>4, <2>1, <2>2 DEF Effect, RootEffect
<1>5. CASE s = "transferChild"
  <2>1. c = "child"
    BY <1>5 DEF ChainOf
  <2>2. Len(Listed) \in Nat
    BY HandoverAssumption
  <2>3. \/ n = 1 /\ m = "setOwner"
        \/ n = 2 /\ m = "transferProxyOwnership"
        \/ n \in 3..(Len(Listed) + 2) /\ m = "transferToken"
    BY <1>1, <1>5, <2>2, StepsKnown DEF StepsAreKnown
  <2> HIDE DEF m
  <2> QED
    BY <1>3, <1>5, <2>1, <2>3 DEF Effect, ChildEffect, ListedAt
<1>6. CASE s \in {"upgradeRoot", "upgradeChild"}
  <2>1. \/ n = 1 /\ m = "deploy"
        \/ n = 2 /\ m = "updateImplementation"
    BY <1>1, <1>6, StepsKnown DEF StepsAreKnown
  <2> HIDE DEF m
  <2> QED
    BY <1>3, <1>6, <2>1 DEF Effect, OtherEffect
<1>7. CASE s = "mapToken"
  <2>1. m = "mapToken"
    BY <1>1, <1>7, StepsKnown DEF StepsAreKnown
  <2> HIDE DEF m
  <2> QED
    BY <1>3, <1>7, <2>1 DEF Effect, OtherEffect
<1> QED
  BY <1>1, <1>4, <1>5, <1>6, <1>7 DEF Script

\* Nothing is handed back, and no token is created for a deployer whose manager
\* is gone.
Monotone ==
  /\ mapper = Multisig => mapper' = Multisig
  /\ \A c \in Chain : owner[c] = Multisig => owner'[c] = Multisig
  /\ \A c \in Chain : proxyOwner[c] = Multisig => proxyOwner'[c] = Multisig
  /\ owner["child"] = Multisig =>
       \A t \in Token : tokenOwner[t] # Deployer => tokenOwner'[t] # Deployer

LEMMA EffectIsMonotone ==
  ASSUME HandoverTypeOK, NEW tx \in Tx, NEW c \in Chain, Effect(tx, c)
  PROVE  Monotone
<1> USE HandoverAssumption DEF HandoverTypeOK, Chain
<1>1. CASE RootEffect(tx)
  BY <1>1 DEF RootEffect, SetMapper, SetOwner, TransferProxyOwnership, Monotone
<1>2. CASE ChildEffect(tx)
  BY <1>2 DEF ChildEffect, SetOwner, TransferProxyOwnership, TransferToken, Monotone
<1>3. CASE OtherEffect(tx, c)
  BY <1>3 DEF OtherEffect, DeployImplementation, UpdateImplementation, MapListed, Monotone
<1> QED
  BY <1>1, <1>2, <1>3 DEF Effect

LEMMA ReachedStays ==
  ASSUME HandoverTypeOK, Monotone, NEW n \in Nat
  PROVE  /\ RootReached(n) => RootReached(n)'
         /\ ChildReached(n) => ChildReached(n)'
<1>1. RootReached(n) => RootReached(n)'
  BY DEF Monotone, RootReached, Chain
<1>2. Len(Listed) \in Nat /\ \A i \in 1..Len(Listed) : Listed[i] \in Token
  BY HandoverAssumption
<1>3. ChildReached(n) => ChildReached(n)'
  BY <1>2 DEF Monotone, ChildReached, Chain
<1> QED
  BY <1>1, <1>3

-----------------------------------------------------------------------------
(* Reached, after a step.                                                  *)

RootReachedNext(step) ==
  /\ step >= 2 => mapper' = Multisig
  /\ step >= 3 => owner'["root"] = Multisig

ChildReachedNext(step) ==
  /\ step >= 2 => owner'["child"] = Multisig
  /\ step >= 3 => proxyOwner'["child"] = Multisig
  /\ \A i \in 1..Len(Listed) : i + 2 < step => tokenOwner'[Listed[i]] # Deployer

LEMMA ReachedNext ==
  ASSUME RootReachedNext(run'["transferRoot"].step),
         ChildReachedNext(run'["transferChild"].step),
         \A i \in 1..Len(mempool'["root"]) :
           mempool'["root"][i].script = "transferRoot" => RootReachedNext(mempool'["root"][i].step),
         \A i \in 1..Len(mempool'["child"]) :
           mempool'["child"][i].script = "transferChild" => ChildReachedNext(mempool'["child"][i].step)
  PROVE  Reached'
  BY DEF Reached, RootReached, ChildReached, RootReachedNext, ChildReachedNext

\* Queued, after a step.
QueuedNext(c, i) ==
  LET tx == mempool'[c][i]
  IN  /\ ChainOf(tx.script) = c
      /\ tx.step <= Len(Steps(tx.script))
      /\ tx.awaited => run'[tx.script].step = tx.step /\ run'[tx.script].sent
      /\ \A j \in 1..Len(mempool'[c]) :
           i # j /\ tx.awaited /\ mempool'[c][j].awaited => mempool'[c][j].script # tx.script

LEMMA QueueNext ==
  ASSUME \A c \in Chain : \A i \in 1..Len(mempool'[c]) : QueuedNext(c, i)
  PROVE  QueueOK'
  BY DEF QueueOK, Queued, QueuedNext

LEMMA ReachedKept ==
  ASSUME HandoverTypeOK, Monotone
  PROVE  \A n \in Nat : /\ RootReached(n) => RootReachedNext(n)
                        /\ ChildReached(n) => ChildReachedNext(n)
<1> SUFFICES ASSUME NEW n \in Nat
             PROVE  /\ RootReached(n) => RootReachedNext(n)
                    /\ ChildReached(n) => ChildReachedNext(n)
  OBVIOUS
<1> QED
  BY ReachedStays DEF RootReached, RootReachedNext, ChildReached, ChildReachedNext

\* A step that leaves the contracts alone, or creates a token, is monotone.
LEMMA QuietIsMonotone ==
  ASSUME HandoverTypeOK, UNCHANGED <<owner, mapper, proxyOwner>>,
         \/ UNCHANGED tokenOwner
         \/ \E t \in Token : tokenOwner' = [tokenOwner EXCEPT ![t] = owner["child"]]
  PROVE  Monotone
  BY HandoverAssumption DEF HandoverTypeOK, Monotone, Chain

\* What a monotone step that moves no authority keeps.
LEMMA OrderAndSuccessKept ==
  ASSUME HandoverTypeOK, HandedOverInOrder, SuccessIsComplete, Monotone,
         UNCHANGED <<owner, proxyOwner>>, succeeded' = succeeded
  PROVE  HandedOverInOrder' /\ SuccessIsComplete'
<1>1. HandedOverInOrder'
  BY DEF HandedOverInOrder, Monotone
<1>2. DOMAIN Listed = 1..Len(Listed) /\ \A i \in DOMAIN Listed : Listed[i] \in Token
  BY HandoverAssumption
<1>3. SuccessIsComplete'
  BY <1>2 DEF SuccessIsComplete, Monotone
<1> QED
  BY <1>1, <1>3

-----------------------------------------------------------------------------
(* The steps.                                                              *)

LEMMA TxTyped ==
  ASSUME HandoverTypeOK
  PROVE  \A c \in Chain :
           /\ mempool[c] \in Seq(Tx) /\ Len(mempool[c]) \in Nat
           /\ \A i \in 1..Len(mempool[c]) :
                /\ mempool[c][i] \in Tx
                /\ mempool[c][i].script \in Script
                /\ mempool[c][i].step \in Nat /\ mempool[c][i].step > 0
<1> SUFFICES ASSUME NEW c \in Chain
             PROVE  /\ mempool[c] \in Seq(Tx) /\ Len(mempool[c]) \in Nat
                    /\ \A i \in 1..Len(mempool[c]) :
                         /\ mempool[c][i] \in Tx
                         /\ mempool[c][i].script \in Script
                         /\ mempool[c][i].step \in Nat /\ mempool[c][i].step > 0
  OBVIOUS
<1>1. mempool[c] \in Seq(Tx)
  BY DEF HandoverTypeOK
<1> HIDE DEF Tx
<1>2. Len(mempool[c]) \in Nat /\ \A i \in 1..Len(mempool[c]) : mempool[c][i] \in Tx
  BY <1>1
<1>3. \A tx \in Tx : tx.script \in Script /\ tx.step \in Nat /\ tx.step > 0
  BY DEF Tx
<1> QED
  BY <1>1, <1>2, <1>3

THEOREM StartKeeps == ASSUME HandoverInv, NEW s \in Script, Start(s) PROVE HandoverInv'
<1> USE DEF HandoverInv
<1>1. /\ UNCHANGED <<contracts, mempool, succeeded>>
      /\ run[s].step = 0
      /\ \E t \in Token : run' = [run EXCEPT ![s] = [Idle EXCEPT !.step = 1, !.token = t]]
  <2>1. CASE s = "mapToken"
    BY <2>1 DEF Start
  <2>2. CASE s # "mapToken"
    <3>1. Idle = [Idle EXCEPT !.token = Idle.token] /\ Idle.token \in Token
      BY IdleRun DEF Run
    <3>2. [Idle EXCEPT !.step = 1] = [Idle EXCEPT !.step = 1, !.token = Idle.token]
      BY <3>1, IdleRun DEF Run
    <3> QED
      BY <2>2, <3>1, <3>2 DEF Start
  <2> QED
    BY <2>1, <2>2
<1>2. PICK t \in Token : run' = [run EXCEPT ![s] = [Idle EXCEPT !.step = 1, !.token = t]]
  BY <1>1
<1>3. /\ run' \in [Script -> Run] /\ run'[s].step = 1
      /\ \A u \in Script \ {s} : run'[u] = run[u]
  BY <1>2, IdleRun DEF Run, HandoverTypeOK
<1>4. HandoverTypeOK'
  <2>1. 1 <= Len(Steps(s))
    BY StepsKnown, HandoverAssumption DEF StepsAreKnown, Script
  <2> QED
    BY <1>1, <1>3, <2>1 DEF HandoverTypeOK, contracts
<1>5. QueueOK'
  <2>1. \A c \in Chain : \A i \in 1..Len(mempool[c]) :
          mempool[c][i].awaited => mempool[c][i].script # s /\ mempool[c][i].script \in Script
    BY <1>1, TxTyped DEF QueueOK, Queued
  <2> QED
    BY <1>1, <1>3, <2>1 DEF QueueOK, Queued
<1>6. Monotone
  BY <1>1, QuietIsMonotone DEF contracts
<1>7. Reached'
  <2>1. \A n \in Nat : /\ RootReached(n) => RootReachedNext(n)
                       /\ ChildReached(n) => ChildReachedNext(n)
    BY <1>6, ReachedKept
  <2>2. RootReachedNext(1) /\ ChildReachedNext(1)
    BY HandoverAssumption DEF RootReachedNext, ChildReachedNext
  <2>3. /\ RootReachedNext(run'["transferRoot"].step)
        /\ ChildReachedNext(run'["transferChild"].step)
    BY <1>3, <2>1, <2>2 DEF Reached, Script, HandoverTypeOK, Run
  <2>4. \A c \in Chain : \A i \in 1..Len(mempool[c]) : mempool[c][i].step \in Nat
    BY TxTyped
  <2> QED
    BY <1>1, <2>1, <2>3, <2>4, ReachedNext DEF Reached, Chain
<1>8. HandedOverInOrder' /\ SuccessIsComplete'
  BY <1>1, <1>6, OrderAndSuccessKept DEF contracts
<1> QED
  BY <1>4, <1>5, <1>7, <1>8

THEOREM ThrowKeeps == ASSUME HandoverInv, NEW s \in Script, Throw(s) PROVE HandoverInv'
<1> USE DEF HandoverInv
<1>1. /\ UNCHANGED <<contracts, mempool, succeeded>>
      /\ ~run[s].sent
      /\ run' \in [Script -> Run] /\ run'[s].step = 0
      /\ \A u \in Script \ {s} : run'[u] = run[u]
  BY IdleRun DEF Throw, HandoverTypeOK
<1>2. HandoverTypeOK'
  <2>1. 0 <= Len(Steps(s))
    BY StepsKnown DEF StepsAreKnown
  <2> QED
    BY <1>1, <2>1 DEF HandoverTypeOK, contracts
<1>3. QueueOK'
  <2>1. \A c \in Chain : \A i \in 1..Len(mempool[c]) :
          mempool[c][i].awaited => mempool[c][i].script # s /\ mempool[c][i].script \in Script
    BY <1>1, TxTyped DEF QueueOK, Queued
  <2> QED
    BY <1>1, <2>1 DEF QueueOK, Queued
<1>4. Monotone
  BY <1>1, QuietIsMonotone DEF contracts
<1>5. Reached'
  <2>1. \A n \in Nat : /\ RootReached(n) => RootReachedNext(n)
                       /\ ChildReached(n) => ChildReachedNext(n)
    BY <1>4, ReachedKept
  <2>2. RootReachedNext(0) /\ ChildReachedNext(0)
    BY HandoverAssumption DEF RootReachedNext, ChildReachedNext
  <2>3. /\ RootReachedNext(run'["transferRoot"].step)
        /\ ChildReachedNext(run'["transferChild"].step)
    BY <1>1, <2>1, <2>2 DEF Reached, Script, HandoverTypeOK, Run
  <2>4. \A c \in Chain : \A i \in 1..Len(mempool[c]) : mempool[c][i].step \in Nat
    BY TxTyped
  <2> QED
    BY <1>1, <2>1, <2>3, <2>4, ReachedNext DEF Reached, Chain
<1>6. HandedOverInOrder' /\ SuccessIsComplete'
  BY <1>1, <1>4, OrderAndSuccessKept DEF contracts
<1> QED
  BY <1>2, <1>3, <1>5, <1>6

THEOREM CreateTokenKeeps == ASSUME HandoverInv, NEW t \in Token, NewChildToken(t) PROVE HandoverInv'
<1> USE DEF HandoverInv
<1>1. /\ UNCHANGED <<owner, mapper, proxyOwner, implementation, versions, mapped, mempool, run, succeeded>>
      /\ announced' \subseteq mapped
      /\ tokenOwner' = [tokenOwner EXCEPT ![t] = owner["child"]]
  BY DEF NewChildToken, HandoverTypeOK
<1>2. HandoverTypeOK'
  BY <1>1 DEF HandoverTypeOK, Chain
<1>3. QueueOK'
  BY <1>1 DEF QueueOK, Queued
<1>4. Monotone
  BY <1>1, QuietIsMonotone
<1>5. Reached'
  <2>1. \A n \in Nat : /\ RootReached(n) => RootReachedNext(n)
                       /\ ChildReached(n) => ChildReachedNext(n)
    BY <1>4, ReachedKept
  <2>2. /\ RootReachedNext(run'["transferRoot"].step)
        /\ ChildReachedNext(run'["transferChild"].step)
    BY <1>1, <2>1 DEF Reached, Script, HandoverTypeOK, Run
  <2>3. \A c \in Chain : \A i \in 1..Len(mempool[c]) : mempool[c][i].step \in Nat
    BY TxTyped
  <2> QED
    BY <1>1, <2>1, <2>2, <2>3, ReachedNext DEF Reached, Chain
<1>6. HandedOverInOrder' /\ SuccessIsComplete'
  BY <1>1, <1>4, OrderAndSuccessKept
<1> QED
  BY <1>2, <1>3, <1>5, <1>6

THEOREM InterruptKeeps == ASSUME HandoverInv, NEW s \in Script, Interrupt(s) PROVE HandoverInv'
<1> USE DEF HandoverInv
<1> DEFINE Left(tx) == [tx EXCEPT !.awaited = @ /\ tx.script # s]
           left(c) == [i \in DOMAIN mempool[c] |-> Left(mempool[c][i])]
<1>1. /\ UNCHANGED <<contracts, succeeded>>
      /\ run' \in [Script -> Run] /\ run'[s].step = 0
      /\ \A u \in Script \ {s} : run'[u] = run[u]
  BY IdleRun DEF Interrupt, HandoverTypeOK
<1>2. \A tx \in Tx : /\ Left(tx) \in Tx
                     /\ Left(tx).script = tx.script /\ Left(tx).step = tx.step
                     /\ Left(tx).awaited => tx.awaited /\ tx.script # s
  BY DEF Tx
<1> HIDE DEF Left
<1>3. \A c \in Chain :
        /\ mempool'[c] \in Seq(Tx) /\ Len(mempool'[c]) = Len(mempool[c])
        /\ \A i \in 1..Len(mempool[c]) : mempool'[c][i] = Left(mempool[c][i])
  <2> SUFFICES ASSUME NEW c \in Chain
               PROVE  /\ mempool'[c] \in Seq(Tx) /\ Len(mempool'[c]) = Len(mempool[c])
                      /\ \A i \in 1..Len(mempool[c]) : mempool'[c][i] = Left(mempool[c][i])
    OBVIOUS
  <2>1. mempool' = [d \in Chain |-> left(d)]
    BY DEF Interrupt, Left
  <2>2. mempool'[c] = left(c)
    BY <2>1
  <2>3. DOMAIN mempool[c] = 1..Len(mempool[c]) /\ Len(mempool[c]) \in Nat
    BY TxTyped, LenProperties
  <2>4. left(c) \in [1..Len(mempool[c]) -> Tx]
    BY <1>2, <2>3, TxTyped
  <2>5. left(c) \in Seq(Tx)
    BY <2>3, <2>4, SeqDef
  <2>6. Len(left(c)) = Len(mempool[c])
    BY <2>3, <2>4, <2>5, LenProperties
  <2> QED
    BY <2>2, <2>3, <2>5, <2>6
<1>4. HandoverTypeOK'
  <2>1. mempool' \in [Chain -> Seq(Tx)]
    <3>1. mempool' = [d \in Chain |-> left(d)]
      BY DEF Interrupt, Left
    <3> HIDE DEF left
    <3> QED
      BY <1>3, <3>1
  <2>2. 0 <= Len(Steps(s))
    BY StepsKnown DEF StepsAreKnown
  <2> QED
    BY <1>1, <2>1, <2>2 DEF HandoverTypeOK, contracts
<1>5. QueueOK'
  <2> SUFFICES ASSUME NEW c \in Chain, NEW i \in 1..Len(mempool[c])
               PROVE  /\ ChainOf(mempool'[c][i].script) = c
                      /\ mempool'[c][i].step <= Len(Steps(mempool'[c][i].script))
                      /\ mempool'[c][i].awaited =>
                           /\ run'[mempool'[c][i].script].step = mempool'[c][i].step
                           /\ run'[mempool'[c][i].script].sent
                      /\ \A j \in 1..Len(mempool[c]) :
                           i # j /\ mempool'[c][i].awaited /\ mempool'[c][j].awaited
                             => mempool'[c][j].script # mempool'[c][i].script
    BY <1>3 DEF QueueOK, Queued
  <2>1. Queued(c, i)
    BY DEF QueueOK
  <2>2. \A j \in 1..Len(mempool[c]) :
          /\ mempool'[c][j].script = mempool[c][j].script /\ mempool'[c][j].step = mempool[c][j].step
          /\ mempool'[c][j].awaited => mempool[c][j].awaited /\ mempool[c][j].script # s
          /\ mempool[c][j].script \in Script
    BY <1>2, <1>3, TxTyped
  <2> QED
    BY <1>1, <2>1, <2>2 DEF Queued
<1>6. Monotone
  BY <1>1, QuietIsMonotone DEF contracts
<1>7. Reached'
  <2>1. \A n \in Nat : /\ RootReached(n) => RootReachedNext(n)
                       /\ ChildReached(n) => ChildReachedNext(n)
    BY <1>6, ReachedKept
  <2>2. RootReachedNext(0) /\ ChildReachedNext(0)
    BY HandoverAssumption DEF RootReachedNext, ChildReachedNext
  <2>3. /\ RootReachedNext(run'["transferRoot"].step)
        /\ ChildReachedNext(run'["transferChild"].step)
    BY <1>1, <2>1, <2>2 DEF Reached, Script, HandoverTypeOK, Run
  <2>4. \A c \in Chain : \A i \in 1..Len(mempool[c]) :
          /\ mempool[c][i].step \in Nat
          /\ mempool'[c][i].script = mempool[c][i].script /\ mempool'[c][i].step = mempool[c][i].step
    BY <1>2, <1>3, TxTyped
  <2> QED
    BY <1>3, <2>1, <2>3, <2>4, ReachedNext DEF Reached, Chain
<1>8. HandedOverInOrder' /\ SuccessIsComplete'
  BY <1>1, <1>6, OrderAndSuccessKept DEF contracts
<1> QED
  BY <1>4, <1>5, <1>7, <1>8

THEOREM SendKeeps == ASSUME HandoverInv, NEW s \in Script, Send(s) PROVE HandoverInv'
<1> USE DEF HandoverInv
<1> DEFINE c == ChainOf(s)
           q == mempool[c]
           tx == TxOf(s)
<1>1. /\ UNCHANGED <<contracts, succeeded>>
      /\ run[s].step > 0 /\ ~run[s].sent
      /\ c \in Chain
      /\ mempool' = [mempool EXCEPT ![c] = Append(q, tx)]
  BY DEF Send, Enqueued, ChainOf, Chain
<1>2. /\ run' \in [Script -> Run]
      /\ run'[s].step = run[s].step /\ run'[s].sent
      /\ \A u \in Script \ {s} : run'[u] = run[u]
  BY DEF Send, HandoverTypeOK, Run
<1>3. tx \in Tx /\ tx.script = s /\ tx.step = run[s].step
  BY <1>1 DEF TxOf, Tx, HandoverTypeOK, Run
<1> HIDE DEF tx, c
<1>4. /\ q \in Seq(Tx) /\ Len(q) \in Nat /\ Append(q, tx) \in Seq(Tx)
      /\ mempool'[c] = Append(q, tx) /\ Len(mempool'[c]) = Len(q) + 1
      /\ \A i \in 1..Len(q) : mempool'[c][i] = q[i]
      /\ mempool'[c][Len(q) + 1] = tx
      /\ \A d \in Chain \ {c} : mempool'[d] = mempool[d]
  <2>1. q \in Seq(Tx) /\ Len(q) \in Nat
    BY <1>1, TxTyped
  <2>2. mempool'[c] = Append(q, tx) /\ \A d \in Chain \ {c} : mempool'[d] = mempool[d]
    BY <1>1 DEF HandoverTypeOK
  <2> QED
    BY <1>3, <2>1, <2>2, Appended
<1> HIDE DEF q
<1>5. HandoverTypeOK'
  <2>1. mempool' \in [Chain -> Seq(Tx)]
    BY <1>1, <1>4 DEF HandoverTypeOK
  <2>2. \A u \in Script : run'[u].step <= Len(Steps(u))
    BY <1>2 DEF HandoverTypeOK
  <2> QED
    BY <1>1, <1>2, <2>1, <2>2 DEF HandoverTypeOK, contracts
<1>6. QueueOK'
  <2>1. \A d \in Chain : \A i \in 1..Len(mempool[d]) :
          /\ mempool[d][i].awaited => mempool[d][i].script # s
          /\ mempool[d][i].script \in Script
    BY <1>1, TxTyped DEF QueueOK, Queued
  <2>2. ASSUME NEW d \in Chain \ {c}, NEW i \in 1..Len(mempool'[d])
        PROVE  QueuedNext(d, i)
    <3>1. mempool'[d] = mempool[d] /\ i \in 1..Len(mempool[d])
      BY <1>4
    <3>2. Queued(d, i)
      BY <3>1 DEF QueueOK
    <3>3. mempool[d][i].awaited => run'[mempool[d][i].script] = run[mempool[d][i].script]
      BY <1>2, <2>1, <3>1
    <3> QED
      BY <3>1, <3>2, <3>3 DEF Queued, QueuedNext
  <2>3. ASSUME NEW i \in 1..Len(q)
        PROVE  QueuedNext(c, i)
    <3>1. Queued(c, i) /\ q = mempool[c]
      BY <1>1 DEF QueueOK, q
    <3>2. /\ ChainOf(q[i].script) = c /\ q[i].step <= Len(Steps(q[i].script))
          /\ q[i].awaited => run'[q[i].script].step = q[i].step /\ run'[q[i].script].sent
      BY <1>1, <1>2, <2>1, <3>1 DEF Queued
    <3>3. \A j \in 1..Len(q) : i # j /\ q[i].awaited /\ q[j].awaited => q[j].script # q[i].script
      BY <3>1 DEF Queued
    <3>4. q[i].awaited => q[i].script # tx.script
      BY <1>1, <1>3, <2>1, <3>1
    <3>5. \A j \in 1..(Len(q) + 1) :
            i # j /\ q[i].awaited /\ mempool'[c][j].awaited => mempool'[c][j].script # q[i].script
      BY <1>4, <3>3, <3>4
    <3> QED
      BY <1>4, <3>2, <3>5 DEF QueuedNext
  <2>4. QueuedNext(c, Len(q) + 1)
    <3>1. ChainOf(tx.script) = c /\ tx.step <= Len(Steps(tx.script))
      BY <1>3 DEF c, HandoverTypeOK
    <3>2. run'[tx.script].step = tx.step /\ run'[tx.script].sent
      BY <1>2, <1>3
    <3>3. \A j \in 1..Len(q) : q[j].awaited => q[j].script # tx.script
      BY <1>1, <1>3, <2>1 DEF q
    <3>4. \A j \in 1..(Len(q) + 1) :
            Len(q) + 1 # j /\ tx.awaited /\ mempool'[c][j].awaited => mempool'[c][j].script # tx.script
      BY <1>4, <3>3
    <3> QED
      BY <1>4, <3>1, <3>2, <3>4 DEF QueuedNext
  <2> QED
    BY <1>4, <2>2, <2>3, <2>4, QueueNext
<1>7. Monotone
  BY <1>1, QuietIsMonotone DEF contracts
<1>8. Reached'
  <2>1. \A n \in Nat : /\ RootReached(n) => RootReachedNext(n)
                       /\ ChildReached(n) => ChildReachedNext(n)
    BY <1>7, ReachedKept
  <2>2. /\ run["transferRoot"].step \in Nat /\ run["transferChild"].step \in Nat
        /\ run'["transferRoot"].step = run["transferRoot"].step
        /\ run'["transferChild"].step = run["transferChild"].step
    BY <1>2 DEF Script, HandoverTypeOK, Run
  <2>3. /\ RootReachedNext(run'["transferRoot"].step)
        /\ ChildReachedNext(run'["transferChild"].step)
    BY <2>1, <2>2 DEF Reached
  <2>4. \A d \in Chain : \A i \in 1..Len(mempool[d]) : mempool[d][i].step \in Nat
    BY TxTyped
  <2>5. \A i \in 1..Len(mempool'["root"]) :
          mempool'["root"][i].script = "transferRoot" => RootReachedNext(mempool'["root"][i].step)
    <3>1. \A i \in 1..Len(mempool["root"]) :
            mempool["root"][i].script = "transferRoot" => RootReachedNext(mempool["root"][i].step)
      BY <2>1, <2>4 DEF Reached, Chain
    <3>2. tx.script = "transferRoot" => RootReachedNext(tx.step)
      BY <1>3, <2>2, <2>3
    <3> QED
      BY <1>1, <1>4, <3>1, <3>2 DEF Chain, q
  <2>6. \A i \in 1..Len(mempool'["child"]) :
          mempool'["child"][i].script = "transferChild" => ChildReachedNext(mempool'["child"][i].step)
    <3>1. \A i \in 1..Len(mempool["child"]) :
            mempool["child"][i].script = "transferChild" => ChildReachedNext(mempool["child"][i].step)
      BY <2>1, <2>4 DEF Reached, Chain
    <3>2. tx.script = "transferChild" => ChildReachedNext(tx.step)
      BY <1>3, <2>2, <2>3
    <3> QED
      BY <1>1, <1>4, <3>1, <3>2 DEF Chain, q
  <2> QED
    BY <2>3, <2>5, <2>6, ReachedNext
<1>9. HandedOverInOrder' /\ SuccessIsComplete'
  BY <1>1, <1>7, OrderAndSuccessKept DEF contracts
<1> QED
  BY <1>5, <1>6, <1>8, <1>9

-----------------------------------------------------------------------------
(* A transaction leaves the queue.                                         *)

\* What is left of a queue whose head is taken, with the runs of the next state.
LEMMA QueueTail ==
  ASSUME HandoverInv, NEW c \in Chain, mempool[c] # << >>,
         mempool' = [mempool EXCEPT ![c] = Tail(mempool[c])],
         run' \in [Script -> Run],
         \A u \in Script : run'[u] # run[u] => Head(mempool[c]).awaited /\ u = Head(mempool[c]).script
  PROVE  /\ mempool' \in [Chain -> Seq(Tx)]
         /\ QueueOK'
         /\ \A d \in Chain : \A i \in 1..Len(mempool'[d]) :
              \E j \in 1..Len(mempool[d]) : mempool'[d][i] = mempool[d][j]
<1> USE DEF HandoverInv
<1> DEFINE q == mempool[c]
<1>1. /\ Head(q) = q[1] /\ Len(q) \in Nat /\ Len(q) >= 1
      /\ Tail(q) \in Seq(Tx) /\ Len(Tail(q)) = Len(q) - 1
      /\ \A i \in 1..(Len(q) - 1) : Tail(q)[i] = q[i + 1]
  BY Tailed, TxTyped
<1>2. mempool'[c] = Tail(q) /\ \A d \in Chain \ {c} : mempool'[d] = mempool[d]
  BY DEF HandoverTypeOK
<1>3. mempool' \in [Chain -> Seq(Tx)]
  BY <1>1, <1>2 DEF HandoverTypeOK
<1>4. \A d \in Chain \ {c} : \A i \in 1..Len(mempool[d]) :
        mempool[d][i].script # Head(q).script /\ mempool[d][i].script \in Script
  <2>1. Head(q) = q[1] /\ 1 \in 1..Len(q)
    BY <1>1
  <2>2. ChainOf(Head(q).script) = c
    BY <2>1 DEF QueueOK, Queued
  <2> QED
    BY <2>2, TxTyped DEF QueueOK, Queued
<1>5. \A i \in 1..(Len(q) - 1) :
        /\ q[i + 1].script \in Script
        /\ Head(q).awaited /\ q[i + 1].awaited => q[i + 1].script # Head(q).script
        /\ i + 1 \in 1..Len(q)
  <2>1. 1 \in 1..Len(q) /\ \A i \in 1..(Len(q) - 1) : i + 1 \in 1..Len(q) /\ i + 1 # 1
    BY <1>1
  <2> QED
    BY <1>1, <2>1, TxTyped DEF QueueOK, Queued
<1>6. ASSUME NEW d \in Chain \ {c}, NEW i \in 1..Len(mempool'[d])
      PROVE  QueuedNext(d, i)
  <2>1. mempool'[d] = mempool[d] /\ i \in 1..Len(mempool[d])
    BY <1>2
  <2>2. Queued(d, i)
    BY <2>1 DEF QueueOK
  <2>3. run'[mempool[d][i].script] = run[mempool[d][i].script]
    BY <1>4, <2>1
  <2> QED
    BY <2>1, <2>2, <2>3 DEF Queued, QueuedNext
<1>7. ASSUME NEW i \in 1..(Len(q) - 1)
      PROVE  QueuedNext(c, i)
  <2>1. Queued(c, i + 1)
    BY <1>5 DEF QueueOK
  <2> DEFINE tx == q[i + 1]
  <2>2. ChainOf(tx.script) = c /\ tx.step <= Len(Steps(tx.script))
    BY <2>1 DEF Queued
  <2>3. tx.awaited => run'[tx.script].step = tx.step /\ run'[tx.script].sent
    BY <1>5, <2>1 DEF Queued
  <2>4. \A j \in 1..(Len(q) - 1) : i # j /\ tx.awaited /\ q[j + 1].awaited => q[j + 1].script # tx.script
    <3>1. \A j \in 1..(Len(q) - 1) : i # j => j + 1 \in 1..Len(q) /\ i + 1 # j + 1
      BY <1>1
    <3> QED
      BY <2>1, <3>1 DEF Queued
  <2>5. /\ mempool'[c][i] = tx /\ Len(mempool'[c]) = Len(q) - 1
        /\ \A j \in 1..(Len(q) - 1) : mempool'[c][j] = q[j + 1]
    BY <1>1, <1>2
  <2> HIDE DEF tx, q
  <2>6. \A j \in 1..Len(mempool'[c]) :
          i # j /\ tx.awaited /\ mempool'[c][j].awaited => mempool'[c][j].script # tx.script
    BY <2>4, <2>5
  <2> QED
    BY <2>2, <2>3, <2>5, <2>6 DEF QueuedNext
<1>8. QueueOK'
  BY <1>1, <1>2, <1>6, <1>7, QueueNext
<1>9. \A d \in Chain : \A i \in 1..Len(mempool'[d]) :
        \E j \in 1..Len(mempool[d]) : mempool'[d][i] = mempool[d][j]
  BY <1>1, <1>2, <1>5
<1> QED
  BY <1>3, <1>8, <1>9

LEMMA ReachedTail ==
  ASSUME HandoverInv, Monotone,
         RootReachedNext(run'["transferRoot"].step),
         ChildReachedNext(run'["transferChild"].step),
         \A d \in Chain : \A i \in 1..Len(mempool'[d]) :
           \E j \in 1..Len(mempool[d]) : mempool'[d][i] = mempool[d][j]
  PROVE  Reached'
<1>1. \A n \in Nat : /\ RootReached(n) => RootReachedNext(n)
                     /\ ChildReached(n) => ChildReachedNext(n)
  BY ReachedKept DEF HandoverInv
<1>2. \A d \in Chain : \A i \in 1..Len(mempool[d]) : mempool[d][i].step \in Nat
  BY TxTyped DEF HandoverInv
<1>3. \A i \in 1..Len(mempool["root"]) :
        mempool["root"][i].script = "transferRoot" => RootReachedNext(mempool["root"][i].step)
  BY <1>1, <1>2 DEF HandoverInv, Reached, Chain
<1>4. \A i \in 1..Len(mempool["child"]) :
        mempool["child"][i].script = "transferChild" => ChildReachedNext(mempool["child"][i].step)
  BY <1>1, <1>2 DEF HandoverInv, Reached, Chain
<1>5. \A i \in 1..Len(mempool'["root"]) :
        mempool'["root"][i].script = "transferRoot" => RootReachedNext(mempool'["root"][i].step)
  BY <1>3 DEF Chain
<1>6. \A i \in 1..Len(mempool'["child"]) :
        mempool'["child"][i].script = "transferChild" => ChildReachedNext(mempool'["child"][i].step)
  BY <1>4 DEF Chain
<1> QED
  BY <1>5, <1>6, ReachedNext

\* The head of a queue.
LEMMA HeadKnown ==
  ASSUME HandoverInv, NEW c \in Chain, mempool[c] # << >>
  PROVE  LET tx == Head(mempool[c])
         IN  /\ tx \in Tx /\ tx.script \in Script /\ tx.step \in Nat /\ tx.step > 0
             /\ ChainOf(tx.script) = c /\ tx.step <= Len(Steps(tx.script))
             /\ tx.awaited => run[tx.script].step = tx.step
             /\ tx.script = "transferRoot" => RootReached(tx.step)
             /\ tx.script = "transferChild" => ChildReached(tx.step)
<1> USE DEF HandoverInv
<1>1. Head(mempool[c]) = mempool[c][1] /\ 1 \in 1..Len(mempool[c])
  BY Tailed, TxTyped
<1>2. Queued(c, 1)
  BY <1>1 DEF QueueOK
<1>3. /\ mempool[c][1] \in Tx /\ mempool[c][1].script \in Script
      /\ mempool[c][1].step \in Nat /\ mempool[c][1].step > 0
  BY <1>1, TxTyped
<1>4. /\ mempool[c][1].script = "transferRoot" => c = "root"
      /\ mempool[c][1].script = "transferChild" => c = "child"
  BY <1>2 DEF Queued, ChainOf
<1> QED
  BY <1>1, <1>2, <1>3, <1>4 DEF Queued, Reached

THEOREM MineRevertedKeeps == ASSUME HandoverInv, NEW c \in Chain, MineReverted(c) PROVE HandoverInv'
<1> USE DEF HandoverInv
<1> DEFINE tx == Head(mempool[c])
<1>1. /\ UNCHANGED <<contracts, succeeded>>
      /\ mempool[c] # << >>
      /\ mempool' = [mempool EXCEPT ![c] = Tail(mempool[c])]
      /\ run' = IF tx.awaited THEN [run EXCEPT ![tx.script] = Idle] ELSE run
  BY DEF MineReverted
<1>2. tx.script \in Script
  BY <1>1, HeadKnown
<1> HIDE DEF tx
<1>3. /\ run' \in [Script -> Run]
      /\ \A u \in Script : run'[u] # run[u] => tx.awaited /\ u = tx.script
      /\ \A u \in Script : run'[u] = run[u] \/ run'[u].step = 0
  BY <1>1, <1>2, IdleRun DEF HandoverTypeOK
<1>4. /\ mempool' \in [Chain -> Seq(Tx)]
      /\ QueueOK'
      /\ \A d \in Chain : \A i \in 1..Len(mempool'[d]) :
           \E j \in 1..Len(mempool[d]) : mempool'[d][i] = mempool[d][j]
  BY <1>1, <1>3, QueueTail DEF tx
<1>5. HandoverTypeOK'
  <2>1. \A u \in Script : run'[u].step <= Len(Steps(u))
    <3> SUFFICES ASSUME NEW u \in Script
                 PROVE  run'[u].step <= Len(Steps(u))
      OBVIOUS
    <3>1. Len(Steps(u)) \in Nat
      BY StepsKnown DEF StepsAreKnown
    <3>2. run[u].step <= Len(Steps(u))
      BY DEF HandoverTypeOK
    <3> QED
      BY <1>3, <3>1, <3>2
  <2> QED
    BY <1>1, <1>3, <1>4, <2>1 DEF HandoverTypeOK, contracts
<1>6. Monotone
  BY <1>1, QuietIsMonotone DEF contracts
<1>7. Reached'
  <2>1. \A n \in Nat : /\ RootReached(n) => RootReachedNext(n)
                       /\ ChildReached(n) => ChildReachedNext(n)
    BY <1>6, ReachedKept
  <2>2. RootReachedNext(0) /\ ChildReachedNext(0)
    BY HandoverAssumption DEF RootReachedNext, ChildReachedNext
  <2>3. /\ RootReachedNext(run'["transferRoot"].step)
        /\ ChildReachedNext(run'["transferChild"].step)
    BY <1>3, <2>1, <2>2 DEF Reached, Script, HandoverTypeOK, Run
  <2> QED
    BY <1>4, <1>6, <2>3, ReachedTail
<1>8. HandedOverInOrder' /\ SuccessIsComplete'
  BY <1>1, <1>6, OrderAndSuccessKept DEF contracts
<1> QED
  BY <1>4, <1>5, <1>7, <1>8

\* A handover's transaction takes it to its next step.
LEMMA EffectReaches ==
  ASSUME HandoverTypeOK, NEW tx \in Tx, NEW c \in Chain, Effect(tx, c)
  PROVE  /\ tx.script = "transferRoot" /\ RootReached(tx.step) => RootReachedNext(tx.step + 1)
         /\ tx.script = "transferChild" /\ ChildReached(tx.step) => ChildReachedNext(tx.step + 1)
<1>1. tx.step \in Nat /\ tx.step > 0
  BY DEF Tx
<1>2. Monotone
  BY EffectIsMonotone
<1>3. Len(Listed) \in Nat /\ \A i \in 1..Len(Listed) : Listed[i] \in Token
  BY HandoverAssumption
<1>4. ASSUME tx.script = "transferRoot", RootReached(tx.step)
      PROVE  RootReachedNext(tx.step + 1)
  <2>1. RootEffect(tx)
    BY <1>4 DEF Effect, ChildEffect, OtherEffect
  <2> QED
    BY <1>1, <1>2, <1>4, <2>1
    DEF RootEffect, RootReached, RootReachedNext, SetMapper, SetOwner, Monotone, HandoverTypeOK, Chain
<1>5. ASSUME tx.script = "transferChild", ChildReached(tx.step)
      PROVE  ChildReachedNext(tx.step + 1)
  <2>1. ChildEffect(tx)
    BY <1>5 DEF Effect, RootEffect, OtherEffect
  <2>2. CASE tx.step = 1 /\ SetOwner("child")
    BY <1>1, <1>3, <2>2 DEF ChildReachedNext, SetOwner, HandoverTypeOK, Chain
  <2>3. CASE tx.step = 2 /\ TransferProxyOwnership("child")
    BY <1>2, <1>3, <1>5, <2>3
    DEF ChildReached, ChildReachedNext, TransferProxyOwnership, Monotone, HandoverTypeOK, Chain
  <2>4. CASE tx.step \in 3..(Len(Listed) + 2) /\ TransferToken(Listed[tx.step - 2])
    <3>1. owner["child"] = Multisig /\ proxyOwner["child"] = Multisig
      BY <1>1, <1>5, <2>4 DEF ChildReached
    <3>2. owner'["child"] = Multisig /\ proxyOwner'["child"] = Multisig
      BY <1>2, <3>1 DEF Monotone, Chain
    <3>3. tx.step - 2 \in 1..Len(Listed)
      BY <1>1, <1>3, <2>4
    <3>4. tokenOwner'[Listed[tx.step - 2]] # Deployer
      BY <1>3, <2>4, <3>3, HandoverAssumption DEF TransferToken, HandoverTypeOK
    <3>5. \A i \in 1..Len(Listed) : i + 2 < tx.step => tokenOwner'[Listed[i]] # Deployer
      BY <1>2, <1>3, <1>5, <3>1 DEF ChildReached, Monotone
    <3>6. \A i \in 1..Len(Listed) : i + 2 < tx.step + 1 => i + 2 < tx.step \/ i = tx.step - 2
      BY <1>1, <1>3
    <3> QED
      BY <3>2, <3>4, <3>5, <3>6 DEF ChildReachedNext
  <2> QED
    BY <2>1, <2>2, <2>3, <2>4 DEF ChildEffect
<1> QED
  BY <1>4, <1>5

LEMMA EffectTyped ==
  ASSUME HandoverTypeOK, NEW tx \in Tx, NEW c \in Chain, Effect(tx, c)
  PROVE  /\ owner' \in [Chain -> Account] /\ mapper' \in Account
         /\ proxyOwner' \in [Chain -> Account]
         /\ implementation' \in [Chain -> Nat] /\ versions' \in [Chain -> Nat]
         /\ mapped' \subseteq Token /\ announced' \subseteq mapped'
         /\ tokenOwner' \in [Token -> Account \cup {NoOwner}]
<1> USE DEF HandoverTypeOK, Chain, Account
<1>1. tx.version \in Nat /\ tx.token \in Token
  BY DEF Tx
<1>2. CASE RootEffect(tx)
  BY <1>2 DEF RootEffect, SetMapper, SetOwner, TransferProxyOwnership
<1>3. CASE ChildEffect(tx)
  BY <1>3 DEF ChildEffect, SetOwner, TransferProxyOwnership, TransferToken
<1>4. CASE OtherEffect(tx, c)
  <2>1. CASE DeployImplementation(c)
    BY <2>1 DEF DeployImplementation
  <2>2. CASE UpdateImplementation(c, tx.version)
    BY <1>1, <2>2 DEF UpdateImplementation
  <2>3. CASE MapListed(tx.token)
    BY <1>1, <2>3 DEF MapListed
  <2> QED
    BY <1>4, <2>1, <2>2, <2>3 DEF OtherEffect
<1> QED
  BY <1>2, <1>3, <1>4 DEF Effect

\* The order of the handover, after a transaction that had its turn.
LEMMA EffectInOrder ==
  ASSUME HandoverTypeOK, HandedOverInOrder, NEW tx \in Tx, NEW c \in Chain, Effect(tx, c),
         tx.script = "transferRoot" => RootReached(tx.step),
         tx.script = "transferChild" => ChildReached(tx.step)
  PROVE  HandedOverInOrder'
<1>1. Monotone
  BY EffectIsMonotone
<1> USE HandoverAssumption DEF HandedOverInOrder, HandoverTypeOK, Chain
<1>2. CASE RootEffect(tx)
  BY <1>1, <1>2 DEF RootEffect, RootReached, SetMapper, SetOwner, TransferProxyOwnership, Monotone
<1>3. CASE ChildEffect(tx)
  BY <1>1, <1>3 DEF ChildEffect, ChildReached, SetOwner, TransferProxyOwnership, TransferToken, Monotone
<1>4. CASE OtherEffect(tx, c)
  BY <1>4 DEF OtherEffect, DeployImplementation, UpdateImplementation, MapListed
<1> QED
  BY <1>2, <1>3, <1>4 DEF Effect

\* What is so when a handover's last transaction is mined.
LEMMA LastStepCompletes ==
  ASSUME HandoverTypeOK, NEW tx \in Tx, NEW c \in Chain, Effect(tx, c), IsLastStep(tx),
         RootReached(tx.step) \/ tx.script # "transferRoot",
         ChildReached(tx.step) \/ tx.script # "transferChild"
  PROVE  /\ tx.script = "transferRoot" =>
              mapper' = Multisig /\ owner'["root"] = Multisig /\ proxyOwner'["root"] = Multisig
         /\ tx.script = "transferChild" =>
              /\ owner'["child"] = Multisig /\ proxyOwner'["child"] = Multisig
              /\ \A i \in DOMAIN Listed : tokenOwner'[Listed[i]] # Deployer
<1>1. tx.step = Len(Steps(tx.script)) /\ tx.script \in Script
  BY DEF IsLastStep, Tx
<1>2. Len(Listed) \in Nat /\ DOMAIN Listed = 1..Len(Listed)
  BY HandoverAssumption
<1>3. ASSUME tx.script = "transferRoot"
      PROVE  mapper' = Multisig /\ owner'["root"] = Multisig /\ proxyOwner'["root"] = Multisig
  <2>1. tx.step = 3
    BY <1>1, <1>3, StepsKnown DEF StepsAreKnown
  <2>2. RootReachedNext(4)
    BY <1>3, <2>1, EffectReaches
  <2>3. TransferProxyOwnership("root")
    BY <1>3, <2>1 DEF Effect, RootEffect, ChildEffect, OtherEffect
  <2> QED
    BY <2>2, <2>3 DEF RootReachedNext, TransferProxyOwnership, HandoverTypeOK, Chain
<1>4. ASSUME tx.script = "transferChild"
      PROVE  /\ owner'["child"] = Multisig /\ proxyOwner'["child"] = Multisig
             /\ \A i \in DOMAIN Listed : tokenOwner'[Listed[i]] # Deployer
  <2>1. tx.step = Len(Listed) + 2
    BY <1>1, <1>4, StepsKnown DEF StepsAreKnown
  <2>2. ChildReachedNext(tx.step + 1)
    BY <1>4, EffectReaches
  <2> QED
    BY <1>2, <2>1, <2>2 DEF ChildReachedNext
<1> QED
  BY <1>3, <1>4

THEOREM MineKeeps == ASSUME HandoverInv, NEW c \in Chain, Mine(c) PROVE HandoverInv'
<1> USE DEF HandoverInv
<1> DEFINE tx == Head(mempool[c])
<1>1. /\ mempool[c] # << >>
      /\ Passes(tx) /\ Execute(tx)
      /\ mempool' = [mempool EXCEPT ![c] = Tail(mempool[c])]
      /\ Receipt(tx, c)
  BY DEF Mine
<1>2. /\ tx \in Tx /\ tx.script \in Script /\ tx.step \in Nat
      /\ ChainOf(tx.script) = c /\ tx.step <= Len(Steps(tx.script))
      /\ tx.awaited => run[tx.script].step = tx.step
      /\ tx.script = "transferRoot" => RootReached(tx.step)
      /\ tx.script = "transferChild" => ChildReached(tx.step)
  BY <1>1, HeadKnown
<1>3. \A u \in Script : Len(Steps(u)) \in Nat
  BY StepsKnown DEF StepsAreKnown
<1>4. Effect(tx, c)
  BY <1>1, <1>2, EffectKnown
<1>5. Monotone
  BY <1>2, <1>4, EffectIsMonotone
<1>6. versions'[c] \in Nat
  BY <1>2, <1>4, EffectTyped
<1> HIDE DEF tx
<1>7. /\ run' \in [Script -> Run]
      /\ \A u \in Script : run'[u] # run[u] => tx.awaited /\ u = tx.script
      /\ \A u \in Script : \/ run'[u] = run[u]
                           \/ run'[u].step = 0
                           \/ u = tx.script /\ ~IsLastStep(tx) /\ run'[u].step = tx.step + 1
  <2>1. CASE ~tx.awaited
    BY <1>1, <2>1 DEF Receipt, HandoverTypeOK
  <2>2. CASE tx.awaited /\ IsLastStep(tx)
    <3>1. run' = [run EXCEPT ![tx.script] = Idle]
      BY <1>1, <2>2 DEF Receipt
    <3> QED
      BY <1>2, <2>2, <3>1, IdleRun DEF HandoverTypeOK
  <2>3. CASE tx.awaited /\ ~IsLastStep(tx)
    <3> DEFINE version == IF Method(tx) = "deploy" THEN versions'[c] ELSE 0
               next == NextStep(run[tx.script], version)
    <3>1. run' = [run EXCEPT ![tx.script] = next]
      BY <1>1, <2>3 DEF Receipt
    <3>2. run[tx.script] \in Run /\ run[tx.script].step = tx.step
      BY <1>2, <2>3 DEF HandoverTypeOK
    <3>3. version \in Nat
      BY <1>6
    <3> HIDE DEF version
    <3>4. next \in Run /\ next.step = tx.step + 1
      <4>1. run[tx.script].step + 1 \in Nat
        BY <1>2, <3>2
      <4> QED
        BY <3>2, <3>3, <4>1 DEF Run, NextStep
    <3> HIDE DEF next
    <3> QED
      BY <1>2, <2>3, <3>1, <3>4 DEF HandoverTypeOK
  <2> QED
    BY <2>1, <2>2, <2>3
<1>8. /\ mempool' \in [Chain -> Seq(Tx)]
      /\ QueueOK'
      /\ \A d \in Chain : \A i \in 1..Len(mempool'[d]) :
           \E j \in 1..Len(mempool[d]) : mempool'[d][i] = mempool[d][j]
  BY <1>1, <1>7, QueueTail DEF tx
<1>9. \/ succeeded' = succeeded
      \/ IsLastStep(tx) /\ succeeded' = succeeded \cup ({tx.script} \cap Transfer)
  BY <1>1 DEF Receipt
<1>10. HandoverTypeOK'
  <2>1. \A u \in Script : run'[u].step <= Len(Steps(u))
    <3> SUFFICES ASSUME NEW u \in Script
                 PROVE  run'[u].step <= Len(Steps(u))
      OBVIOUS
    <3>1. run[u].step <= Len(Steps(u)) /\ Len(Steps(u)) \in Nat
      BY <1>3 DEF HandoverTypeOK
    <3>2. u = tx.script /\ ~IsLastStep(tx) => tx.step + 1 <= Len(Steps(u))
      BY <1>2, <3>1 DEF IsLastStep
    <3> QED
      BY <1>7, <3>1, <3>2
  <2>2. succeeded' \subseteq Transfer
    BY <1>9 DEF HandoverTypeOK
  <2>3. /\ owner' \in [Chain -> Account] /\ mapper' \in Account
        /\ proxyOwner' \in [Chain -> Account]
        /\ implementation' \in [Chain -> Nat] /\ versions' \in [Chain -> Nat]
        /\ mapped' \subseteq Token /\ announced' \subseteq mapped'
        /\ tokenOwner' \in [Token -> Account \cup {NoOwner}]
    BY <1>2, <1>4, EffectTyped
  <2> QED
    BY <1>7, <1>8, <2>1, <2>2, <2>3 DEF HandoverTypeOK
<1>11. Reached'
  <2>1. \A n \in Nat : /\ RootReached(n) => RootReachedNext(n)
                       /\ ChildReached(n) => ChildReachedNext(n)
    BY <1>5, ReachedKept
  <2>2. RootReachedNext(0) /\ ChildReachedNext(0)
    BY HandoverAssumption DEF RootReachedNext, ChildReachedNext
  <2>3. /\ run["transferRoot"].step \in Nat /\ RootReached(run["transferRoot"].step)
        /\ run["transferChild"].step \in Nat /\ ChildReached(run["transferChild"].step)
    BY DEF Reached, Script, HandoverTypeOK, Run
  <2>4. RootReachedNext(run'["transferRoot"].step)
    <3>1. tx.script = "transferRoot" => RootReachedNext(tx.step + 1)
      BY <1>2, <1>4, EffectReaches
    <3> QED
      BY <1>7, <2>1, <2>2, <2>3, <3>1 DEF Script
  <2>5. ChildReachedNext(run'["transferChild"].step)
    <3>1. tx.script = "transferChild" => ChildReachedNext(tx.step + 1)
      BY <1>2, <1>4, EffectReaches
    <3> QED
      BY <1>7, <2>1, <2>2, <2>3, <3>1 DEF Script
  <2> QED
    BY <1>5, <1>8, <2>4, <2>5, ReachedTail
<1>12. HandedOverInOrder'
  BY <1>2, <1>4, EffectInOrder
<1>13. SuccessIsComplete'
  <2>1. ASSUME "transferRoot" \in succeeded'
        PROVE  mapper' = Multisig /\ owner'["root"] = Multisig /\ proxyOwner'["root"] = Multisig
    <3>1. CASE "transferRoot" \in succeeded
      BY <1>5, <3>1 DEF SuccessIsComplete, Monotone, Chain
    <3>2. CASE IsLastStep(tx) /\ tx.script = "transferRoot"
      BY <1>2, <1>4, <3>2, LastStepCompletes
    <3> QED
      BY <1>9, <2>1, <3>1, <3>2
  <2>2. ASSUME "transferChild" \in succeeded'
        PROVE  /\ owner'["child"] = Multisig /\ proxyOwner'["child"] = Multisig
               /\ \A i \in DOMAIN Listed : tokenOwner'[Listed[i]] # Deployer
    <3>1. CASE "transferChild" \in succeeded
      <4>1. DOMAIN Listed = 1..Len(Listed) /\ \A i \in DOMAIN Listed : Listed[i] \in Token
        BY HandoverAssumption
      <4> QED
        BY <1>5, <3>1, <4>1 DEF SuccessIsComplete, Monotone, Chain
    <3>2. CASE IsLastStep(tx) /\ tx.script = "transferChild"
      BY <1>2, <1>4, <3>2, LastStepCompletes
    <3> QED
      BY <1>9, <2>2, <3>1, <3>2
  <2> QED
    BY <2>1, <2>2 DEF SuccessIsComplete
<1> QED
  BY <1>8, <1>10, <1>11, <1>12, <1>13

THEOREM NextKeeps == HandoverInv /\ [HandoverNext]_handoverVars => HandoverInv'
<1> SUFFICES ASSUME HandoverInv, [HandoverNext]_handoverVars PROVE HandoverInv'
  OBVIOUS
<1>1. CASE UNCHANGED handoverVars
  <2>1. HandoverTypeOK' /\ HandedOverInOrder' /\ SuccessIsComplete'
    BY <1>1 DEF handoverVars, contracts, HandoverInv, HandoverTypeOK, HandedOverInOrder, SuccessIsComplete
  <2>2. QueueOK'
    BY <1>1 DEF handoverVars, HandoverInv, QueueOK, Queued
  <2>3. Reached'
    BY <1>1 DEF handoverVars, contracts, HandoverInv, Reached, RootReached, ChildReached
  <2> QED
    BY <2>1, <2>2, <2>3 DEF HandoverInv
<1>2. ASSUME NEW s \in Script, Start(s) \/ Send(s) \/ Throw(s) \/ Interrupt(s)
      PROVE  HandoverInv'
  BY <1>2, StartKeeps, SendKeeps, ThrowKeeps, InterruptKeeps
<1>3. ASSUME NEW c \in Chain, Mine(c) \/ MineReverted(c)
      PROVE  HandoverInv'
  BY <1>3, MineKeeps, MineRevertedKeeps
<1>4. ASSUME NEW t \in Token, NewChildToken(t)
      PROVE  HandoverInv'
  BY <1>4, CreateTokenKeeps
<1> QED
  BY <1>1, <1>2, <1>3, <1>4 DEF HandoverNext

\* The inductive invariant holds in every state the scripts can reach.
THEOREM HandoverSafe == HandoverSpec => []HandoverInv
<1> QED
  BY InitHandoverInv, NextKeeps, PTL DEF HandoverSpec

\* Every state is of its type: a script is at one of its steps, and only its own
\* transactions wait.
THEOREM HandoverTypeSafe == HandoverSpec => []HandoverTypeOK
<1>1. HandoverInv => HandoverTypeOK
  BY DEF HandoverInv
<1> QED
  BY <1>1, HandoverSafe, PTL

\* The authorities of the root chain change hands in one order, whatever is
\* interrupted, run twice at once or run again.
THEOREM HandoverInOrder == HandoverSpec => []HandedOverInOrder
<1>1. HandoverInv => HandedOverInOrder
  BY DEF HandoverInv
<1> QED
  BY <1>1, HandoverSafe, PTL

\* A script that reports success handed over all that it names, for a list of
\* maTokens of any length.
THEOREM HandoverComplete == HandoverSpec => []SuccessIsComplete
<1>1. HandoverInv => SuccessIsComplete
  BY DEF HandoverInv
<1> QED
  BY <1>1, HandoverSafe, PTL

\* A half-done handover stays half-done, whatever is run again.
THEOREM HandoverSplitStays == HandoverSpec => SplitStays
<1>1. HandoverInv /\ [HandoverNext]_handoverVars => [Split => Split']_handoverVars
  <2> SUFFICES ASSUME HandoverInv, [HandoverNext]_handoverVars, Split PROVE Split'
    BY DEF handoverVars
  <2> USE DEF HandoverInv
  <2> DEFINE SplitNext == /\ owner'["root"] = Multisig
                          /\ proxyOwner'["root"] = Deployer
                          /\ run'["transferRoot"].step < 3
                          /\ \A i \in 1..Len(mempool'["root"]) :
                               mempool'["root"][i].script = "transferRoot" => mempool'["root"][i].step < 3
  <2>1. HandoverTypeOK'
    BY NextKeeps
  <2>2. DOMAIN mempool'["root"] = 1..Len(mempool'["root"]) /\ DOMAIN mempool["root"] = 1..Len(mempool["root"])
    BY <2>1, LenProperties DEF HandoverTypeOK, Chain
  <2>3. SUFFICES SplitNext
    BY <2>2 DEF Split
  <2>4. /\ owner["root"] = Multisig /\ proxyOwner["root"] = Deployer
        /\ run["transferRoot"].step \in Nat /\ run["transferRoot"].step < 3
        /\ \A i \in 1..Len(mempool["root"]) :
             mempool["root"][i].script = "transferRoot" => mempool["root"][i].step < 3
    BY <2>2 DEF Split, HandoverTypeOK, Run, Script
  <2>5. CASE UNCHANGED handoverVars
    BY <2>4, <2>5 DEF handoverVars, contracts
  <2>6. ASSUME NEW s \in Script, Start(s) \/ Throw(s)
        PROVE  SplitNext
    <3>1. /\ UNCHANGED <<contracts, mempool>>
          /\ run'["transferRoot"] = run["transferRoot"] \/ run'["transferRoot"].step \in {0, 1}
      <4>1. CASE Start(s)
        <5>1. \A t \in Token : [Idle EXCEPT !.step = 1, !.token = t].step = 1
          BY IdleRun DEF Run
        <5>2. [Idle EXCEPT !.step = 1].step = 1
          BY IdleRun DEF Run
        <5> QED
          BY <4>1, <5>1, <5>2 DEF Start, HandoverTypeOK, Script
      <4>2. CASE Throw(s)
        BY <4>2, IdleRun DEF Throw, HandoverTypeOK, Script
      <4> QED
        BY <2>6, <4>1, <4>2
    <3> QED
      BY <2>4, <3>1 DEF contracts
  <2>7. ASSUME NEW s \in Script, Send(s)
        PROVE  SplitNext
    <3>1. /\ UNCHANGED contracts
          /\ run'["transferRoot"].step = run["transferRoot"].step
          /\ mempool' = [mempool EXCEPT ![ChainOf(s)] = Append(mempool[ChainOf(s)], TxOf(s))]
      BY <2>7 DEF Send, Enqueued, HandoverTypeOK, Script, Run
    <3>2. TxOf(s) \in Tx /\ TxOf(s).script = s /\ TxOf(s).step = run[s].step
      BY <2>7 DEF Send, TxOf, Tx, HandoverTypeOK, Run
    <3>3. CASE ChainOf(s) = "child"
      BY <2>4, <3>1, <3>3 DEF contracts, HandoverTypeOK, Chain
    <3>4. CASE ChainOf(s) = "root"
      <4> DEFINE q == mempool["root"]
      <4>1. q \in Seq(Tx)
        BY TxTyped DEF Chain
      <4>2. mempool'["root"] = Append(q, TxOf(s))
        BY <3>1, <3>4 DEF HandoverTypeOK, Chain
      <4>3. /\ Len(mempool'["root"]) = Len(q) + 1 /\ Len(q) \in Nat
            /\ \A i \in 1..Len(q) : mempool'["root"][i] = q[i]
            /\ mempool'["root"][Len(q) + 1] = TxOf(s)
        BY <3>2, <4>1, <4>2, Appended, TxTyped DEF Chain
      <4>4. \A i \in 1..Len(q) : q[i].script = "transferRoot" => q[i].step < 3
        BY <2>4
      <4>5. TxOf(s).script = "transferRoot" => TxOf(s).step < 3
        BY <2>4, <3>2
      <4>6. \A i \in 1..(Len(q) + 1) :
              mempool'["root"][i].script = "transferRoot" => mempool'["root"][i].step < 3
        <5> HIDE DEF q
        <5> QED
          BY <4>3, <4>4, <4>5
      <4> QED
        BY <2>4, <3>1, <4>3, <4>6 DEF contracts
    <3> QED
      BY <3>3, <3>4 DEF ChainOf
  <2>8. ASSUME NEW s \in Script, Interrupt(s)
        PROVE  SplitNext
    <3>1. /\ UNCHANGED contracts
          /\ run'["transferRoot"].step \in {0, run["transferRoot"].step}
      BY <2>8, IdleRun DEF Interrupt, HandoverTypeOK, Script
    <3>2. mempool'["root"] = [i \in DOMAIN mempool["root"] |->
                                [mempool["root"][i] EXCEPT !.awaited = @ /\ mempool["root"][i].script # s]]
      BY <2>8 DEF Interrupt, Chain
    <3>3. DOMAIN mempool'["root"] = DOMAIN mempool["root"]
      BY <3>2
    <3>4. \A i \in DOMAIN mempool["root"] :
            /\ mempool'["root"][i].script = mempool["root"][i].script
            /\ mempool'["root"][i].step = mempool["root"][i].step
      <4>1. \A i \in DOMAIN mempool["root"] : mempool["root"][i] \in Tx
        BY <2>2, TxTyped DEF Chain
      <4> QED
        BY <3>2, <4>1 DEF Tx
    <3> QED
      BY <2>2, <2>4, <3>1, <3>3, <3>4 DEF contracts
  <2>9. ASSUME NEW c \in Chain, Mine(c) \/ MineReverted(c)
        PROVE  SplitNext
    <3> DEFINE tx == Head(mempool[c])
    <3>1. /\ mempool[c] # << >>
          /\ mempool' = [mempool EXCEPT ![c] = Tail(mempool[c])]
      BY <2>9 DEF Mine, MineReverted
    <3>2. /\ tx \in Tx /\ tx.script \in Script /\ tx.step \in Nat /\ tx.step > 0
          /\ ChainOf(tx.script) = c /\ tx.step <= Len(Steps(tx.script))
          /\ tx.awaited => run[tx.script].step = tx.step
      BY <3>1, HeadKnown
    <3>3. tx.script = "transferRoot" => tx.step < 3
      <4>1. tx.script = "transferRoot" => c = "root"
        BY <3>2 DEF ChainOf
      <4>2. tx = mempool[c][1] /\ 1 \in 1..Len(mempool[c])
        BY <3>1, Tailed, TxTyped
      <4> QED
        BY <2>4, <4>1, <4>2
    <3>4. \A i \in 1..Len(mempool'["root"]) :
            mempool'["root"][i].script = "transferRoot" => mempool'["root"][i].step < 3
      <4>1. CASE c = "child"
        BY <2>4, <3>1, <4>1 DEF HandoverTypeOK, Chain
      <4>2. CASE c = "root"
        <5> DEFINE q == mempool["root"]
        <5>1. /\ mempool'["root"] = Tail(q) /\ Len(q) \in Nat
              /\ Len(Tail(q)) = Len(q) - 1
              /\ \A i \in 1..(Len(q) - 1) : Tail(q)[i] = q[i + 1]
          BY <3>1, <4>2, Tailed, TxTyped DEF HandoverTypeOK, Chain
        <5>2. \A i \in 1..(Len(q) - 1) : i + 1 \in 1..Len(q)
          BY <5>1
        <5> QED
          BY <2>4, <5>1, <5>2
      <4> QED
        BY <4>1, <4>2 DEF Chain
    <3> HIDE DEF tx
    <3>5. CASE Mine(c)
      <4>1. Passes(tx) /\ Execute(tx) /\ Receipt(tx, c)
        BY <3>5 DEF Mine, tx
      <4>2. Effect(tx, c)
        BY <3>2, <4>1, EffectKnown
      <4>3. ~RootEffect(tx)
        BY <2>4, <3>3, HandoverAssumption DEF RootEffect
      <4>4. tx.script # "transferRoot" /\ (ChildEffect(tx) \/ OtherEffect(tx, c))
        BY <4>2, <4>3 DEF Effect, ChildEffect, OtherEffect
      <4>5. owner'["root"] = Multisig /\ proxyOwner'["root"] = Deployer
        <5>1. CASE ChildEffect(tx)
          BY <2>4, <5>1 DEF ChildEffect, SetOwner, TransferProxyOwnership, TransferToken, HandoverTypeOK, Chain
        <5>2. CASE OtherEffect(tx, c)
          BY <2>4, <5>2 DEF OtherEffect, DeployImplementation, UpdateImplementation, MapListed
        <5> QED
          BY <4>4, <5>1, <5>2
      <4>6. run'["transferRoot"] = run["transferRoot"]
        BY <4>1, <4>4 DEF Receipt, HandoverTypeOK, Script
      <4> QED
        BY <2>4, <3>4, <4>5, <4>6
    <3>6. CASE MineReverted(c)
      <4>1. UNCHANGED contracts /\ run'["transferRoot"].step \in {0, run["transferRoot"].step}
        BY <3>2, <3>6, IdleRun DEF MineReverted, HandoverTypeOK, Script, tx
      <4> QED
        BY <2>4, <3>4, <4>1 DEF contracts
    <3> QED
      BY <2>9, <3>5, <3>6
  <2>10. ASSUME NEW t \in Token, NewChildToken(t)
         PROVE  SplitNext
    BY <2>4, <2>10 DEF NewChildToken
  <2> QED
    BY <2>5, <2>6, <2>7, <2>8, <2>9, <2>10 DEF HandoverNext
<1> QED
  BY <1>1, HandoverSafe, PTL DEF HandoverSpec, SplitStays

-----------------------------------------------------------------------------
(* Upgrades.                                                               *)

Upgrade == {"upgradeRoot", "upgradeChild"}

IsUpdate(s, tx) == tx.script = s /\ tx.step = 2

\* The versions that the updates of a queue q will set rise, from the one that is
\* set, impl, to the one that the script's run r will set, of n that exist.
Rising(s, impl, n, r, q) ==
  /\ impl <= n
  /\ r.step = 2 => impl <= r.version /\ r.version <= n
  /\ \A i \in 1..Len(q) : IsUpdate(s, q[i]) =>
       /\ impl <= q[i].version /\ q[i].version <= n
       /\ r.step = 2 => q[i].version <= r.version
       /\ \A j \in 1..Len(q) : i < j /\ IsUpdate(s, q[j]) => q[i].version <= q[j].version

RisingOf(s) ==
  LET c == ChainOf(s) IN Rising(s, implementation[c], versions[c], run[s], mempool[c])

RisingOfNext(s) ==
  LET c == ChainOf(s) IN Rising(s, implementation'[c], versions'[c], run'[s], mempool'[c])

UpgradeInv == HandoverInv /\ \A s \in Upgrade : RisingOf(s)

LEMMA RisingNext ==
  ASSUME \A s \in Upgrade : RisingOfNext(s)
  PROVE  (\A s \in Upgrade : RisingOf(s))'
  BY DEF RisingOf, RisingOfNext

\* A run that is not about to update, or is not past where it was, changes nothing.
LEMMA RisingRun ==
  ASSUME NEW s, NEW impl, NEW n, NEW r, NEW r2, NEW q,
         Rising(s, impl, n, r, q),
         r2.step = 2 => r.step = 2 /\ r2.version = r.version
  PROVE  Rising(s, impl, n, r2, q)
  BY DEF Rising

\* Nor does a queue of the same steps.
LEMMA RisingSame ==
  ASSUME NEW s, NEW impl, NEW n, NEW r, NEW q, NEW q2,
         Rising(s, impl, n, r, q), Len(q2) = Len(q),
         \A i \in 1..Len(q) : /\ q2[i].script = q[i].script
                              /\ q2[i].step = q[i].step /\ q2[i].version = q[i].version
  PROVE  Rising(s, impl, n, r, q2)
  BY DEF Rising, IsUpdate

LEMMA RisingAppend ==
  ASSUME NEW s, NEW impl \in Nat, NEW n \in Nat, NEW r \in Run, NEW q \in Seq(Tx), NEW tx \in Tx,
         Rising(s, impl, n, r, q),
         IsUpdate(s, tx) => r.step = 2 /\ tx.version = r.version
  PROVE  Rising(s, impl, n, r, Append(q, tx))
<1> DEFINE q2 == Append(q, tx)
<1>1. /\ Len(q) \in Nat /\ Len(q2) = Len(q) + 1
      /\ \A i \in 1..Len(q) : q2[i] = q[i]
      /\ q2[Len(q) + 1] = tx
  BY Appended DEF Tx
<1>2. tx.version \in Nat /\ r.version \in Nat
  BY DEF Tx, Run
<1> HIDE DEF q2
<1>3. ASSUME NEW i \in 1..Len(q2), IsUpdate(s, q2[i])
      PROVE  /\ impl <= q2[i].version /\ q2[i].version <= n
             /\ r.step = 2 => q2[i].version <= r.version
  BY <1>1, <1>2, <1>3 DEF Rising
<1>4. ASSUME NEW i \in 1..Len(q2), NEW j \in 1..Len(q2), IsUpdate(s, q2[i]), IsUpdate(s, q2[j]), i < j
      PROVE  q2[i].version <= q2[j].version
  BY <1>1, <1>2, <1>4 DEF Rising
<1> QED
  BY <1>3, <1>4 DEF Rising, q2

\* What is left of a queue, after its head was an update that was mined or was not one.
LEMMA RisingTail ==
  ASSUME NEW s, NEW impl, NEW n, NEW r, NEW q \in Seq(Tx), q # << >>, NEW impl2,
         Rising(s, impl, n, r, q),
         impl2 = impl \/ (IsUpdate(s, Head(q)) /\ impl2 = Head(q).version)
  PROVE  Rising(s, impl2, n, r, Tail(q))
<1> DEFINE q2 == Tail(q)
<1>1. /\ Head(q) = q[1] /\ Len(q) \in Nat /\ Len(q) >= 1 /\ Len(q2) = Len(q) - 1
      /\ \A i \in 1..(Len(q) - 1) : q2[i] = q[i + 1]
  BY Tailed
<1>2. 1 \in 1..Len(q) /\ \A i \in 1..(Len(q) - 1) : i + 1 \in 1..Len(q) /\ 1 < i + 1
  BY <1>1
<1> HIDE DEF q2
<1>3. /\ impl2 <= n
      /\ r.step = 2 => impl2 <= r.version /\ r.version <= n
  BY <1>1, <1>2 DEF Rising
<1>4. ASSUME NEW i \in 1..Len(q2), IsUpdate(s, q2[i])
      PROVE  /\ impl2 <= q2[i].version /\ q2[i].version <= n
             /\ r.step = 2 => q2[i].version <= r.version
  BY <1>1, <1>2, <1>4 DEF Rising
<1>5. ASSUME NEW i \in 1..Len(q2), NEW j \in 1..Len(q2), IsUpdate(s, q2[i]), IsUpdate(s, q2[j]), i < j
      PROVE  q2[i].version <= q2[j].version
  <2>1. i + 1 \in 1..Len(q) /\ j + 1 \in 1..Len(q) /\ i + 1 < j + 1
    BY <1>1, <1>2, <1>5
  <2>2. q2[i] = q[i + 1] /\ q2[j] = q[j + 1]
    BY <1>1
  <2> QED
    BY <1>5, <2>1, <2>2 DEF Rising
<1> QED
  BY <1>3, <1>4, <1>5 DEF Rising, q2

\* More implementations, and a run that got to know the last one.
LEMMA RisingMore ==
  ASSUME NEW s, NEW impl \in Nat, NEW n \in Nat, NEW n2 \in Nat, NEW r \in Run, NEW r2 \in Run,
         NEW q \in Seq(Tx), Rising(s, impl, n, r, q), n <= n2,
         r2.step = 2 => (r.step = 2 /\ r2.version = r.version) \/ r2.version = n2
  PROVE  Rising(s, impl, n2, r2, q)
<1>1. Len(q) \in Nat /\ \A i \in 1..Len(q) : q[i] \in Tx
  <2> HIDE DEF Tx
  <2> QED
    OBVIOUS
<1>2. \A i \in 1..Len(q) : q[i].version \in Nat
  BY <1>1 DEF Tx
<1>3. r.version \in Nat /\ r2.version \in Nat
  BY DEF Run
<1> QED
  BY <1>2, <1>3 DEF Rising

THEOREM InitUpgradeInv == HandoverInit => UpgradeInv
<1> SUFFICES ASSUME HandoverInit PROVE \A s \in Upgrade : RisingOf(s)
  BY InitHandoverInv DEF UpgradeInv
<1>1. ASSUME NEW s \in Upgrade
      PROVE  RisingOf(s)
  <2>1. s \in Script /\ ChainOf(s) \in Chain
    BY DEF Upgrade, Script, ChainOf, Chain
  <2>2. /\ implementation[ChainOf(s)] = 0 /\ versions[ChainOf(s)] = 0
        /\ run[s].step = 0 /\ mempool[ChainOf(s)] = << >>
    BY <2>1, IdleRun DEF HandoverInit
  <2> QED
    BY <2>2 DEF RisingOf, Rising
<1> QED
  BY <1>1

\* What is typed of an upgrade script and its chain.
LEMMA UpgradeTyped ==
  ASSUME HandoverTypeOK, NEW s \in Upgrade
  PROVE  /\ s \in Script /\ ChainOf(s) \in Chain
         /\ run[s] \in Run /\ mempool[ChainOf(s)] \in Seq(Tx)
         /\ implementation[ChainOf(s)] \in Nat /\ versions[ChainOf(s)] \in Nat
<1>1. s \in Script /\ ChainOf(s) \in Chain
  BY DEF Upgrade, Script, ChainOf, Chain
<1> QED
  BY <1>1 DEF HandoverTypeOK

LEMMA EffectOnVersions ==
  ASSUME HandoverTypeOK, NEW tx \in Tx, NEW c \in Chain, Effect(tx, c)
  PROVE  \A d \in Chain :
           /\ \/ implementation'[d] = implementation[d]
              \/ /\ d = c /\ tx.script \in Upgrade /\ tx.step = 2
                 /\ implementation'[d] = tx.version
           /\ versions'[d] = versions[d] \/ (d = c /\ versions'[d] = versions[d] + 1)
<1>1. CASE RootEffect(tx)
  BY <1>1 DEF RootEffect, SetMapper, SetOwner, TransferProxyOwnership
<1>2. CASE ChildEffect(tx)
  BY <1>2 DEF ChildEffect, SetOwner, TransferProxyOwnership, TransferToken
<1>3. CASE OtherEffect(tx, c)
  BY <1>3 DEF OtherEffect, DeployImplementation, UpdateImplementation, MapListed, Upgrade, HandoverTypeOK
<1> QED
  BY <1>1, <1>2, <1>3 DEF Effect

\* An update that is mined sets a version that is not older, in its turn.
LEMMA UpdateRises ==
  ASSUME UpgradeInv, NEW c \in Chain, Mine(c)
  PROVE  /\ \A d \in Chain : implementation'[d] >= implementation[d]
         /\ \A s \in Upgrade : RisingOfNext(s)
<1> USE DEF UpgradeInv
<1> DEFINE tx == Head(mempool[c])
<1>1. HandoverTypeOK
  BY DEF HandoverInv
<1>2. /\ mempool[c] # << >> /\ Passes(tx) /\ Execute(tx) /\ Receipt(tx, c)
      /\ mempool' = [mempool EXCEPT ![c] = Tail(mempool[c])]
  BY DEF Mine
<1>3. /\ tx \in Tx /\ tx.script \in Script /\ tx.step \in Nat
      /\ ChainOf(tx.script) = c /\ tx.step <= Len(Steps(tx.script))
      /\ tx.awaited => run[tx.script].step = tx.step
  BY <1>2, HeadKnown
<1>4. Effect(tx, c)
  BY <1>2, <1>3, EffectKnown
<1>5. /\ tx = mempool[c][1] /\ 1 \in 1..Len(mempool[c])
      /\ mempool'[c] = Tail(mempool[c]) /\ \A d \in Chain \ {c} : mempool'[d] = mempool[d]
  BY <1>1, <1>2, Tailed, TxTyped DEF HandoverTypeOK
<1> HIDE DEF tx
<1>6. \A s \in Upgrade : tx.script \in Upgrade /\ ChainOf(s) = c => s = tx.script
  BY <1>3 DEF Upgrade, ChainOf
<1>7. HandoverTypeOK'
  BY NextKeeps DEF HandoverInv, HandoverNext
<1>8. ASSUME NEW d \in Chain
      PROVE  implementation'[d] >= implementation[d]
  <2>1. CASE implementation'[d] = implementation[d]
    BY <1>1, <2>1 DEF HandoverTypeOK
  <2>2. CASE d = c /\ tx.script \in Upgrade /\ tx.step = 2 /\ implementation'[d] = tx.version
    <3>1. RisingOf(tx.script)
      BY <2>2
    <3>2. implementation[c] <= tx.version
      BY <1>3, <1>5, <2>2, <3>1 DEF RisingOf, Rising, IsUpdate
    <3>3. tx.version \in Nat /\ implementation[c] \in Nat
      BY <1>1, <1>3 DEF Tx, HandoverTypeOK
    <3> QED
      BY <2>2, <3>2, <3>3
  <2> QED
    BY <1>1, <1>3, <1>4, <2>1, <2>2, EffectOnVersions
<1>9. ASSUME NEW s \in Upgrade, ChainOf(s) # c
      PROVE  RisingOfNext(s)
  <2> DEFINE d == ChainOf(s)
  <2>1. s \in Script /\ d \in Chain
    BY <1>1, UpgradeTyped
  <2>2. run'[s] = run[s]
    BY <1>1, <1>2, <1>3, <1>9, <2>1 DEF Receipt, HandoverTypeOK
  <2>3. implementation'[d] = implementation[d] /\ versions'[d] = versions[d] /\ mempool'[d] = mempool[d]
    BY <1>1, <1>3, <1>4, <1>5, <1>9, <2>1, EffectOnVersions
  <2> QED
    BY <2>2, <2>3 DEF RisingOf, RisingOfNext
<1>10. ASSUME NEW s \in Upgrade, ChainOf(s) = c
       PROVE  RisingOfNext(s)
  <2>1. /\ s \in Script /\ run[s] \in Run /\ mempool[c] \in Seq(Tx)
        /\ implementation[c] \in Nat /\ versions[c] \in Nat
    BY <1>1, <1>10, UpgradeTyped
  <2>2. run'[s] \in Run /\ implementation'[c] \in Nat /\ versions'[c] \in Nat /\ mempool'[c] \in Seq(Tx)
    BY <1>7, <2>1 DEF HandoverTypeOK
  <2>3. /\ \/ implementation'[c] = implementation[c]
           \/ tx.script \in Upgrade /\ tx.step = 2 /\ implementation'[c] = tx.version
        /\ versions'[c] = versions[c] \/ versions'[c] = versions[c] + 1
    BY <1>1, <1>3, <1>4, EffectOnVersions
  <2>4. Rising(s, implementation[c], versions[c], run[s], mempool[c])
    BY <1>10 DEF RisingOf
  <2>5. \/ implementation'[c] = implementation[c]
        \/ IsUpdate(s, Head(mempool[c])) /\ implementation'[c] = Head(mempool[c]).version
    BY <1>6, <1>10, <2>3 DEF IsUpdate, tx
  <2>6. Rising(s, implementation'[c], versions[c], run[s], mempool'[c])
    BY <1>2, <1>5, <2>1, <2>4, <2>5, RisingTail
  <2>7. run'[s].step = 2 => \/ run[s].step = 2 /\ run'[s].version = run[s].version
                            \/ run'[s].version = versions'[c]
    <3>1. CASE ~tx.awaited \/ tx.script # s
      BY <1>1, <1>2, <2>1, <3>1 DEF Receipt, HandoverTypeOK
    <3>2. CASE tx.awaited /\ tx.script = s /\ IsLastStep(tx)
      BY <1>1, <1>2, <2>1, <3>2, IdleRun DEF Receipt, HandoverTypeOK
    <3>3. CASE tx.awaited /\ tx.script = s /\ ~IsLastStep(tx)
      <4>1. tx.step = 1 /\ Method(tx) = "deploy"
        <5>1. Len(Steps(s)) = 2 /\ Steps(s)[1] = "deploy"
          BY <2>1, StepsKnown DEF StepsAreKnown, Upgrade
        <5>2. tx.step > 0
          BY <1>3 DEF Tx
        <5> QED
          BY <1>3, <3>3, <5>1, <5>2 DEF IsLastStep, Method
      <4>2. run'[s] = NextStep(run[s], versions'[c])
        BY <1>1, <1>2, <2>1, <3>3, <4>1 DEF Receipt, HandoverTypeOK
      <4> QED
        BY <2>1, <4>2 DEF NextStep, Run
    <3> QED
      BY <3>1, <3>2, <3>3
  <2>8. versions[c] <= versions'[c]
    BY <2>1, <2>3
  <2>9. Rising(s, implementation'[c], versions'[c], run'[s], mempool'[c])
    BY <2>1, <2>2, <2>6, <2>7, <2>8, RisingMore
  <2> QED
    BY <1>10, <2>9 DEF RisingOfNext
<1> QED
  BY <1>8, <1>9, <1>10

THEOREM NextKeepsUpgrades == UpgradeInv /\ [HandoverNext]_handoverVars => UpgradeInv'
<1> SUFFICES ASSUME UpgradeInv, [HandoverNext]_handoverVars
             PROVE  \A s \in Upgrade : RisingOfNext(s)
  BY NextKeeps, RisingNext DEF UpgradeInv
<1> USE DEF UpgradeInv
<1>1. HandoverTypeOK
  BY DEF HandoverInv
<1>2. CASE UNCHANGED handoverVars
  BY <1>2 DEF handoverVars, contracts, RisingOf, RisingOfNext
<1>3. ASSUME NEW u \in Script, Start(u) \/ Throw(u), NEW s \in Upgrade
      PROVE  RisingOfNext(s)
  <2>1. UNCHANGED <<contracts, mempool>>
    BY <1>3 DEF Start, Throw
  <2>2. run'[s] = run[s] \/ run'[s].step \in {0, 1}
    <3>1. CASE Start(u)
      <4>1. \A t \in Token : [Idle EXCEPT !.step = 1, !.token = t].step = 1
        BY IdleRun DEF Run
      <4>2. [Idle EXCEPT !.step = 1].step = 1
        BY IdleRun DEF Run
      <4> QED
        BY <1>1, <3>1, <4>1, <4>2, UpgradeTyped DEF Start, HandoverTypeOK
    <3>2. CASE Throw(u)
      BY <1>1, <3>2, IdleRun, UpgradeTyped DEF Throw, HandoverTypeOK
    <3> QED
      BY <1>3, <3>1, <3>2
  <2>3. run'[s].step = 2 => run[s].step = 2 /\ run'[s].version = run[s].version
    BY <2>2
  <2> DEFINE c == ChainOf(s)
  <2>4. Rising(s, implementation[c], versions[c], run'[s], mempool[c])
    BY <2>3, RisingRun DEF RisingOf
  <2> QED
    BY <2>1, <2>4 DEF RisingOfNext, contracts
<1>4. ASSUME NEW u \in Script, Send(u), NEW s \in Upgrade
      PROVE  RisingOfNext(s)
  <2> DEFINE c == ChainOf(s)
  <2>1. /\ UNCHANGED contracts
        /\ mempool' = [mempool EXCEPT ![ChainOf(u)] = Append(mempool[ChainOf(u)], TxOf(u))]
        /\ run'[s].step = run[s].step /\ run'[s].version = run[s].version
    BY <1>1, <1>4, UpgradeTyped DEF Send, Enqueued, HandoverTypeOK, Run
  <2>2. /\ TxOf(u) \in Tx /\ TxOf(u).script = u
        /\ TxOf(u).step = run[u].step /\ TxOf(u).version = run[u].version
    BY <1>1, <1>4 DEF Send, TxOf, Tx, HandoverTypeOK, Run
  <2>3. Rising(s, implementation[c], versions[c], run'[s], mempool[c])
    BY <2>1, RisingRun DEF RisingOf
  <2>4. CASE ChainOf(u) # c
    <3>1. mempool'[c] = mempool[c]
      BY <1>1, <2>1, <2>4, UpgradeTyped DEF HandoverTypeOK
    <3> QED
      BY <2>1, <2>3, <3>1 DEF RisingOfNext, contracts
  <2>5. CASE ChainOf(u) = c
    <3>1. mempool'[c] = Append(mempool[c], TxOf(u))
      BY <1>1, <2>1, <2>5, UpgradeTyped DEF HandoverTypeOK
    <3>2. IsUpdate(s, TxOf(u)) => run[s].step = 2 /\ TxOf(u).version = run[s].version
      BY <2>2 DEF IsUpdate
    <3>3. Rising(s, implementation[c], versions[c], run[s], Append(mempool[c], TxOf(u)))
      BY <1>1, <2>2, <3>2, RisingAppend, UpgradeTyped DEF RisingOf
    <3>4. Rising(s, implementation[c], versions[c], run'[s], Append(mempool[c], TxOf(u)))
      BY <2>1, <3>3, RisingRun
    <3> QED
      BY <2>1, <3>1, <3>4 DEF RisingOfNext, contracts
  <2> QED
    BY <2>4, <2>5
<1>5. ASSUME NEW u \in Script, Interrupt(u), NEW s \in Upgrade
      PROVE  RisingOfNext(s)
  <2> DEFINE c == ChainOf(s)
  <2>1. /\ UNCHANGED contracts
        /\ run'[s] = run[s] \/ run'[s].step = 0
        /\ mempool' = [d \in Chain |-> [i \in DOMAIN mempool[d] |->
                         [mempool[d][i] EXCEPT !.awaited = @ /\ mempool[d][i].script # u]]]
    BY <1>1, <1>5, IdleRun, UpgradeTyped DEF Interrupt, HandoverTypeOK
  <2>2. c \in Chain /\ mempool[c] \in Seq(Tx)
    BY <1>1, UpgradeTyped
  <2>3. mempool'[c] = [i \in DOMAIN mempool[c] |->
                         [mempool[c][i] EXCEPT !.awaited = @ /\ mempool[c][i].script # u]]
    BY <2>1, <2>2
  <2>4. DOMAIN mempool[c] = 1..Len(mempool[c]) /\ Len(mempool[c]) \in Nat
    BY <2>2, LenProperties
  <2>5. \A i \in 1..Len(mempool[c]) :
          /\ mempool'[c][i].script = mempool[c][i].script
          /\ mempool'[c][i].step = mempool[c][i].step /\ mempool'[c][i].version = mempool[c][i].version
    <3>1. \A i \in 1..Len(mempool[c]) : mempool[c][i] \in Tx
      BY <1>1, <2>2, TxTyped
    <3> QED
      BY <2>3, <2>4, <3>1 DEF Tx
  <2>6. Len(mempool'[c]) = Len(mempool[c])
    <3>1. mempool' \in [Chain -> Seq(Tx)]
      BY NextKeeps DEF HandoverInv, HandoverTypeOK
    <3>2. DOMAIN mempool'[c] = 1..Len(mempool'[c]) /\ Len(mempool'[c]) \in Nat
      BY <2>2, <3>1, LenProperties
    <3>3. 1..Len(mempool'[c]) = 1..Len(mempool[c])
      BY <2>3, <2>4, <3>2
    <3> QED
      BY <2>4, <3>2, <3>3
  <2>7. Rising(s, implementation[c], versions[c], run[s], mempool'[c])
    BY <2>5, <2>6, RisingSame DEF RisingOf
  <2>8. Rising(s, implementation[c], versions[c], run'[s], mempool'[c])
    BY <2>1, <2>7, RisingRun
  <2> QED
    BY <2>1, <2>8 DEF RisingOfNext, contracts
<1>6. ASSUME NEW c \in Chain, MineReverted(c), NEW s \in Upgrade
      PROVE  RisingOfNext(s)
  <2> DEFINE d == ChainOf(s)
  <2>1. /\ UNCHANGED contracts
        /\ mempool[c] # << >> /\ mempool' = [mempool EXCEPT ![c] = Tail(mempool[c])]
        /\ run'[s] = run[s] \/ run'[s].step = 0
    <3>1. Head(mempool[c]).script \in Script
      BY <1>6, HeadKnown DEF MineReverted
    <3> QED
      BY <1>1, <1>6, <3>1, IdleRun, UpgradeTyped DEF MineReverted, HandoverTypeOK
  <2>2. d \in Chain /\ mempool[d] \in Seq(Tx)
    BY <1>1, UpgradeTyped
  <2>3. Rising(s, implementation[d], versions[d], run[s], mempool'[d])
    <3>1. CASE d = c
      <4>1. mempool'[c] = Tail(mempool[c])
        BY <1>1, <2>1 DEF HandoverTypeOK
      <4> QED
        BY <2>1, <2>2, <3>1, <4>1, RisingTail DEF RisingOf
    <3>2. CASE d # c
      BY <1>1, <2>1, <2>2, <3>2 DEF RisingOf, HandoverTypeOK
    <3> QED
      BY <3>1, <3>2
  <2>4. Rising(s, implementation[d], versions[d], run'[s], mempool'[d])
    BY <2>1, <2>3, RisingRun
  <2> QED
    BY <2>1, <2>4 DEF RisingOfNext, contracts
<1>7. ASSUME NEW t \in Token, NewChildToken(t), NEW s \in Upgrade
      PROVE  RisingOfNext(s)
  BY <1>7 DEF NewChildToken, RisingOf, RisingOfNext
<1> QED
  BY <1>2, <1>3, <1>4, <1>5, <1>6, <1>7, UpdateRises DEF HandoverNext

\* The upgrade scripts, interrupted and run again as one likes, never put an older
\* implementation back: the account's nonces keep the updates in their order.
THEOREM HandoverNeverDowngraded == HandoverSpec => NeverDowngraded
<1>1. UpgradeInv /\ [HandoverNext]_handoverVars => [\A c \in Chain : implementation'[c] >= implementation[c]]_handoverVars
  <2> SUFFICES ASSUME UpgradeInv, [HandoverNext]_handoverVars, NEW d \in Chain
               PROVE  handoverVars' = handoverVars \/ implementation'[d] >= implementation[d]
    OBVIOUS
  <2>1. implementation[d] \in Nat
    BY DEF UpgradeInv, HandoverInv, HandoverTypeOK
  <2>2. ASSUME NEW c \in Chain, Mine(c)
        PROVE  implementation'[d] >= implementation[d]
    BY <2>2, UpdateRises
  <2>3. ASSUME UNCHANGED implementation
        PROVE  implementation'[d] >= implementation[d]
    BY <2>1, <2>3
  <2>4. \/ UNCHANGED implementation
        \/ \E c \in Chain : Mine(c)
        \/ handoverVars' = handoverVars
    BY DEF HandoverNext, Start, Send, Throw, Interrupt, MineReverted, NewChildToken, contracts
  <2> QED
    BY <2>2, <2>3, <2>4
<1>2. HandoverSpec => []UpgradeInv
  BY InitUpgradeInv, NextKeepsUpgrades, PTL DEF HandoverSpec
<1> QED
  BY <1>1, <1>2, PTL DEF HandoverSpec, NeverDowngraded
=============================================================================
