------------------------ MODULE PortalDeploymentProofs ------------------------
(***************************************************************************)
(* Theorems about PortalDeployment, for any number of interruptions and of *)
(* tasks delivered twice, on both runbooks: types, and the owners of the   *)
(* contracts.                                                              *)
(***************************************************************************)
EXTENDS PortalDeployment, SumTheorems

\* The recursion that FlattenSeq is defined by.
IsFlattening(g, seqs) ==
  g = [i \in 1..Len(seqs) |-> IF i = 1 THEN seqs[i] ELSE g[i-1] \o seqs[i]]

\* The recursion has a solution.
LEMMA FlatteningExists ==
  ASSUME NEW S, NEW seqs \in Seq(Seq(S)) PROVE \E g : IsFlattening(g, seqs)
<1> DEFINE n == Len(seqs)
           Body(g, i) == IF i = 1 THEN seqs[i] ELSE g[i-1] \o seqs[i]
           Solves(g, m) == \A i \in 1..m : i <= n => g[i] = Body(g, i)
           Solved == {m \in Nat : \E g : Solves(g, m)}
<1>0. n \in Nat
  OBVIOUS
<1>1. 0 \in Solved
  <2>1. Solves(seqs, 0)
    OBVIOUS
  <2> QED
    BY <2>1
<1>2. ASSUME NEW m \in Nat, m \in Solved PROVE m + 1 \in Solved
  <2>1. PICK g : Solves(g, m)
    BY <1>2
  <2> DEFINE h == [i \in 1..n |-> Body(g, i)]
  <2>2. \A i \in 1..m : i <= n => h[i] = g[i]
    BY <2>1
  <2>3. ASSUME NEW i \in 1..(m + 1), i <= n PROVE h[i] = Body(h, i)
    <3>0. i \in 1..n
      BY <1>0, <2>3
    <3>1. h[i] = Body(g, i)
      BY <3>0
    <3> HIDE DEF h
    <3>2. CASE i = 1
      BY <3>1, <3>2
    <3>3. CASE i # 1
      <4>1. i - 1 \in 1..m /\ i - 1 <= n
        BY <1>0, <2>3, <3>3
      <4>2. h[i-1] = g[i-1]
        BY <2>2, <4>1
      <4> QED
        BY <3>1, <3>3, <4>2
    <3> QED
      BY <3>2, <3>3
  <2> HIDE DEF h
  <2> QED
    BY <2>3
<1>3. Nat \subseteq Solved
  <2> HIDE DEF Solved
  <2> QED
    BY <1>1, <1>2, NatSetInduction
<1>4. PICK g : Solves(g, n)
  BY <1>0, <1>3
<1> DEFINE h == [i \in 1..n |-> Body(g, i)]
<1>5. \A i \in 1..n : h[i] = g[i]
  BY <1>0, <1>4
<1>6. \A i \in 1..n : Body(g, i) = Body(h, i)
  <2> SUFFICES ASSUME NEW i \in 1..n PROVE Body(g, i) = Body(h, i)
    OBVIOUS
  <2>1. CASE i = 1
    BY <2>1
  <2>2. CASE i # 1
    BY <1>5, <2>2, i - 1 \in 1..n
  <2> QED
    BY <2>1, <2>2
<1>7. h = [i \in 1..n |-> Body(h, i)]
  <2>1. h = [i \in 1..n |-> Body(g, i)]
    OBVIOUS
  <2> HIDE DEF h
  <2> QED
    BY <1>6, <2>1
<1> QED
  <2> HIDE DEF h
  <2> QED
    BY <1>7 DEF IsFlattening

\* A list of triples, flattened.
LEMMA FlattenTriples ==
  ASSUME NEW S, NEW seqs \in Seq(Seq(S)), seqs # << >>,
         \A i \in 1..Len(seqs) : Len(seqs[i]) = 3
  PROVE  LET flat == FlattenSeq(seqs)
         IN  /\ flat \in Seq(S) /\ Len(flat) = 3 * Len(seqs)
             /\ \A i \in 1..Len(seqs) : /\ flat[3 * i - 2] = seqs[i][1]
                                        /\ flat[3 * i - 1] = seqs[i][2]
                                        /\ flat[3 * i] = seqs[i][3]
<1> DEFINE g == CHOOSE f : IsFlattening(f, seqs)
<1>1. IsFlattening(g, seqs)
  BY FlatteningExists
<1>2. FlattenSeq(seqs) = g[Len(seqs)]
  BY Len(seqs) # 0 DEF FlattenSeq, IsFlattening
<1> HIDE DEF g
<1> DEFINE Has3(f, j, x) == f[3 * j - 2] = x[1] /\ f[3 * j - 1] = x[2] /\ f[3 * j] = x[3]
           Good(i) == /\ g[i] \in Seq(S) /\ Len(g[i]) = 3 * i
                      /\ \A j \in 1..i : Has3(g[i], j, seqs[j])
           T == {i \in Nat : i \in 1..Len(seqs) => Good(i)}
<1> HIDE DEF Good
<1>3. 0 \in T
  OBVIOUS
<1>4. ASSUME NEW i \in Nat, i \in T PROVE i + 1 \in T
  <2> SUFFICES ASSUME i + 1 \in 1..Len(seqs) PROVE Good(i + 1)
    OBVIOUS
  <2>1. seqs[i + 1] \in Seq(S) /\ Len(seqs[i + 1]) = 3
    OBVIOUS
  <2>2. CASE i = 0
    <3>1. g[i + 1] = seqs[i + 1]
      BY <1>1, <2>2 DEF IsFlattening
    <3>2. \A j \in 1..(i + 1) : j = 1 /\ j = i + 1
      BY <2>2
    <3> QED
      BY <2>1, <2>2, <3>1, <3>2 DEF Good
  <2>3. CASE i # 0
    <3>1. g[i + 1] = g[i] \o seqs[i + 1]
      <4>1. \A k \in 1..Len(seqs) : k # 1 => g[k] = g[k - 1] \o seqs[k]
        BY <1>1 DEF IsFlattening
      <4>2. i + 1 # 1 /\ (i + 1) - 1 = i
        BY <2>3
      <4>3. g[i + 1] = g[(i + 1) - 1] \o seqs[i + 1]
        BY <4>1, <4>2
      <4> QED
        BY <4>2, <4>3
    <3>2. Good(i) /\ i \in 1..Len(seqs)
      BY <1>4, <2>3
    <3> DEFINE a == g[i]  b == seqs[i + 1]  c == g[i + 1]
    <3>3. a \in Seq(S) /\ Len(a) = 3 * i /\ b \in Seq(S) /\ Len(b) = 3 /\ c = a \o b
      BY <2>1, <3>1, <3>2 DEF Good
    <3>4. \A j \in 1..i : Has3(a, j, seqs[j])
      BY <3>2 DEF Good
    <3> HIDE DEF a, b, c
    <3>5. /\ c \in Seq(S) /\ Len(c) = 3 * (i + 1)
          /\ \A k \in 1..(3 * i) : c[k] = a[k]
          /\ \A k \in 1..3 : c[3 * i + k] = b[k]
      <4>1. /\ c \in Seq(S) /\ Len(c) = Len(a) + Len(b)
            /\ \A k \in 1..Len(a) : c[k] = a[k]
            /\ \A k \in 1..Len(b) : c[Len(a) + k] = b[k]
        <5>1. a \in Seq(S) /\ b \in Seq(S) /\ c = a \o b
          BY <3>3
        <5> QED
          BY ONLY <5>1
      <4>2. Len(a) = 3 * i /\ Len(b) = 3 /\ i \in Nat
        BY <3>3
      <4>3. Len(c) = 3 * (i + 1)
        BY <4>1, <4>2
      <4>4. \A k \in 1..(3 * i) : c[k] = a[k]
        BY <4>1, <4>2
      <4>5. \A k \in 1..3 : c[3 * i + k] = b[k]
        BY <4>1, <4>2
      <4> QED
        BY <4>1, <4>3, <4>4, <4>5
    <3>6. ASSUME NEW j \in 1..(i + 1) PROVE Has3(c, j, seqs[j])
      <4>1. CASE j = i + 1
        <5>1. 3 * j - 2 = 3 * i + 1 /\ 3 * j - 1 = 3 * i + 2 /\ 3 * j = 3 * i + 3
          BY <4>1
        <5>2. seqs[j] = b
          BY <4>1 DEF b
        <5> QED
          BY <3>5, <5>1, <5>2
      <4>2. CASE j \in 1..i
        <5>1. 3 * j - 2 \in 1..(3 * i) /\ 3 * j - 1 \in 1..(3 * i) /\ 3 * j \in 1..(3 * i)
          BY <4>2
        <5> QED
          BY <3>4, <3>5, <4>2, <5>1
      <4> QED
        BY <4>1, <4>2
    <3> QED
      BY <3>5, <3>6 DEF c, Good
  <2> QED
    BY <2>2, <2>3
<1>5. Nat \subseteq T
  <2> HIDE DEF T
  <2> QED
    BY <1>3, <1>4, NatSetInduction
<1> QED
  <2>1. Len(seqs) \in Nat /\ Len(seqs) \in 1..Len(seqs)
    OBVIOUS
  <2> QED
    BY <1>2, <1>5, <2>1 DEF Good
\* The five token types, in the order of the scripts' lists.
LEMMA Types ==
  /\ DOMAIN TypeList = 1..5
  /\ TypeList[1] = "ERC20" /\ TypeList[2] = "ERC721" /\ TypeList[3] = "MintableERC721"
  /\ TypeList[4] = "ERC1155" /\ TypeList[5] = "Ether"
  /\ TokenType = {"ERC20", "ERC721", "MintableERC721", "ERC1155", "Ether"}
  /\ \A i \in 1..5 : TypeList[i] \in TokenType
<1>1. /\ DOMAIN TypeList = 1..5
      /\ TypeList[1] = "ERC20" /\ TypeList[2] = "ERC721" /\ TypeList[3] = "MintableERC721"
      /\ TypeList[4] = "ERC1155" /\ TypeList[5] = "Ether"
  BY DEF TypeList
<1>2. TokenType = {TypeList[i] : i \in 1..5}
  BY <1>1 DEF TokenType
<1>3. TokenType = {TypeList[1], TypeList[2], TypeList[3], TypeList[4], TypeList[5]}
  BY <1>2
<1> QED
  BY <1>1, <1>2, <1>3

\* The steps that deploy the root chain's contracts.
RootDeploys ==
  {New(Root(RootManager), << >>), New(Root(RootManagerProxy), << >>), New(Root(StateSender), << >>),
   Call(Root(RootManagerProxy), "updateAndCall", <<Root(RootManager)>>)}
  \cup {New(Root(Predicate(t)), << >>) : t \in TokenType}
  \cup {New(Root(PredicateProxy(t)), << >>) : t \in TokenType}
  \cup {New(Root(RootToken(t)), << >>) : t \in TokenType}
  \cup {Call(Root(PredicateProxy(t)), "updateAndCall", <<Root(Predicate(t))>>) : t \in TokenType}

\* The single initializations of the root chain.
GrantManager(t) == Call(Root(PredicateProxy(t)), "grantRole", <<Value("MANAGER"), Root(RootManagerProxy)>>)
GrantPredicate == Call(Root(RootToken("MintableERC721")), "grantRole",
             <<Value("PREDICATE"), Root(PredicateProxy("MintableERC721"))>>)
Register(t) == Call(Root(RootManagerProxy), "registerPredicate",
                           <<Value(t), Root(PredicateProxy(t))>>)
MapOf(t) == Call(Root(RootManagerProxy), "mapRootToken",
                           <<RootTokenOf(t), Child(ChildToken(t)), Value(t)>>)

\* The steps that initialize the root chain's contracts.
RootInits == 
   {ManagerSettings[1], ManagerSettings[2], ManagerSettings[3], GrantPredicate}
   \cup {GrantManager(t) : t \in TokenType} \cup {Register(t) : t \in TokenType} \cup {MapOf(t) : t \in TokenType}

\* A sequence of so many steps of a set.
Listed(s, n, S) == s \in Seq(S) /\ Len(s) = n

\* c is a, of length m, and then b, of length n.
IsJoin(c, a, m, b, n) ==
  /\ \A i \in 1..m : c[i] = a[i]
  /\ \A i \in 1..n : c[m + i] = b[i]

\* Two lists of steps one after the other.
LEMMA Joined ==
  ASSUME NEW S, NEW m \in Nat, NEW n \in Nat, NEW a, NEW b, Listed(a, m, S), Listed(b, n, S)
  PROVE  Listed(a \o b, m + n, S) /\ IsJoin(a \o b, a, m, b, n)
BY DEF IsJoin, Listed

\* The nineteen initializations of the root chain (migrations/4_initialize-root-contracts.js).
LEMMA InitsAt ==
  /\ RootInitializations \in Seq(RootInits)
  /\ Len(RootInitializations) = 19
  /\ \A i \in 1..3 : RootInitializations[i] = ManagerSettings[i]
  /\ \A i \in 1..5 : RootInitializations[3 + i] = GrantManager(TypeList[i])
  /\ RootInitializations[9] = GrantPredicate
  /\ \A i \in 1..5 : RootInitializations[9 + i] = Register(TypeList[i])
  /\ \A i \in 1..5 : RootInitializations[14 + i] = MapOf(TypeList[i])
<1> DEFINE grants == [i \in 1..5 |-> GrantManager(TypeList[i])]
           registers == [i \in 1..5 |-> Register(TypeList[i])]
           maps == [i \in 1..5 |-> MapOf(TypeList[i])]
<1>1. RoleGrants = grants \o <<GrantPredicate>> /\ Registrations = registers /\ RootMappings = maps
  BY Types DEF RoleGrants, Registrations, RootMappings, ForTypes, GrantManager, GrantPredicate, Register, MapOf
<1>2. /\ Listed(grants, 5, RootInits) /\ Listed(registers, 5, RootInits)
      /\ Listed(maps, 5, RootInits) /\ Listed(<<GrantPredicate>>, 1, RootInits)
  BY Types DEF RootInits, Listed
<1>3. Listed(ManagerSettings, 3, RootInits)
  BY DEF ManagerSettings, RootInits, Listed
<1>5. /\ \A i \in 1..5 : grants[i] = GrantManager(TypeList[i]) /\ registers[i] = Register(TypeList[i])
                            /\ maps[i] = MapOf(TypeList[i])
      /\ <<GrantPredicate>>[1] = GrantPredicate
  OBVIOUS
<1> HIDE DEF grants, registers, maps
<1>6. Listed(RoleGrants, 6, RootInits) /\ IsJoin(RoleGrants, grants, 5, <<GrantPredicate>>, 1)
  <2>1. /\ Listed(grants \o <<GrantPredicate>>, 5 + 1, RootInits)
        /\ IsJoin(grants \o <<GrantPredicate>>, grants, 5, <<GrantPredicate>>, 1)
    BY ONLY <1>2, Joined
  <2> QED
    BY <1>1, <2>1
<1> DEFINE a == ManagerSettings \o RoleGrants  b == a \o Registrations
<1>7. Listed(a, 9, RootInits) /\ IsJoin(a, ManagerSettings, 3, RoleGrants, 6)
  <2>1. Listed(a, 3 + 6, RootInits) /\ IsJoin(a, ManagerSettings, 3, RoleGrants, 6)
    BY ONLY <1>3, <1>6, Joined
  <2> QED
    BY <2>1
<1> HIDE DEF a
<1>8. Listed(b, 14, RootInits) /\ IsJoin(b, a, 9, registers, 5)
  <2>1. Listed(a \o registers, 9 + 5, RootInits) /\ IsJoin(a \o registers, a, 9, registers, 5)
    BY ONLY <1>2, <1>7, Joined
  <2> QED
    BY <1>1, <2>1
<1>9. RootInitializations = b \o maps
  BY <1>1 DEF RootInitializations, a
<1> HIDE DEF b
<1>10. Listed(RootInitializations, 19, RootInits) /\ IsJoin(RootInitializations, b, 14, maps, 5)
  <2>1. Listed(b \o maps, 14 + 5, RootInits) /\ IsJoin(b \o maps, b, 14, maps, 5)
    BY ONLY <1>2, <1>8, Joined
  <2> QED
    BY <1>9, <2>1
<1>11. \A i \in 1..9 : RootInitializations[i] = a[i]
  BY <1>8, <1>10 DEF IsJoin
<1>12. \A i \in 1..3 : RootInitializations[i] = ManagerSettings[i]
  BY <1>7, <1>11 DEF IsJoin
<1>13. \A i \in 1..6 : RootInitializations[3 + i] = RoleGrants[i]
  BY <1>7, <1>11 DEF IsJoin
<1>14. \A i \in 1..5 : RootInitializations[3 + i] = GrantManager(TypeList[i])
  BY <1>5, <1>6, <1>13 DEF IsJoin
<1>15. RootInitializations[3 + 6] = GrantPredicate
  BY <1>5, <1>6, <1>13 DEF IsJoin
<1>16. \A i \in 1..5 : RootInitializations[9 + i] = Register(TypeList[i])
  BY <1>5, <1>8, <1>10 DEF IsJoin
<1> QED
  BY <1>5, <1>10, <1>12, <1>14, <1>15, <1>16 DEF IsJoin, Listed

\* The steps that deploy the libraries.
LibraryDeploys == {New(Root(<<Libraries[i], "library">>), << >>) : i \in 1..5}

\* A list of steps of a smaller set.
LEMMA ListedMore ==
  ASSUME NEW S, NEW U, S \subseteq U, NEW n, NEW s, Listed(s, n, S) PROVE Listed(s, n, U)
BY DEF Listed

\* What Listed says of each step of a list.
LEMMA ListedAt ==
  ASSUME NEW S, NEW n \in Nat, NEW s, Listed(s, n, S)
  PROVE  /\ DOMAIN s = 1..n /\ Len(s) = n
         /\ \A i \in 1..n : s[i] \in S
BY DEF Listed

\* Lists of three steps, each next to the one before.
IsTriples(flat, seqs, n) ==
  \A i \in 1..n : /\ flat[3 * i - 2] = seqs[i][1]
                  /\ flat[3 * i - 1] = seqs[i][2]
                  /\ flat[3 * i] = seqs[i][3]

AreTriples(seqs, n, S) == seqs = [i \in 1..n |-> seqs[i]] /\ \A i \in 1..n : Listed(seqs[i], 3, S)

\* Lists of three steps, one after the other.
LEMMA ListedTriples ==
  ASSUME NEW S, NEW n \in Nat \ {0}, NEW seqs, AreTriples(seqs, n, S)
  PROVE  Listed(FlattenSeq(seqs), 3 * n, S) /\ IsTriples(FlattenSeq(seqs), seqs, n)
<1>1. seqs \in Seq(Seq(S)) /\ Len(seqs) = n /\ seqs # << >> /\ \A i \in 1..n : Len(seqs[i]) = 3
  <2>1. \A i \in 1..n : seqs[i] \in Seq(S) /\ Len(seqs[i]) = 3
    BY DEF Listed, AreTriples
  <2>2. seqs = [i \in 1..n |-> seqs[i]]
    BY DEF AreTriples
  <2>3. seqs \in [1..n -> Seq(S)]
    BY ONLY <2>1, <2>2
  <2>4. seqs \in Seq(Seq(S)) /\ DOMAIN seqs = 1..n
    BY ONLY <2>3, n \in Nat
  <2>5. Len(seqs) = n
    BY ONLY <2>4, n \in Nat
  <2> QED
    BY ONLY <2>1, <2>4, <2>5, n \in Nat \ {0}
<1> DEFINE flat == FlattenSeq(seqs)
<1>2. /\ flat \in Seq(S) /\ Len(flat) = 3 * n
      /\ \A i \in 1..n : /\ flat[3 * i - 2] = seqs[i][1]
                        /\ flat[3 * i - 1] = seqs[i][2]
                        /\ flat[3 * i] = seqs[i][3]
  BY ONLY <1>1, FlattenTriples
<1> QED
  BY ONLY <1>2 DEF Listed, IsTriples

\* The twenty-three deployments of the root chain (migrations/2_deploy-root-contracts.js).
LEMMA DeploymentsAt ==
  /\ Listed(RootDeployments, 23, RootDeploys)
  /\ RootDeployments[1] = New(Root(RootManager), << >>)
  /\ RootDeployments[2] = New(Root(RootManagerProxy), << >>)
  /\ RootDeployments[3] = Call(Root(RootManagerProxy), "updateAndCall", <<Root(RootManager)>>)
  /\ \A i \in 1..5 :
       /\ RootDeployments[3 * i + 1] = New(Root(Predicate(TypeList[i])), << >>)
       /\ RootDeployments[3 * i + 2] = New(Root(PredicateProxy(TypeList[i])), << >>)
       /\ RootDeployments[3 * i + 3] = Call(Root(PredicateProxy(TypeList[i])), "updateAndCall",
                                            <<Root(Predicate(TypeList[i]))>>)
  /\ RootDeployments[19] = New(Root(StateSender), << >>)
  /\ \A i \in 1..4 : RootDeployments[19 + i] = New(Root(RootToken(TypeList[i])), << >>)
<1> DEFINE Pair(t) == Proxied(Root(Predicate(t)), Root(PredicateProxy(t)))
           pairs == [i \in 1..5 |-> Pair(TypeList[i])]
           manager == Proxied(Root(RootManager), Root(RootManagerProxy))
           tokens == [i \in 1..4 |-> New(Root(RootToken(TypeList[i])), << >>)]
           sender == <<New(Root(StateSender), << >>)>>
<1>1. RootDeployments = manager \o FlattenSeq(pairs) \o sender \o tokens
  BY Types DEF RootDeployments, ForTypes
<1>2. Listed(manager, 3, RootDeploys) /\ Listed(sender, 1, RootDeploys)
  BY DEF Proxied, Listed, RootDeploys
<1>3. Listed(tokens, 4, RootDeploys)
  BY Types DEF Listed, RootDeploys
<1>4. ASSUME NEW i \in 1..5 PROVE Listed(pairs[i], 3, RootDeploys)
  <2>1. pairs[i] = Pair(TypeList[i]) /\ TypeList[i] \in TokenType
    BY Types
  <2>2. ASSUME NEW t \in TokenType PROVE Listed(Pair(t), 3, RootDeploys)
    BY DEF Proxied, Listed, RootDeploys
  <2> QED
    BY <2>1, <2>2
<1>5. /\ manager[1] = New(Root(RootManager), << >>)
      /\ manager[2] = New(Root(RootManagerProxy), << >>)
      /\ manager[3] = Call(Root(RootManagerProxy), "updateAndCall", <<Root(RootManager)>>)
      /\ sender[1] = New(Root(StateSender), << >>)
      /\ \A i \in 1..4 : tokens[i] = New(Root(RootToken(TypeList[i])), << >>)
  BY DEF Proxied
<1>6. \A i \in 1..5 :
       /\ pairs[i][1] = New(Root(Predicate(TypeList[i])), << >>)
       /\ pairs[i][2] = New(Root(PredicateProxy(TypeList[i])), << >>)
       /\ pairs[i][3] = Call(Root(PredicateProxy(TypeList[i])), "updateAndCall", <<Root(Predicate(TypeList[i]))>>)
  BY DEF Proxied
<1>7. AreTriples(pairs, 5, RootDeploys)
  BY <1>4 DEF AreTriples
<1> DEFINE flat == FlattenSeq(pairs)
<1> HIDE DEF pairs, manager, tokens, sender
<1>8. Listed(flat, 15, RootDeploys) /\ IsTriples(flat, pairs, 5)
  <2>1. Listed(flat, 3 * 5, RootDeploys) /\ IsTriples(flat, pairs, 5)
    BY ONLY <1>7, 5 \in Nat \ {0}, ListedTriples
  <2> QED
    BY <2>1
<1> DEFINE a == manager \o flat  b == a \o sender  c == b \o tokens
<1>9. c = RootDeployments
  BY <1>1
<1> HIDE DEF flat
<1>10. Listed(a, 18, RootDeploys) /\ IsJoin(a, manager, 3, flat, 15)
  <2>1. Listed(a, 3 + 15, RootDeploys) /\ IsJoin(a, manager, 3, flat, 15)
    BY ONLY <1>2, <1>8, Joined
  <2> QED
    BY <2>1
<1> HIDE DEF a
<1>11. Listed(b, 19, RootDeploys) /\ IsJoin(b, a, 18, sender, 1)
  <2>1. Listed(b, 18 + 1, RootDeploys) /\ IsJoin(b, a, 18, sender, 1)
    BY ONLY <1>2, <1>10, Joined
  <2> QED
    BY <2>1
<1> HIDE DEF b
<1>12. Listed(c, 23, RootDeploys) /\ IsJoin(c, b, 19, tokens, 4)
  <2>1. Listed(c, 19 + 4, RootDeploys) /\ IsJoin(c, b, 19, tokens, 4)
    BY ONLY <1>3, <1>11, Joined
  <2> QED
    BY <2>1
<1> HIDE DEF c
<1>13. \A i \in 1..18 : c[i] = a[i]
  BY <1>11, <1>12 DEF IsJoin
<1>14. c[1] = manager[1] /\ c[2] = manager[2] /\ c[3] = manager[3]
  BY <1>10, <1>13 DEF IsJoin
<1>15. \A i \in 1..15 : c[3 + i] = flat[i]
  BY <1>10, <1>13 DEF IsJoin
<1>16. \A i \in 1..5 : /\ c[3 * i + 1] = pairs[i][1]
                       /\ c[3 * i + 2] = pairs[i][2]
                       /\ c[3 * i + 3] = pairs[i][3]
  <2> SUFFICES ASSUME NEW i \in 1..5
               PROVE  /\ c[3 * i + 1] = pairs[i][1]
                      /\ c[3 * i + 2] = pairs[i][2]
                      /\ c[3 * i + 3] = pairs[i][3]
    OBVIOUS
  <2>1. /\ 3 * i - 2 \in 1..15 /\ 3 * i - 1 \in 1..15 /\ 3 * i \in 1..15
        /\ 3 + (3 * i - 2) = 3 * i + 1 /\ 3 + (3 * i - 1) = 3 * i + 2 /\ 3 + 3 * i = 3 * i + 3
    OBVIOUS
  <2>2. c[3 * i + 1] = flat[3 * i - 2] /\ c[3 * i + 2] = flat[3 * i - 1] /\ c[3 * i + 3] = flat[3 * i]
    BY <1>15, <2>1
  <2> QED
    BY <1>8, <2>2 DEF IsTriples
<1>17. c[18 + 1] = sender[1] /\ \A i \in 1..4 : c[19 + i] = tokens[i]
  BY <1>11, <1>12 DEF IsJoin
<1> QED
  BY <1>5, <1>6, <1>9, <1>12, <1>14, <1>16, <1>17

\* The tasks of the queue: the libraries and then the deployments of the root chain.
LEMMA QueuedAt ==
  /\ Listed(QueuedDeployments, 28, RootDeploys \cup LibraryDeploys)
  /\ \A i \in 1..5 : QueuedDeployments[i] = New(Root(<<Libraries[i], "library">>), << >>)
  /\ \A i \in 1..23 : QueuedDeployments[5 + i] = RootDeployments[i]
<1> DEFINE libs == [i \in 1..5 |-> New(Root(<<Libraries[i], "library">>), << >>)]
           S == RootDeploys \cup LibraryDeploys
<1>1. QueuedDeployments = libs \o RootDeployments
  <2>1. DOMAIN Libraries = 1..5
    BY DEF Libraries
  <2> QED
    BY <2>1 DEF QueuedDeployments
<1>2. Listed(libs, 5, S)
  BY DEF Listed, LibraryDeploys
<1>3. Listed(RootDeployments, 23, S)
  BY DeploymentsAt, ListedMore
<1> HIDE DEF libs, S
<1>4. Listed(QueuedDeployments, 5 + 23, S) /\ IsJoin(QueuedDeployments, libs, 5, RootDeployments, 23)
  BY <1>1, <1>2, <1>3, Joined
<1> QED
  BY <1>4 DEF IsJoin, libs, S

\* The steps that deploy the child chain's contracts.
ChildDeploys ==
  {New(Child(ChildManager), << >>), New(Child(ChildManagerProxy), << >>),
   Call(Child(ChildManagerProxy), "updateAndCall", <<Child(ChildManager)>>)}
  \cup {New(Child(ChildToken(t)), <<Child(ChildManagerProxy)>>) : t \in TokenType}

\* The single initializations of the child chain.
MapChild(t) == Call(Child(ChildManagerProxy), "mapChildToken", <<RootTokenOf(t), Child(ChildToken(t))>>)
GrantSyncer == Call(Child(ChildManagerProxy), "grantRole", <<Value("STATE_SYNCER"), Value(StateReceiver)>>)

ChildInits == {GrantSyncer} \cup {MapChild(t) : t \in TokenType}

\* The steps of migration 2: the deployments, and the addresses written in the end.
LEMMA Migration2At ==
  /\ Listed(Migration2, 24, RootDeploys \cup {WriteAddresses})
  /\ \A i \in 1..23 : Migration2[i] = RootDeployments[i]
  /\ Migration2[24] = WriteAddresses
<1> DEFINE S == RootDeploys \cup {WriteAddresses}
<1>1. Listed(RootDeployments, 23, S) /\ Listed(<<WriteAddresses>>, 1, S)
  <2>1. Listed(<<WriteAddresses>>, 1, S)
    BY DEF Listed
  <2> QED
    BY <2>1, DeploymentsAt, ListedMore
<1> HIDE DEF S
<1>2. /\ Listed(Migration2, 23 + 1, S)
      /\ IsJoin(Migration2, RootDeployments, 23, <<WriteAddresses>>, 1)
  BY <1>1, Joined DEF Migration2
<1> QED
  BY <1>2 DEF IsJoin, S

\* The steps of migration 3 (migrations/3_deploy-child-contracts.js).
LEMMA Migration3At ==
  /\ Listed(Migration3, 9, ChildDeploys \cup {WriteAddresses})
  /\ Migration3[1] = New(Child(ChildManager), << >>)
  /\ Migration3[2] = New(Child(ChildManagerProxy), << >>)
  /\ Migration3[3] = Call(Child(ChildManagerProxy), "updateAndCall", <<Child(ChildManager)>>)
  /\ \A i \in 1..5 : Migration3[3 + i] = New(Child(ChildToken(TypeList[i])), <<Child(ChildManagerProxy)>>)
  /\ Migration3[9] = WriteAddresses
<1> DEFINE S == ChildDeploys \cup {WriteAddresses}
           manager == Proxied(Child(ChildManager), Child(ChildManagerProxy))
           tokens == [i \in 1..5 |-> New(Child(ChildToken(TypeList[i])), <<Child(ChildManagerProxy)>>)]
           a == manager \o tokens
<1>1. Migration3 = a \o <<WriteAddresses>>
  BY Types DEF Migration3, ForTypes
<1>2. Listed(manager, 3, S) /\ Listed(<<WriteAddresses>>, 1, S)
  BY DEF Listed, Proxied, ChildDeploys
<1>3. Listed(tokens, 5, S)
  BY Types DEF Listed, ChildDeploys
<1>4. /\ manager[1] = New(Child(ChildManager), << >>)
      /\ manager[2] = New(Child(ChildManagerProxy), << >>)
      /\ manager[3] = Call(Child(ChildManagerProxy), "updateAndCall", <<Child(ChildManager)>>)
      /\ \A i \in 1..5 : tokens[i] = New(Child(ChildToken(TypeList[i])), <<Child(ChildManagerProxy)>>)
  BY DEF Proxied
<1> HIDE DEF S, manager, tokens
<1>5. Listed(a, 8, S) /\ IsJoin(a, manager, 3, tokens, 5)
  <2>1. Listed(a, 3 + 5, S) /\ IsJoin(a, manager, 3, tokens, 5)
    BY ONLY <1>2, <1>3, Joined
  <2> QED
    BY <2>1
<1> HIDE DEF a
<1>6. Listed(Migration3, 9, S) /\ IsJoin(Migration3, a, 8, <<WriteAddresses>>, 1)
  <2>1. Listed(a \o <<WriteAddresses>>, 8 + 1, S) /\ IsJoin(a \o <<WriteAddresses>>, a, 8, <<WriteAddresses>>, 1)
    BY ONLY <1>2, <1>5, Joined
  <2> QED
    BY <1>1, <2>1
<1>7. /\ Migration3[1] = manager[1] /\ Migration3[2] = manager[2] /\ Migration3[3] = manager[3]
      /\ \A i \in 1..5 : Migration3[3 + i] = tokens[i]
  BY <1>5, <1>6 DEF IsJoin
<1> QED
  BY <1>4, <1>6, <1>7 DEF IsJoin, S

\* The steps of migration 5 (migrations/5_initialize-child-contracts.js).
LEMMA Migration5At ==
  /\ Listed(Migration5, 6, ChildInits)
  /\ Migration5[1] = GrantSyncer
  /\ \A i \in 1..5 : Migration5[1 + i] = MapChild(TypeList[i])
<1> DEFINE maps == [i \in 1..5 |-> MapChild(TypeList[i])]
<1>1. Migration5 = <<GrantSyncer>> \o maps
  BY Types DEF Migration5, ForTypes, GrantSyncer, MapChild
<1>2. Listed(maps, 5, ChildInits) /\ Listed(<<GrantSyncer>>, 1, ChildInits)
  BY Types DEF Listed, ChildInits
<1>3. \A i \in 1..5 : maps[i] = MapChild(TypeList[i])
  OBVIOUS
<1> HIDE DEF maps
<1>4. Listed(Migration5, 1 + 5, ChildInits) /\ IsJoin(Migration5, <<GrantSyncer>>, 1, maps, 5)
  BY <1>1, <1>2, Joined
<1> QED
  BY <1>3, <1>4 DEF IsJoin

\* The tasks of a list of steps.
TasksOf(first, n, S) == {Queue(id, s) : id \in first..(first + n - 1), s \in S}

AreTasks(tasks, first, s, n) == \A i \in 1..n : tasks[i] = Queue(first + i - 1, s[i])

\* Tasks numbers the steps of a list from its first argument on.
LEMMA TasksAt ==
  ASSUME NEW S, NEW first \in Nat, NEW n \in Nat, NEW s, Listed(s, n, S)
  PROVE  /\ Listed(Tasks(first, s), n, TasksOf(first, n, S))
         /\ AreTasks(Tasks(first, s), first, s, n)
<1>1. DOMAIN s = 1..n /\ \A i \in 1..n : s[i] \in S
  BY DEF Listed
<1>2. Tasks(first, s) = [i \in 1..n |-> Queue(first + i - 1, s[i])]
  BY <1>1 DEF Tasks
<1>3. \A i \in 1..n : first + i - 1 \in first..(first + n - 1)
  OBVIOUS
<1>4. \A i \in 1..n : Queue(first + i - 1, s[i]) \in TasksOf(first, n, S)
  BY <1>1, <1>3 DEF TasksOf
<1> QED
  BY <1>2, <1>4 DEF Listed, AreTasks

\* The steps of the script that queues the deployments.
LEMMA QueueRootDeploymentAt ==
  LET S == RootDeploys \cup TasksOf(0, 28, RootDeploys \cup LibraryDeploys)
  IN  /\ Listed(QueueRootDeployment, 34, S)
      /\ \A i \in 1..6 : QueueRootDeployment[i] \in RootDeploys /\ QueueRootDeployment[i].op = "new"
      /\ \A i \in 1..28 : QueueRootDeployment[6 + i] = Queue(i - 1, QueuedDeployments[i])
<1> DEFINE S == RootDeploys \cup TasksOf(0, 28, RootDeploys \cup LibraryDeploys)
           code == <<New(Root(RootManager), << >>)>>
           predicates == [i \in 1..5 |-> New(Root(Predicate(TypeList[i])), << >>)]
           a == code \o predicates
           tasks == Tasks(0, QueuedDeployments)
<1>1. QueueRootDeployment = a \o tasks
  BY Types DEF QueueRootDeployment, ForTypes
<1>2. Listed(code, 1, RootDeploys) /\ Listed(predicates, 5, RootDeploys)
  <2>1. Listed(code, 1, RootDeploys)
    BY DEF Listed, RootDeploys
  <2>2. Listed(predicates, 5, RootDeploys)
    BY Types DEF Listed, RootDeploys
  <2> QED
    BY <2>1, <2>2
<1>3. Listed(code, 1, S) /\ Listed(predicates, 5, S)
  BY <1>2, ListedMore
<1>4. /\ code[1].op = "new" /\ \A i \in 1..5 : predicates[i].op = "new"
      /\ code[1] \in RootDeploys /\ \A i \in 1..5 : predicates[i] \in RootDeploys
  BY Types DEF New, RootDeploys
<1>5. /\ Listed(tasks, 28, TasksOf(0, 28, RootDeploys \cup LibraryDeploys))
      /\ \A i \in 1..28 : tasks[i] = Queue(0 + i - 1, QueuedDeployments[i])
  <2> DEFINE U == RootDeploys \cup LibraryDeploys
  <2>1. Listed(QueuedDeployments, 28, U)
    BY QueuedAt
  <2> HIDE DEF U
  <2>2. /\ Listed(tasks, 28, TasksOf(0, 28, U))
        /\ AreTasks(tasks, 0, QueuedDeployments, 28)
    BY <2>1, TasksAt
  <2> QED
    BY <2>2 DEF U, AreTasks
<1>6. Listed(tasks, 28, S)
  BY <1>5, ListedMore
<1> HIDE DEF code, predicates, tasks, S
<1>7. Listed(a, 6, S) /\ IsJoin(a, code, 1, predicates, 5)
  <2>1. Listed(a, 1 + 5, S) /\ IsJoin(a, code, 1, predicates, 5)
    BY ONLY <1>3, Joined
  <2> QED
    BY <2>1
<1> HIDE DEF a
<1>8. Listed(QueueRootDeployment, 34, S) /\ IsJoin(QueueRootDeployment, a, 6, tasks, 28)
  <2>1. Listed(a \o tasks, 6 + 28, S) /\ IsJoin(a \o tasks, a, 6, tasks, 28)
    BY ONLY <1>6, <1>7, Joined
  <2> QED
    BY <1>1, <2>1
<1>9. /\ \A i \in 1..6 : QueueRootDeployment[i] = a[i]
      /\ a[1] = code[1] /\ \A i \in 1..5 : a[1 + i] = predicates[i]
      /\ \A i \in 1..28 : QueueRootDeployment[6 + i] = tasks[i]
  BY <1>7, <1>8 DEF IsJoin
<1>10. \A i \in 1..6 : i = 1 \/ (i - 1 \in 1..5 /\ 1 + (i - 1) = i)
  OBVIOUS
<1>11. \A i \in 1..6 : a[i] \in RootDeploys /\ a[i].op = "new"
  BY <1>4, <1>9, <1>10
<1> QED
  BY <1>5, <1>8, <1>9, <1>11 DEF S

\* The steps of the script that queues the initializations.
LEMMA QueueRootInitializationsAt ==
  /\ Listed(QueueRootInitializations, 19, TasksOf(28, 19, RootInits))
  /\ \A i \in 1..19 : QueueRootInitializations[i] = Queue(27 + i, RootInitializations[i])
<1>1. Listed(RootInitializations, 19, RootInits)
  BY InitsAt DEF Listed
<1>2. /\ Listed(Tasks(28, RootInitializations), 19, TasksOf(28, 19, RootInits))
      /\ AreTasks(Tasks(28, RootInitializations), 28, RootInitializations, 19)
  BY <1>1, TasksAt
<1>3. \A i \in 1..19 : 28 + i - 1 = 27 + i
  OBVIOUS
<1> QED
  BY <1>2, <1>3 DEF QueueRootInitializations, FirstInitId, AreTasks

\* The contracts that change their owner.
OwnedNames(side) ==
  IF side = "root"
  THEN {PredicateProxy(t) : t \in TokenType} \cup {RootManagerProxy, RootToken("MintableERC721")}
  ELSE {ChildManagerProxy} \cup {ChildToken(t) : t \in TokenType}

\* The steps that give contracts away.
OwnerSteps(side, names) ==
  {Try(<<side, name>>, "transferProxyOwnership", <<Value(NewOwner)>>, 0) : name \in names}
  \cup {Try(<<side, name>>, "grantRole", <<Value("DEFAULT_ADMIN"), Value(NewOwner)>>, 1) : name \in names}
  \cup {Try(<<side, name>>, "revokeRole", <<Value("DEFAULT_ADMIN"), Value(Deployer)>>, 0) : name \in names}

\* A list of three steps.
LEMMA ListedTriple ==
  ASSUME NEW S, NEW a \in S, NEW b \in S, NEW c \in S PROVE Listed(<<a, b, c>>, 3, S)
BY DEF Listed

\* A list with one step more.
LEMMA ListedAppend ==
  ASSUME NEW S, NEW n \in Nat, NEW s, Listed(s, n, S), NEW a \in S
  PROVE  Listed(Append(s, a), n + 1, S) /\ IsJoin(Append(s, a), s, n, <<a>>, 1)
BY DEF Listed, IsJoin

\* The change of owners takes three steps for each contract it lists.
LEMMA ChangeOwnersAt ==
  ASSUME NEW side, NEW n \in Nat \ {0}, NEW list, NEW names, Listed(list, n, names)
  PROVE  LET steps == ChangeOwners([i \in 1..n |-> <<side, list[i]>>])
         IN  /\ Listed(steps, 3 * n, OwnerSteps(side, names))
             /\ IsTriples(steps, [i \in 1..n |-> GiveAway(<<side, list[i]>>)], n)
<1> DEFINE refs == [i \in 1..n |-> <<side, list[i]>>]
           seqs == [i \in 1..n |-> GiveAway(<<side, list[i]>>)]
<1>1. ChangeOwners(refs) = FlattenSeq(seqs)
  BY DEF ChangeOwners
<1>2. ASSUME NEW i \in 1..n PROVE Listed(seqs[i], 3, OwnerSteps(side, names))
  <2>1. list[i] \in names
    BY DEF Listed
  <2>2. ASSUME NEW name \in names PROVE Listed(GiveAway(<<side, name>>), 3, OwnerSteps(side, names))
    <3> DEFINE S == OwnerSteps(side, names)
               a == Try(<<side, name>>, "transferProxyOwnership", <<Value(NewOwner)>>, 0)
               b == Try(<<side, name>>, "grantRole", <<Value("DEFAULT_ADMIN"), Value(NewOwner)>>, 1)
               c == Try(<<side, name>>, "revokeRole", <<Value("DEFAULT_ADMIN"), Value(Deployer)>>, 0)
    <3>1. a \in S /\ b \in S /\ c \in S
      BY DEF OwnerSteps
    <3>2. GiveAway(<<side, name>>) = <<a, b, c>>
      BY DEF GiveAway
    <3> HIDE DEF a, b, c, S
    <3>3. Listed(GiveAway(<<side, name>>), 3, S)
      BY <3>1, <3>2, ListedTriple
    <3> QED
      BY <3>3 DEF S
  <2> QED
    BY <2>1, <2>2
<1>3. AreTriples(seqs, n, OwnerSteps(side, names))
  BY <1>2 DEF AreTriples
<1> HIDE DEF seqs
<1>4. Listed(FlattenSeq(seqs), 3 * n, OwnerSteps(side, names)) /\ IsTriples(FlattenSeq(seqs), seqs, n)
  BY <1>3, ListedTriples
<1> QED
  BY <1>1, <1>4 DEF seqs

\* The contracts that the two scripts give away.
LEMMA OwnedLists ==
  /\ Listed(OwnedRoot, 7, OwnedNames("root"))
  /\ \A i \in 1..5 : OwnedRoot[i] = PredicateProxy(TypeList[i])
  /\ OwnedRoot[6] = RootManagerProxy
  /\ OwnedRoot[7] = RootToken("MintableERC721")
  /\ Listed(OwnedChild, 6, OwnedNames("child"))
  /\ OwnedChild[1] = ChildManagerProxy
  /\ \A i \in 1..5 : OwnedChild[1 + i] = ChildToken(TypeList[i])
<1> DEFINE S == OwnedNames("root")
           U == OwnedNames("child")
           proxies == [i \in 1..5 |-> PredicateProxy(TypeList[i])]
           mintable == RootToken("MintableERC721")
           tokens == [i \in 1..5 |-> ChildToken(TypeList[i])]
           a == Append(proxies, RootManagerProxy)
<1>1. OwnedRoot = a \o <<mintable>> /\ OwnedChild = <<ChildManagerProxy>> \o tokens
  BY Types DEF OwnedRoot, OwnedChild
<1>2. /\ \A i \in 1..5 : PredicateProxy(TypeList[i]) \in S /\ ChildToken(TypeList[i]) \in U
      /\ RootManagerProxy \in S /\ mintable \in S /\ ChildManagerProxy \in U
  BY Types DEF OwnedNames
<1>3. \A i \in 1..5 : proxies[i] = PredicateProxy(TypeList[i]) /\ tokens[i] = ChildToken(TypeList[i])
  OBVIOUS
<1>4. Listed(proxies, 5, S) /\ Listed(tokens, 5, U)
  BY <1>2 DEF Listed
<1> HIDE DEF proxies, tokens, S, U, mintable
<1>5. Listed(<<mintable>>, 1, S) /\ Listed(<<ChildManagerProxy>>, 1, U)
  BY <1>2 DEF Listed
<1>6. Listed(a, 5 + 1, S) /\ IsJoin(a, proxies, 5, <<RootManagerProxy>>, 1)
  BY <1>2, <1>4, ListedAppend
<1>7. Listed(a, 6, S) /\ (\A i \in 1..5 : a[i] = proxies[i]) /\ a[6] = RootManagerProxy
  <2>1. 1 \in 1..1 /\ 5 + 1 = 6
    OBVIOUS
  <2>2. a[5 + 1] = <<RootManagerProxy>>[1]
    BY <1>6, <2>1 DEF IsJoin
  <2>3. Listed(a, 5 + 1, S)
    BY <1>6
  <2>4. \A i \in 1..5 : a[i] = proxies[i]
    BY <1>6 DEF IsJoin
  <2> QED
    BY <2>1, <2>2, <2>3, <2>4
<1> HIDE DEF a
<1>8. Listed(OwnedRoot, 6 + 1, S) /\ IsJoin(OwnedRoot, a, 6, <<mintable>>, 1)
  BY <1>1, <1>5, <1>7, Joined
<1>9. Listed(OwnedChild, 1 + 5, U) /\ IsJoin(OwnedChild, <<ChildManagerProxy>>, 1, tokens, 5)
  BY <1>1, <1>4, <1>5, Joined
<1>10. \A i \in 1..5 : OwnedRoot[i] = proxies[i]
  BY <1>7, <1>8 DEF IsJoin
<1>11. OwnedRoot[6] = RootManagerProxy
  BY <1>7, <1>8 DEF IsJoin
<1>12. OwnedRoot[6 + 1] = RootToken("MintableERC721")
  BY <1>8 DEF IsJoin, mintable
<1>13. OwnedChild[1] = ChildManagerProxy /\ \A i \in 1..5 : OwnedChild[1 + i] = tokens[i]
  BY <1>9 DEF IsJoin
<1> QED
  BY <1>3, <1>8, <1>9, <1>10, <1>11, <1>12, <1>13 DEF S, U

Sides == {"root", "child"}

\* The methods that the scripts call, and the fields of a contract.
Methods ==
  {"updateAndCall", "transferProxyOwnership", "grantRole", "revokeRole", "setStateSender",
   "setChildChainManagerAddress", "setCheckpointManager", "registerPredicate",
   "mapRootToken", "mapChildToken"}

Fields == {"proxyOwner", "impl", "inited", "roles", "slots"}

\* The contracts of a name, and how many there are.
Of(D, name) == {a \in D : a[1] = name}

Count(ch, name) == Cardinality(Of(DOMAIN ch, name))

\* Who may hold a role on a chain.
Accounts(ch) == {Deployer, NewOwner, StateReceiver} \cup DOMAIN ch

\* A contract is initialized when it has code, and its roles are those of accounts.
ContractOK(ch, c) ==
  /\ DOMAIN c = Fields
  /\ c.inited \in BOOLEAN
  /\ c.inited => c.impl \in DOMAIN ch
  /\ ~c.inited => c.impl = None
  /\ \A role \in c.roles : role[2] \in Accounts(ch)

\* The addresses of a name are numbered.
AddressesOK(ch) ==
  /\ IsFiniteSet(DOMAIN ch)
  /\ \A a \in DOMAIN ch : a = <<a[1], a[2]>> /\ a[2] \in 1..Count(ch, a[1])

\* A chain whose contracts are in order.
ChainOK(ch) == AddressesOK(ch) /\ \A a \in DOMAIN ch : ContractOK(ch, ch[a])

ChildTokens == {ChildToken(t) : t \in TokenType}

\* What Put does, without its definition.
IsPut(g, f, x, v) ==
  /\ DOMAIN g = DOMAIN f \cup {x}
  /\ g[x] = v
  /\ \A y \in DOMAIN f : y # x => g[y] = f[y]

\* Put sets one value and keeps the others.
LEMMA PutIs == ASSUME NEW f, NEW x, NEW v PROVE IsPut(Put(f, x, v), f, x, v)
BY DEF Put, IsPut

\* A contract more of a name is counted under that name only.
LEMMA CountGrows ==
  ASSUME NEW D, IsFiniteSet(D), NEW b, b \notin D, NEW name
  PROVE  /\ IsFiniteSet(Of(D, name))
         /\ Cardinality(Of(D, name)) \in Nat
         /\ Cardinality(Of(D \cup {b}, name)) = IF b[1] = name THEN Cardinality(Of(D, name)) + 1
                                                ELSE Cardinality(Of(D, name))
<1>1. IsFiniteSet(Of(D, name))
  BY FS_Subset DEF Of
<1>2. CASE b[1] = name
  <2>1. Of(D \cup {b}, name) = Of(D, name) \cup {b} /\ b \notin Of(D, name)
    BY <1>2 DEF Of
  <2>2. Cardinality(Of(D, name) \cup {b}) = Cardinality(Of(D, name)) + 1 /\ Cardinality(Of(D, name)) \in Nat
    BY <1>1, <2>1, FS_AddElement, FS_CardinalityType
  <2> QED
    BY <1>1, <1>2, <2>1, <2>2
<1>3. CASE b[1] # name
  <2>1. Of(D \cup {b}, name) = Of(D, name)
    BY <1>3 DEF Of
  <2> QED
    BY <1>1, <1>3, <2>1, FS_CardinalityType
<1> QED
  BY <1>2, <1>3

\* The address of a new contract is new, and of its name.
LEMMA NextIsNew ==
  ASSUME NEW ch, AddressesOK(ch), NEW name
  PROVE  /\ NextAddress(ch, name) \notin DOMAIN ch
         /\ NextAddress(ch, name)[1] = name
         /\ NextAddress(ch, name) = <<name, Count(ch, name) + 1>>
         /\ Count(ch, name) \in Nat
<1>1. Count(ch, name) \in Nat
  <2>1. IsFiniteSet(Of(DOMAIN ch, name))
    BY FS_Subset DEF AddressesOK, Of
  <2> QED
    BY <2>1, FS_CardinalityType DEF Count
<1>2. NextAddress(ch, name) = <<name, Count(ch, name) + 1>>
  BY DEF NextAddress, Count, Of
<1>3. ASSUME <<name, Count(ch, name) + 1>> \in DOMAIN ch PROVE FALSE
  <2>1. Count(ch, name) + 1 \in 1..Count(ch, name)
    BY <1>3 DEF AddressesOK
  <2> QED
    BY <1>1, <2>1
<1> QED
  BY <1>1, <1>2, <1>3

\* The addresses of a name stay numbered from 1 when one is added.
LEMMA AddressesGrow ==
  ASSUME NEW ch, AddressesOK(ch), NEW name, NEW c
  PROVE  AddressesOK(Put(ch, NextAddress(ch, name), c))
<1> DEFINE new == NextAddress(ch, name)
           after == Put(ch, new, c)
<1>1. DOMAIN after = DOMAIN ch \cup {new}
  BY PutIs DEF IsPut
<1>2. new \notin DOMAIN ch /\ new[1] = name /\ new = <<name, Count(ch, name) + 1>> /\ Count(ch, name) \in Nat
  BY NextIsNew
<1> HIDE DEF new, after
<1>3. IsFiniteSet(DOMAIN ch)
  BY DEF AddressesOK
<1>4. IsFiniteSet(DOMAIN after)
  BY <1>1, <1>3, FS_AddElement
<1>5. \A n : /\ Count(ch, n) \in Nat
             /\ Count(after, n) = IF n = name THEN Count(ch, n) + 1 ELSE Count(ch, n)
  <2> SUFFICES ASSUME NEW n
               PROVE  /\ Count(ch, n) \in Nat
                      /\ Count(after, n) = IF n = name THEN Count(ch, n) + 1 ELSE Count(ch, n)
    OBVIOUS
  <2>1. /\ Cardinality(Of(DOMAIN ch, n)) \in Nat
        /\ Cardinality(Of(DOMAIN ch \cup {new}, n))
             = IF new[1] = n THEN Cardinality(Of(DOMAIN ch, n)) + 1 ELSE Cardinality(Of(DOMAIN ch, n))
    BY <1>2, <1>3, CountGrows
  <2> QED
    BY <1>1, <1>2, <2>1 DEF Count
<1>6. ASSUME NEW a \in DOMAIN after PROVE a = <<a[1], a[2]>> /\ a[2] \in 1..Count(after, a[1])
  <2>1. CASE a = new
    <3>1. a[1] = name /\ a[2] = Count(ch, name) + 1 /\ a = <<a[1], a[2]>>
      BY <1>2, <2>1
    <3>2. Count(after, name) = Count(ch, name) + 1
      BY <1>5
    <3> QED
      BY <1>2, <3>1, <3>2
  <2>2. CASE a \in DOMAIN ch
    <3>1. a = <<a[1], a[2]>> /\ a[2] \in 1..Count(ch, a[1])
      BY <2>2 DEF AddressesOK
    <3>2. Count(ch, a[1]) \in Nat /\ Count(after, a[1]) \in Nat /\ Count(ch, a[1]) <= Count(after, a[1])
      BY <1>5
    <3> QED
      BY <3>1, <3>2
  <2> QED
    BY <1>1, <2>1, <2>2
<1> QED
  BY <1>4, <1>6 DEF AddressesOK, after, new

\* No contract is at an address that no script deploys.
LEMMA ExternalAddresses ==
  ASSUME NEW ch, AddressesOK(ch)
  PROVE  None \notin DOMAIN ch /\ \A a \in DOMAIN ch : a # None /\ a[2] # 0
<1>1. \A a \in DOMAIN ch : a[2] # 0
  BY DEF AddressesOK
<1>2. None[2] = 0
  BY DEF None, External
<1> QED
  BY <1>1, <1>2

\* What deploying a contract does to a chain.
Deploys(ch, after, name, args) ==
  /\ NextAddress(ch, name) \notin DOMAIN ch
  /\ NextAddress(ch, name)[1] = name
  /\ DOMAIN after = DOMAIN ch \cup {NextAddress(ch, name)}
  /\ after[NextAddress(ch, name)] = Constructed(name, args)
  /\ \A a \in DOMAIN ch : after[a] = ch[a]

\* A deployment adds one contract and keeps a chain in order.
LEMMA DeployKeeps ==
  ASSUME NEW ch, ChainOK(ch), NEW name, NEW args, name \in ChildTokens => args[1] \in Accounts(ch)
  PROVE  /\ ChainOK(AfterDeploy(ch, name, args))
         /\ Deploys(ch, AfterDeploy(ch, name, args), name, args)
<1> DEFINE new == NextAddress(ch, name)
           after == AfterDeploy(ch, name, args)
<1>1. Deploys(ch, after, name, args)
  <2>1. new \notin DOMAIN ch /\ new[1] = name
    BY NextIsNew DEF ChainOK
  <2>2. after = Put(ch, new, Constructed(name, args))
    BY DEF AfterDeploy
  <2> HIDE DEF after, new
  <2>4. IsPut(after, ch, new, Constructed(name, args))
    BY ONLY <2>2, PutIs
  <2>3. /\ DOMAIN after = DOMAIN ch \cup {new}
        /\ after[new] = Constructed(name, args)
        /\ \A a \in DOMAIN ch : a # new => after[a] = ch[a]
    BY ONLY <2>4 DEF IsPut
  <2> QED
    BY <2>1, <2>3 DEF Deploys, new
<1>2. AddressesOK(after)
  BY AddressesGrow DEF ChainOK, AfterDeploy
<1> HIDE DEF new, after
<1>3. \A role \in ConstructorRoles(name, args) : role[2] \in Accounts(ch)
  <2>1. CASE name = RootToken("MintableERC721")
    <3>1. name \notin ChildTokens
      BY <2>1 DEF ChildTokens, ChildToken, RootToken
    <3>2. ConstructorRoles(name, args) = {<<"DEFAULT_ADMIN", Deployer>>, <<"PREDICATE", Deployer>>}
      BY <2>1, <3>1 DEF ConstructorRoles, ChildTokens
    <3> QED
      BY <3>2 DEF Accounts
  <2>2. CASE name # RootToken("MintableERC721") /\ name \in ChildTokens
    BY <2>2 DEF ConstructorRoles, Accounts, ChildTokens
  <2>3. CASE name # RootToken("MintableERC721") /\ name \notin ChildTokens
    BY <2>3 DEF ConstructorRoles, Accounts, ChildTokens
  <2> QED
    BY <2>1, <2>2, <2>3
<1>4. Accounts(ch) \subseteq Accounts(after) /\ DOMAIN ch \subseteq DOMAIN after
  BY <1>1 DEF Accounts, Deploys
<1>5. ContractOK(after, Constructed(name, args))
  BY <1>3, <1>4 DEF ContractOK, Constructed, Fields
<1>6. ASSUME NEW a \in DOMAIN ch PROVE ContractOK(after, after[a])
  <2>1. ContractOK(ch, ch[a]) /\ after[a] = ch[a]
    BY <1>1 DEF ChainOK, Deploys
  <2> QED
    BY <1>4, <2>1 DEF ContractOK
<1>7. \A a \in DOMAIN after : ContractOK(after, after[a])
  BY <1>1, <1>5, <1>6 DEF Deploys, new
<1> QED
  BY <1>1, <1>2, <1>7 DEF ChainOK, after

\* What a call does to a contract, but for its slots.
IsResult(r, name, c, method, args) ==
  /\ DOMAIN r = Fields
  /\ r.inited = (c.inited \/ method = "updateAndCall")
  /\ r.impl = IF method = "updateAndCall" THEN args[1] ELSE c.impl
  /\ r.proxyOwner = IF method = "transferProxyOwnership" THEN args[1] ELSE c.proxyOwner
  /\ r.roles = CASE method = "updateAndCall" -> InitialRoles(name)
                 [] method = "grantRole"     -> c.roles \cup {args}
                 [] method = "revokeRole"    -> c.roles \ {args}
                 [] OTHER                    -> c.roles
  /\ method \in {"updateAndCall", "transferProxyOwnership", "grantRole", "revokeRole"} => r.slots = c.slots

\* Written sets a slot and nothing else.
LEMMA WrittenIs ==
  ASSUME NEW c, DOMAIN c = Fields, NEW key, NEW value
  PROVE  LET r == Written(c, key, value)
         IN  /\ DOMAIN r = Fields
             /\ r.inited = c.inited /\ r.impl = c.impl /\ r.proxyOwner = c.proxyOwner /\ r.roles = c.roles
             /\ r.slots = Put(c.slots, key, value)
BY DEF Written, Fields

\* What each method may change of the contract it is called on.
LEMMA ResultIs ==
  ASSUME NEW c, DOMAIN c = Fields, c.inited \in BOOLEAN, NEW name, NEW args, NEW method \in Methods
  PROVE  IsResult(Result(name, c, method, args), name, c, method, args)
<1> DEFINE r == Result(name, c, method, args)
           Same(w) == /\ DOMAIN w = Fields
                      /\ w.inited = c.inited /\ w.impl = c.impl
                      /\ w.proxyOwner = c.proxyOwner /\ w.roles = c.roles
<1>1. CASE method = "updateAndCall"
  BY <1>1 DEF Result, IsResult, Fields
<1>2. CASE method = "transferProxyOwnership"
  BY <1>2 DEF Result, IsResult, Fields
<1>3. CASE method = "grantRole"
  BY <1>3 DEF Result, IsResult, Fields
<1>4. CASE method = "revokeRole"
  BY <1>4 DEF Result, IsResult, Fields
<1>5. ASSUME NEW w, Same(w), NEW key, NEW value PROVE Same(Written(w, key, value))
  BY <1>5, WrittenIs
<1>6. Same(c)
  OBVIOUS
<1>7. ASSUME method \notin {"updateAndCall", "transferProxyOwnership", "grantRole", "revokeRole"}
      PROVE  Same(r)
  <2>1. CASE method = "setStateSender"
    <3>1. r = Written(c, <<"stateSender">>, args[1])
      BY <2>1 DEF Result
    <3> QED
      BY <1>5, <1>6, <3>1
  <2>2. CASE method = "setChildChainManagerAddress"
    <3>1. r = Written(c, <<"childChainManagerAddress">>, args[1])
      BY <2>2 DEF Result
    <3> QED
      BY <1>5, <1>6, <3>1
  <2>3. CASE method = "setCheckpointManager"
    <3>1. r = Written(c, <<"checkpointManager">>, args[1])
      BY <2>3 DEF Result
    <3> QED
      BY <1>5, <1>6, <3>1
  <2>4. CASE method = "registerPredicate"
    <3>1. r = Written(c, <<"typeToPredicate", args[1]>>, args[2])
      BY <2>4 DEF Result
    <3> QED
      BY <1>5, <1>6, <3>1
  <2>5. CASE method = "mapRootToken"
    <3>1. r = RootMapped(c, args[1], args[2], args[3])
      BY <2>5 DEF Result
    <3> HIDE DEF Same
    <3> QED
      BY <1>5, <1>6, <3>1 DEF RootMapped
  <2>6. CASE method = "mapChildToken"
    <3>1. r = ChildMapped(c, args[1], args[2])
      BY <2>6 DEF Result
    <3> HIDE DEF Same
    <3> QED
      BY <1>5, <1>6, <3>1 DEF ChildMapped
  <2> QED
    BY <1>7, <2>1, <2>2, <2>3, <2>4, <2>5, <2>6 DEF Methods
<1>8. CASE method \notin {"updateAndCall", "transferProxyOwnership", "grantRole", "revokeRole"}
  BY <1>7, <1>8 DEF IsResult
<1> QED
  BY <1>1, <1>2, <1>3, <1>4, <1>8

\* The arguments of a call are contracts of the chain, or known accounts.
GoodCall(ch, method, args) ==
  /\ method \in Methods
  /\ method = "updateAndCall" => args[1] \in DOMAIN ch
  /\ method = "grantRole" => args[2] \in Accounts(ch)

\* What a call does to a chain.
Calls(ch, after, at, method, args) ==
  /\ DOMAIN after = DOMAIN ch
  /\ \A a \in DOMAIN ch : a # at => after[a] = ch[a]
  /\ at \in DOMAIN ch => \/ after[at] = ch[at] /\ ~Reaches(ch, at, method)
                         \/ /\ IsResult(after[at], at[1], ch[at], method, args)
                            /\ after[at] = Result(at[1], ch[at], method, args)
                            /\ Passes(ch[at], method, args)
                            /\ Reaches(ch, at, method)

\* A call changes one contract and keeps a chain in order.
LEMMA CallKeeps ==
  ASSUME NEW ch, ChainOK(ch), NEW at, NEW method, NEW args, GoodCall(ch, method, args),
         CallPasses(ch, at, method, args)
  PROVE  /\ ChainOK(AfterCall(ch, at, method, args))
         /\ Calls(ch, AfterCall(ch, at, method, args), at, method, args)
<1> DEFINE after == AfterCall(ch, at, method, args)
<1>1. Calls(ch, after, at, method, args)
  <2>1. CASE ~Reaches(ch, at, method)
    BY <2>1 DEF AfterCall, Calls
  <2>2. CASE Reaches(ch, at, method)
    <3>1. /\ at \in DOMAIN ch /\ Passes(ch[at], method, args)
          /\ after = [ch EXCEPT ![at] = Result(at[1], ch[at], method, args)]
      BY <2>2 DEF AfterCall, Reaches, CallPasses
    <3>2. IsResult(Result(at[1], ch[at], method, args), at[1], ch[at], method, args)
      <4>1. DOMAIN ch[at] = Fields /\ ch[at].inited \in BOOLEAN /\ method \in Methods
        BY <3>1 DEF ChainOK, ContractOK, GoodCall
      <4> QED
        BY <4>1, ResultIs
    <3>3. /\ DOMAIN after = DOMAIN ch /\ after[at] = Result(at[1], ch[at], method, args)
          /\ \A a \in DOMAIN ch : a # at => after[a] = ch[a]
      BY <3>1
    <3> HIDE DEF after
    <3> QED
      BY <2>2, <3>1, <3>2, <3>3 DEF Calls
  <2> QED
    BY <2>1, <2>2
<1> HIDE DEF after
<1>2. DOMAIN after = DOMAIN ch
  BY <1>1 DEF Calls
<1>3. \A n : Count(after, n) = Count(ch, n)
  BY <1>2 DEF Count
<1>4. AddressesOK(after)
  BY <1>2, <1>3 DEF AddressesOK, ChainOK
<1>5. Accounts(after) = Accounts(ch)
  BY <1>2 DEF Accounts
<1>6. ASSUME NEW a \in DOMAIN ch PROVE ContractOK(after, after[a])
  <2>1. ContractOK(ch, ch[a])
    BY DEF ChainOK
  <2>2. CASE after[a] = ch[a]
    BY <1>2, <1>5, <2>1, <2>2 DEF ContractOK
  <2>3. CASE a = at /\ IsResult(after[a], a[1], ch[a], method, args)
    <3>1. \A role \in InitialRoles(a[1]) : role[2] \in Accounts(ch)
      BY DEF InitialRoles, Accounts
    <3>2. \A role \in after[a].roles : role[2] \in Accounts(ch)
      BY <2>1, <2>3, <3>1 DEF IsResult, ContractOK, GoodCall
    <3> QED
      BY <1>2, <1>5, <2>1, <2>3, <3>2 DEF IsResult, ContractOK, GoodCall
  <2> QED
    BY <1>1, <2>2, <2>3 DEF Calls
<1> QED
  BY <1>1, <1>2, <1>4, <1>6 DEF ChainOK, after

ScriptNames ==
  {"migration2", "migration3", "migration4", "migration5", "queueRootDeployment",
   "queueRootInitializations", "extractAddresses", "changeRootOwners", "changeChildOwners"}

Truffle == path = "truffle"
Moonwalker == path = "moonwalker"

\* How many steps the runbook has, and how many until the file has the addresses
\* of the root chain and of the child chain, and until the root chain's contracts
\* and the child chain's are initialized.
Final == IF Truffle THEN 6 ELSE 9
RootFiled == IF Truffle THEN 1 ELSE 3
ChildFiled == IF Truffle THEN 2 ELSE 4
RootInited == IF Truffle THEN 3 ELSE 6
ChildInited == IF Truffle THEN 4 ELSE 7

\* Where the runbook is, and on which of the two paths.
Control ==
  /\ path \in {"truffle", "moonwalker"}
  /\ next \in 1..(Final + 1)
  /\ failed \in BOOLEAN
  /\ crashes \in 0..MaxCrashes
  /\ worker \in {"down", "idle", "sent", "handled"}
  /\ Truffle => worker = "down" /\ queue = << >> /\ status = << >>
  /\ next = 1 => worker = "down" /\ status = << >>

\* Both chains are in order.
ChainsOK(ch) == DOMAIN ch = Sides /\ \A side \in Sides : ChainOK(ch[side])

\* The addresses of a book are of contracts of that name.
BookOK(book, ch) ==
  /\ DOMAIN book = Sides
  /\ \A side \in Sides : \A name \in DOMAIN book[side] :
       book[side][name] \in DOMAIN ch[side] /\ book[side][name][1] = name

\* How many steps a script has.
Length(name) ==
  CASE name = "migration2" -> 24
    [] name = "migration3" -> 9
    [] name = "migration4" -> 19
    [] name = "migration5" -> 6
    [] name = "queueRootDeployment" -> 34
    [] name = "queueRootInitializations" -> 19
    [] name = "extractAddresses" -> 1
    [] name = "changeRootOwners"  -> 21
    [] name = "changeChildOwners" -> 18

Runs(name) == script # NoScript /\ script.name = name

\* The script that runs is the runbook's, with a book of deployed contracts.
ScriptOK ==
  script # NoScript =>
    /\ DOMAIN script = {"name", "pc", "errors", "book"}
    /\ next <= Final /\ script.name = Current /\ script.name \in ScriptNames
    /\ script.pc \in 1..Length(script.name)
    /\ script.errors \in BOOLEAN
    /\ BookOK(script.book, chain)
    /\ script.name \in Readers => script.book = file
    /\ script.name = "migration3" /\ script.pc >= 3 => ChildManagerProxy \in DOMAIN script.book.child

\* The tasks of the queue: deployments, and initializations with the file's child
\* addresses.
DeployTasks == {[id |-> i - 1, step |-> QueuedDeployments[i]] : i \in 1..28}

InitTasks(book) == {[id |-> 27 + i, step |-> FixedStep(RootInitializations[i], book)] : i \in 1..19}

\* The queue holds tasks of the part of the runbook that is under way.
QueueOK ==
  /\ Moonwalker /\ next \in {1, 2} => queue \in Seq(DeployTasks)
  /\ Moonwalker /\ next \in {5, 6} => queue \in Seq(InitTasks(file))
  /\ Moonwalker /\ next \notin {1, 2, 5, 6} => queue = << >>

\* What the worker recorded of a task is what the task is.
EntryOK(id, entry, ch) ==
  /\ id \in 0..27 =>
       /\ entry.type = QueuedDeployments[id + 1].op
       /\ entry.name = QueuedDeployments[id + 1].at[2]
       /\ entry.type = "new" => entry.address \in DOMAIN ch["root"] /\ entry.address[1] = entry.name
  /\ id \notin 0..27 => entry.type = "call"

StatusOK(entries, ch) ==
  /\ DOMAIN entries \subseteq 0..46
  /\ \A id \in DOMAIN entries : EntryOK(id, entries[id], ch)

\* The worker has the task that it is at.
WorkerOK ==
  /\ worker \in {"sent", "handled"} => queue # << >>
  /\ worker = "sent" /\ Task.step.op = "new" =>
       mined \in DOMAIN chain.root /\ mined[1] = Task.step.at[2]

\* The first invariant: control, addresses and the types of everything else.
Inv1 ==
  /\ Control /\ ChainsOK(chain) /\ BookOK(file, chain) /\ ScriptOK /\ QueueOK
  /\ StatusOK(status, chain) /\ WorkerOK

-----------------------------------------------------------------------------
\* What is deployed.
RootNames ==
  {RootManagerProxy, StateSender} \cup {PredicateProxy(t) : t \in TokenType}
    \cup {RootToken(t) : t \in TokenType \ {"Ether"}}
ChildNames == {ChildManagerProxy} \cup {ChildToken(t) : t \in TokenType}
Names(side) == IF side = "root" THEN RootNames ELSE ChildNames

\* A book has all addresses of a chain, and its proxies are initialized.
Complete(book, side) ==
  /\ Names(side) \subseteq DOMAIN book[side]
  /\ \A name \in Names(side) \cap Proxies : chain[side][book[side][name]].inited

\* Migrations 2 and 3: what the script has deployed, and that it was initialized
\* unless that is what it does next.
CollectedIn(name, pc, book, ch) ==
  /\ \A j \in 1..(pc - 1) : Steps(name)[j].op = "new" => Steps(name)[j].at[2] \in DOMAIN book
  /\ \A n \in DOMAIN book \cap Proxies :
       /\ ch[book[n]].inited \/ (Steps(name)[pc].op = "call" /\ Steps(name)[pc].at[2] = n)
       /\ ch[book[n]].slots = << >>

Collected(side) == CollectedIn(script.name, script.pc, script.book[side], chain[side])

MigrationOK ==
  /\ Runs("migration2") => Collected("root")
  /\ Runs("migration3") => Collected("child") /\ DOMAIN script.book.root = {}

\* What the task of an id deploys, if it is a deployment.
NameAt(id) == QueuedDeployments[id + 1].at[2]
IsNew(id) == QueuedDeployments[id + 1].op = "new"
NewProxy(id) == IsNew(id) /\ NameAt(id) \in Proxies

InitedAt(id) == chain.root[status[id].address].inited

\* While the deployments are queued, the last tasks are those that this run has
\* queued; after that the queue ends with all of them, or what is left of them.
Queueing ==
  Moonwalker /\ Runs("queueRootDeployment") =>
    \A k \in 1..(script.pc - 7) : k <= Len(queue) /\ queue[Len(queue) - k + 1].id = script.pc - 7 - k

\* The queue ends with the last tasks.
Queued ==
  Moonwalker /\ next = 2 => \A k \in 0..27 : k < Len(queue) => queue[Len(queue) - k].id = 27 - k

\* What the worker is done with was recorded, and a proxy was initialized.
Deploying ==
  Moonwalker /\ next = 2 =>
    /\ \A id \in 0..27 : IsNew(id) => id \in DOMAIN status \/ Len(queue) > 27 - id
    /\ worker = "handled" /\ Task.step.op = "new" => Task.id \in DOMAIN status

Initializing ==
  Moonwalker /\ next = 2 =>
    /\ \A id \in 0..27 : NewProxy(id) /\ id \in DOMAIN status => InitedAt(id) \/ Len(queue) > 26 - id
    /\ \A id \in 1..27 :
         /\ worker \in {"sent", "handled"} /\ Task.id = id + 1 /\ NewProxy(id)
         /\ id \in DOMAIN status /\ id - 1 \in DOMAIN status
         => InitedAt(id)

\* The worker has recorded every deployment, and initialized what it recorded.
AllDeployed ==
  Moonwalker /\ next > 2 =>
    \A id \in 0..27 : IsNew(id) => id \in DOMAIN status /\ (NewProxy(id) => InitedAt(id))

\* The file has the addresses that the worker recorded.
RootFile ==
  Moonwalker /\ next > 3 =>
    \A id \in 0..27 : IsNew(id) => NameAt(id) \in DOMAIN file.root /\ file.root[NameAt(id)] = status[id].address

DeploymentsQueued == Queueing /\ Queued /\ Deploying /\ Initializing /\ AllDeployed /\ RootFile

\* The file has all addresses of a chain once the step that writes them is done.
FileReady ==
  /\ next > RootFiled => Complete(file, "root")
  /\ next > ChildFiled => Complete(file, "child")

\* On mainnet nothing of the root chain's is given away before the end.
RootKept ==
  Moonwalker /\ next < 8 =>
    \A a \in DOMAIN chain.root :
      /\ a[1] \in Proxies => chain.root[a].proxyOwner = Deployer
      /\ a[1] \in Proxies /\ chain.root[a].inited => InitialRoles(a[1]) \subseteq chain.root[a].roles
      /\ a[1] = RootToken("MintableERC721") => Has(chain.root[a], "DEFAULT_ADMIN")
      /\ next < 5 => chain.root[a].slots = << >>

\* The second invariant: what is deployed, recorded and filed.
Inv2 == MigrationOK /\ DeploymentsQueued /\ FileReady /\ RootKept

-----------------------------------------------------------------------------
\* Who owns the contracts.
Admin(c) == <<"DEFAULT_ADMIN", NewOwner>> \in c.roles
HasOwner ==
  \A side \in Sides : \A a \in DOMAIN chain[side] :
    a[1] \in OwnedNames(side) /\ (a[1] \in Proxies => chain[side][a].inited)
      => Has(chain[side][a], "DEFAULT_ADMIN") \/ Admin(chain[side][a])

\* The contracts of a chain in the order in which they are given away, and the
\* script that does it.
Owners == [root |-> OwnedRoot, child |-> OwnedChild]
ChangeOf == [root |-> "changeRootOwners", child |-> "changeChildOwners"]
GivenTo(c) == Admin(c) /\ ~Has(c, "DEFAULT_ADMIN") /\ c.proxyOwner # Deployer

\* The deployer's role is revoked only where the new owner has it.
RevokeOK ==
  \A side \in Sides : Runs(ChangeOf[side]) =>
    \A k \in DOMAIN Owners[side] : script.pc = 3 * k /\ Owners[side][k] \in DOMAIN file[side] =>
       LET c == chain[side][file[side][Owners[side][k]]]
       IN  Has(c, "DEFAULT_ADMIN") /\ (Owners[side][k] \in Proxies => c.inited) => Admin(c)

\* What the change of owners has done so far without an error, and what it leaves.
Handed ==
  \A side \in Sides :
    /\ Runs(ChangeOf[side]) /\ ~script.errors =>
       \A k \in DOMAIN Owners[side] :
         LET c == chain[side][file[side][Owners[side][k]]]
         IN  /\ script.pc > 3 * k - 2 => c.proxyOwner # Deployer
             /\ script.pc > 3 * k - 1 => Admin(c)
             /\ script.pc > 3 * k => ~Has(c, "DEFAULT_ADMIN")
    /\ next > (IF side = "root" THEN Final - 1 ELSE Final) =>
       \A k \in DOMAIN Owners[side] : GivenTo(chain[side][file[side][Owners[side][k]]])

\* The third invariant: nobody loses a contract.
Inv3 == HasOwner /\ RevokeOK /\ Handed

\* The steps of the two runbooks.
LEMMA RunbookIs ==
  /\ DOMAIN Runbook = {"truffle", "moonwalker"}
  /\ Len(Runbook["truffle"]) = 6 /\ Len(Runbook["moonwalker"]) = 9
  /\ Runbook["truffle"][1] = "migration2" /\ Runbook["truffle"][2] = "migration3"
  /\ Runbook["truffle"][3] = "migration4" /\ Runbook["truffle"][4] = "migration5"
  /\ Runbook["truffle"][5] = "changeRootOwners" /\ Runbook["truffle"][6] = "changeChildOwners"
  /\ Runbook["moonwalker"][1] = "queueRootDeployment" /\ Runbook["moonwalker"][2] = "processQueue"
  /\ Runbook["moonwalker"][3] = "extractAddresses" /\ Runbook["moonwalker"][4] = "migration3"
  /\ Runbook["moonwalker"][5] = "queueRootInitializations" /\ Runbook["moonwalker"][6] = "processQueue"
  /\ Runbook["moonwalker"][7] = "migration5"
  /\ Runbook["moonwalker"][8] = "changeRootOwners" /\ Runbook["moonwalker"][9] = "changeChildOwners"
BY DEF Runbook

\* Where in the runbooks a script is.
LEMMA CurrentIs ==
  ASSUME Control
  PROVE  /\ Len(Runbook[path]) = Final /\ (Done <=> next > Final)
         /\ next <= Final =>
              /\ Current = "processQueue" \/ Current \in ScriptNames
              /\ Current = "migration2" => Truffle /\ next = 1
              /\ Current = "migration3" => IF Truffle THEN next = 2 ELSE next = 4
              /\ Current = "migration4" => Truffle /\ next = 3
              /\ Current = "migration5" => IF Truffle THEN next = 4 ELSE next = 7
              /\ Current = "queueRootDeployment" => Moonwalker /\ next = 1
              /\ Current = "processQueue" => Moonwalker /\ next \in {2, 6}
              /\ Current = "extractAddresses" => Moonwalker /\ next = 3
              /\ Current = "queueRootInitializations" => Moonwalker /\ next = 5
              /\ Current = "changeRootOwners" => next = Final - 1
              /\ Current = "changeChildOwners" => next = Final
              /\ Moonwalker /\ next \in {2, 6} => Current = "processQueue"
<1>1. CASE path = "truffle"
  <2>1. next <= 6 => next \in {1, 2, 3, 4, 5, 6}
    BY DEF Control
  <2> QED
    BY <1>1, <2>1, RunbookIs DEF Control, Final, Truffle, Moonwalker, Done, Current, ScriptNames
<1>2. CASE path = "moonwalker"
  <2>1. next <= 9 => next \in {1, 2, 3, 4, 5, 6, 7, 8, 9}
    BY DEF Control
  <2> QED
    BY <1>2, <2>1, RunbookIs DEF Control, Final, Truffle, Moonwalker, Done, Current, ScriptNames
<1> QED
  BY <1>1, <1>2 DEF Control

StepSet(name) ==
  CASE name = "migration2" -> RootDeploys \cup {WriteAddresses}
    [] name = "migration3" -> ChildDeploys \cup {WriteAddresses}
    [] name = "migration4" -> RootInits
    [] name = "migration5" -> ChildInits
    [] name = "queueRootDeployment" -> RootDeploys \cup TasksOf(0, 28, RootDeploys \cup LibraryDeploys)
    [] name = "queueRootInitializations" -> TasksOf(28, 19, RootInits)
    [] name = "extractAddresses" -> {ExtractAddresses}
    [] name = "changeRootOwners"  -> OwnerSteps("root", OwnedNames("root"))
    [] name = "changeChildOwners" -> OwnerSteps("child", OwnedNames("child"))

\* The steps of the two scripts that change the owners.
LEMMA OwnersAt ==
  /\ Steps("changeRootOwners") = ChangeOwners([i \in 1..7 |-> <<"root", OwnedRoot[i]>>])
  /\ Steps("changeChildOwners") = ChangeOwners([i \in 1..6 |-> <<"child", OwnedChild[i]>>])
<1>1. DOMAIN OwnedRoot = 1..7 /\ DOMAIN OwnedChild = 1..6
  BY OwnedLists DEF Listed
<1> QED
  BY <1>1 DEF Steps, Root, Child

\* How many steps every script has, and of which kind they are.
LEMMA StepsAt ==
  ASSUME NEW name \in ScriptNames
  PROVE  Listed(Steps(name), Length(name), StepSet(name))
<1>1. CASE name = "migration2"
  <2>1. Steps(name) = Migration2 /\ Length(name) = 24 /\ StepSet(name) = RootDeploys \cup {WriteAddresses}
    BY <1>1 DEF Steps, Length, StepSet
  <2> QED
    BY <2>1, Migration2At
<1>2. CASE name = "migration3"
  <2>1. Steps(name) = Migration3 /\ Length(name) = 9 /\ StepSet(name) = ChildDeploys \cup {WriteAddresses}
    BY <1>2 DEF Steps, Length, StepSet
  <2> QED
    BY <2>1, Migration3At
<1>3. CASE name = "migration4"
  <2>1. Steps(name) = RootInitializations /\ Length(name) = 19 /\ StepSet(name) = RootInits
    BY <1>3 DEF Steps, Length, StepSet, Migration4
  <2> QED
    BY <2>1, InitsAt DEF Listed
<1>4. CASE name = "migration5"
  <2>1. Steps(name) = Migration5 /\ Length(name) = 6 /\ StepSet(name) = ChildInits
    BY <1>4 DEF Steps, Length, StepSet
  <2> QED
    BY <2>1, Migration5At
<1>5. CASE name = "queueRootDeployment"
  <2>1. /\ Steps(name) = QueueRootDeployment /\ Length(name) = 34
        /\ StepSet(name) = RootDeploys \cup TasksOf(0, 28, RootDeploys \cup LibraryDeploys)
    BY <1>5 DEF Steps, Length, StepSet
  <2> QED
    BY <2>1, QueueRootDeploymentAt
<1>6. CASE name = "queueRootInitializations"
  <2>1. /\ Steps(name) = QueueRootInitializations /\ Length(name) = 19
        /\ StepSet(name) = TasksOf(28, 19, RootInits)
    BY <1>6 DEF Steps, Length, StepSet
  <2> QED
    BY <2>1, QueueRootInitializationsAt
<1>7. CASE name = "extractAddresses"
  <2>1. Steps(name) = <<ExtractAddresses>> /\ Length(name) = 1 /\ StepSet(name) = {ExtractAddresses}
    BY <1>7 DEF Steps, Length, StepSet
  <2> QED
    BY <2>1 DEF Listed
<1>8. CASE name = "changeRootOwners"
  <2>1. Length(name) = 21 /\ StepSet(name) = OwnerSteps("root", OwnedNames("root"))
    BY <1>8 DEF Length, StepSet
  <2>2. Listed(OwnedRoot, 7, OwnedNames("root"))
    BY OwnedLists
  <2> DEFINE steps == ChangeOwners([i \in 1..7 |-> <<"root", OwnedRoot[i]>>])
  <2>4. 7 \in Nat \ {0}
    OBVIOUS
  <2>5. Listed(steps, 3 * 7, OwnerSteps("root", OwnedNames("root")))
    BY ONLY <2>2, <2>4, ChangeOwnersAt
  <2>6. Steps(name) = steps
    BY <1>8, OwnersAt
  <2> HIDE DEF steps
  <2>3. Listed(Steps(name), 3 * 7, OwnerSteps("root", OwnedNames("root")))
    BY <2>5, <2>6
  <2> QED
    BY <2>1, <2>3
<1>9. CASE name = "changeChildOwners"
  <2>1. Length(name) = 18 /\ StepSet(name) = OwnerSteps("child", OwnedNames("child"))
    BY <1>9 DEF Length, StepSet
  <2>2. Listed(OwnedChild, 6, OwnedNames("child"))
    BY OwnedLists
  <2> DEFINE steps == ChangeOwners([i \in 1..6 |-> <<"child", OwnedChild[i]>>])
  <2>4. 6 \in Nat \ {0}
    OBVIOUS
  <2>5. Listed(steps, 3 * 6, OwnerSteps("child", OwnedNames("child")))
    BY ONLY <2>2, <2>4, ChangeOwnersAt
  <2>6. Steps(name) = steps
    BY <1>9, OwnersAt
  <2> HIDE DEF steps
  <2>3. Listed(Steps(name), 3 * 6, OwnerSteps("child", OwnedNames("child")))
    BY <2>5, <2>6
  <2> QED
    BY <2>1, <2>3
<1> QED
  BY <1>1, <1>2, <1>3, <1>4, <1>5, <1>6, <1>7, <1>8, <1>9 DEF ScriptNames

-----------------------------------------------------------------------------
\* The shape of a transaction.
StepOK(step) ==
  /\ step.at = <<step.at[1], step.at[2]>> /\ step.at[1] \in Sides
  /\ step.op \in {"new", "call", "try"}
  /\ step.op = "new" /\ step.at[2] \in ChildTokens =>
       step.at[1] = "child" /\ step.args = <<Child(ChildManagerProxy)>>
  /\ step.op # "new" =>
       /\ step.method \in Methods
       /\ step.method = "updateAndCall" => 1 \in DOMAIN step.args /\ step.args[1][1] = step.at[1]
       /\ step.method = "grantRole" =>
            /\ 2 \in DOMAIN step.args
            /\ \/ step.args[2] \in {Value(NewOwner), Value(StateReceiver)}
               \/ step.args[2][1] = step.at[1]

\* A deployment of a script can be sent.
LEMMA NewOK ==
  ASSUME NEW side \in Sides, NEW name, NEW args,
         name \in ChildTokens => side = "child" /\ args = <<Child(ChildManagerProxy)>>
  PROVE  StepOK(New(<<side, name>>, args))
BY DEF StepOK, New

\* A call of a script can be sent.
LEMMA CallOK ==
  ASSUME NEW side \in Sides, NEW name, NEW method \in Methods, NEW args, NEW more,
         method = "updateAndCall" => 1 \in DOMAIN args /\ args[1][1] = side,
         method = "grantRole" =>
            /\ 2 \in DOMAIN args
            /\ \/ args[2] \in {Value(NewOwner), Value(StateReceiver)}
               \/ args[2][1] = side
  PROVE  StepOK(Call(<<side, name>>, method, args)) /\ StepOK(Try(<<side, name>>, method, args, more))
<1>1. StepOK(Call(<<side, name>>, method, args))
  BY DEF StepOK, Call
<1>2. StepOK(Try(<<side, name>>, method, args, more))
  BY DEF StepOK, Try
<1> QED
  BY <1>1, <1>2

\* The deployments of the root chain can be sent.
LEMMA RootDeploysOK ==
  \A s \in RootDeploys : StepOK(s) /\ s.op \in {"new", "call"} /\ s.at[1] = "root"
<1> SUFFICES ASSUME NEW s \in RootDeploys
             PROVE  StepOK(s) /\ s.op \in {"new", "call"} /\ s.at[1] = "root"
  OBVIOUS
<1>1. ASSUME NEW name, name \notin ChildTokens
      PROVE  LET n == New(Root(name), << >>) IN StepOK(n) /\ n.op = "new" /\ n.at[1] = "root"
  <2>1. StepOK(New(<<"root", name>>, << >>))
    BY <1>1, NewOK DEF Sides
  <2> QED
    BY <2>1 DEF New, Root
<1>2. ASSUME NEW name, NEW code
      PROVE  LET n == Call(Root(name), "updateAndCall", <<Root(code)>>)
             IN  StepOK(n) /\ n.op = "call" /\ n.at[1] = "root"
  <2> DEFINE args == <<Root(code)>>
  <2>2. 1 \in DOMAIN args /\ args[1][1] = "root" /\ "updateAndCall" \in Methods /\ "root" \in Sides
    BY DEF Root, Methods, Sides
  <2> HIDE DEF args
  <2>1. StepOK(Call(<<"root", name>>, "updateAndCall", args))
    BY <2>2, CallOK
  <2> QED
    BY <2>1 DEF Call, Root, args
<1>3. /\ RootManager \notin ChildTokens /\ RootManagerProxy \notin ChildTokens /\ StateSender \notin ChildTokens
      /\ \A t \in TokenType : /\ Predicate(t) \notin ChildTokens /\ PredicateProxy(t) \notin ChildTokens
                              /\ RootToken(t) \notin ChildTokens
  BY DEF ChildTokens, ChildToken, RootManager, RootManagerProxy, StateSender, Predicate, PredicateProxy, RootToken
<1>4. CASE s \in {New(Root(RootManager), << >>), New(Root(RootManagerProxy), << >>), New(Root(StateSender), << >>)}
  BY <1>1, <1>3, <1>4
<1>5. CASE s \in {New(Root(Predicate(t)), << >>) : t \in TokenType}
            \cup {New(Root(PredicateProxy(t)), << >>) : t \in TokenType}
            \cup {New(Root(RootToken(t)), << >>) : t \in TokenType}
  BY <1>1, <1>3, <1>5
<1>6. CASE s \in {Call(Root(RootManagerProxy), "updateAndCall", <<Root(RootManager)>>)}
            \cup {Call(Root(PredicateProxy(t)), "updateAndCall", <<Root(Predicate(t))>>) : t \in TokenType}
  BY <1>2, <1>6
<1> QED
  BY <1>4, <1>5, <1>6 DEF RootDeploys

\* The deployments of the libraries can be sent.
LEMMA LibraryDeploysOK ==
  \A s \in LibraryDeploys : StepOK(s) /\ s.op = "new" /\ s.at[1] = "root"
<1> SUFFICES ASSUME NEW lib PROVE LET n == New(Root(<<lib, "library">>), << >>)
                                  IN  StepOK(n) /\ n.op = "new" /\ n.at[1] = "root"
  BY DEF LibraryDeploys
<1>1. <<lib, "library">> \notin ChildTokens
  BY DEF ChildTokens, ChildToken
<1>2. StepOK(New(<<"root", <<lib, "library">>>>, << >>))
  BY <1>1, NewOK DEF Sides
<1> QED
  BY <1>2 DEF New, Root

\* The deployments of the child chain can be sent.
LEMMA ChildDeploysOK ==
  \A s \in ChildDeploys : StepOK(s) /\ s.op \in {"new", "call"} /\ s.at[1] = "child"
<1> SUFFICES ASSUME NEW s \in ChildDeploys
             PROVE  StepOK(s) /\ s.op \in {"new", "call"} /\ s.at[1] = "child"
  OBVIOUS
<1>1. ChildManager \notin ChildTokens /\ ChildManagerProxy \notin ChildTokens
  BY DEF ChildTokens, ChildToken, ChildManager, ChildManagerProxy
<1>2. CASE s \in {New(Child(ChildManager), << >>), New(Child(ChildManagerProxy), << >>)}
  <2>1. StepOK(New(<<"child", ChildManager>>, << >>)) /\ StepOK(New(<<"child", ChildManagerProxy>>, << >>))
    BY <1>1, NewOK DEF Sides
  <2> QED
    BY <1>2, <2>1 DEF New, Child
<1>3. CASE s = Call(Child(ChildManagerProxy), "updateAndCall", <<Child(ChildManager)>>)
  <2> DEFINE args == <<Child(ChildManager)>>
  <2>2. 1 \in DOMAIN args /\ args[1][1] = "child" /\ "updateAndCall" \in Methods /\ "child" \in Sides
    BY DEF Child, Methods, Sides
  <2> HIDE DEF args
  <2>1. StepOK(Call(<<"child", ChildManagerProxy>>, "updateAndCall", args))
    BY <2>2, CallOK
  <2> QED
    BY <1>3, <2>1 DEF Call, Child, args
<1>4. CASE s \in {New(Child(ChildToken(t)), <<Child(ChildManagerProxy)>>) : t \in TokenType}
  <2>1. PICK t \in TokenType : s = New(Child(ChildToken(t)), <<Child(ChildManagerProxy)>>)
    BY <1>4
  <2>2. StepOK(New(<<"child", ChildToken(t)>>, <<Child(ChildManagerProxy)>>))
    BY NewOK DEF Sides
  <2> QED
    BY <2>1, <2>2 DEF New, Child
<1> QED
  BY <1>2, <1>3, <1>4 DEF ChildDeploys

\* The initializations of the root chain can be sent.
LEMMA RootInitsOK ==
  \A s \in RootInits : StepOK(s) /\ s.op = "call" /\ s.at[1] = "root"
<1> SUFFICES ASSUME NEW s \in RootInits PROVE StepOK(s) /\ s.op = "call" /\ s.at[1] = "root"
  OBVIOUS
<1>1. ASSUME NEW name, NEW method \in Methods, NEW args, method \notin {"updateAndCall", "grantRole"}
      PROVE  LET c == Call(Root(name), method, args) IN StepOK(c) /\ c.op = "call" /\ c.at[1] = "root"
  <2>1. StepOK(Call(<<"root", name>>, method, args))
    BY <1>1, CallOK DEF Sides
  <2> QED
    BY <2>1 DEF Call, Root
<1>2. ASSUME NEW name, NEW role, NEW to
      PROVE  LET c == Call(Root(name), "grantRole", <<Value(role), Root(to)>>)
             IN  StepOK(c) /\ c.op = "call" /\ c.at[1] = "root"
  <2> DEFINE args == <<Value(role), Root(to)>>
  <2>2. 2 \in DOMAIN args /\ args[2][1] = "root" /\ "grantRole" \in Methods /\ "root" \in Sides
    BY DEF Root, Methods, Sides
  <2> HIDE DEF args
  <2>1. StepOK(Call(<<"root", name>>, "grantRole", args))
    BY <2>2, CallOK
  <2> QED
    BY <2>1 DEF Call, Root, args
<1>3. CASE s \in {ManagerSettings[1], ManagerSettings[2], ManagerSettings[3]}
  BY <1>1, <1>3 DEF ManagerSettings, Methods
<1>4. CASE s = GrantPredicate
  BY <1>2, <1>4 DEF GrantPredicate
<1>5. CASE s \in {GrantManager(t) : t \in TokenType}
  <2>1. PICK t \in TokenType : s = GrantManager(t)
    BY <1>5
  <2> QED
    BY <1>2, <2>1 DEF GrantManager
<1>6. CASE s \in {Register(t) : t \in TokenType} \cup {MapOf(t) : t \in TokenType}
  <2>1. "registerPredicate" \in Methods /\ "mapRootToken" \in Methods
    BY DEF Methods
  <2>2. ASSUME NEW t \in TokenType, s = Register(t) PROVE StepOK(s) /\ s.op = "call" /\ s.at[1] = "root"
    BY <1>1, <2>1, <2>2 DEF Register
  <2>3. ASSUME NEW t \in TokenType, s = MapOf(t) PROVE StepOK(s) /\ s.op = "call" /\ s.at[1] = "root"
    BY <1>1, <2>1, <2>3 DEF MapOf
  <2> QED
    BY <1>6, <2>2, <2>3
<1> QED
  BY <1>3, <1>4, <1>5, <1>6 DEF RootInits

\* The initializations of the child chain can be sent.
LEMMA ChildInitsOK ==
  \A s \in ChildInits : StepOK(s) /\ s.op = "call" /\ s.at[1] = "child"
<1> SUFFICES ASSUME NEW s \in ChildInits PROVE StepOK(s) /\ s.op = "call" /\ s.at[1] = "child"
  OBVIOUS
<1>1. CASE s = GrantSyncer
  <2> DEFINE args == <<Value("STATE_SYNCER"), Value(StateReceiver)>>
  <2>2. /\ 2 \in DOMAIN args /\ args[2] \in {Value(NewOwner), Value(StateReceiver)}
        /\ "grantRole" \in Methods /\ "child" \in Sides
    BY DEF Methods, Sides
  <2> HIDE DEF args
  <2>1. StepOK(Call(<<"child", ChildManagerProxy>>, "grantRole", args))
    BY <2>2, CallOK
  <2> QED
    BY <1>1, <2>1 DEF Call, Child, GrantSyncer, args
<1>2. CASE s \in {MapChild(t) : t \in TokenType}
  <2>1. PICK t \in TokenType : s = MapChild(t)
    BY <1>2
  <2>2. StepOK(Call(<<"child", ChildManagerProxy>>, "mapChildToken", <<RootTokenOf(t), Child(ChildToken(t))>>))
    BY CallOK DEF Sides, Methods
  <2> QED
    BY <2>1, <2>2 DEF Call, Child, MapChild
<1> QED
  BY <1>1, <1>2 DEF ChildInits

\* The steps of a change of owners can be sent.
LEMMA OwnerStepsOK ==
  ASSUME NEW side \in Sides, NEW names, NEW s \in OwnerSteps(side, names)
  PROVE  StepOK(s) /\ s.op = "try" /\ s.at[1] = side /\ s.at[2] \in names /\ s.more \in {0, 1}
<1> DEFINE transfer == <<Value(NewOwner)>>
           grant == <<Value("DEFAULT_ADMIN"), Value(NewOwner)>>
           revoke == <<Value("DEFAULT_ADMIN"), Value(Deployer)>>
<1>1. 2 \in DOMAIN grant /\ grant[2] \in {Value(NewOwner), Value(StateReceiver)}
  OBVIOUS
<1>2. /\ "grantRole" \in Methods /\ "revokeRole" \in Methods /\ "transferProxyOwnership" \in Methods
  BY DEF Methods
<1>3. PICK name \in names : \/ s = Try(<<side, name>>, "transferProxyOwnership", transfer, 0)
                            \/ s = Try(<<side, name>>, "grantRole", grant, 1)
                            \/ s = Try(<<side, name>>, "revokeRole", revoke, 0)
  BY DEF OwnerSteps
<1> HIDE DEF transfer, grant, revoke
<1>4. StepOK(s)
  BY <1>1, <1>2, <1>3, CallOK
<1> QED
  BY <1>3, <1>4 DEF Try

\* What kinds of steps a script has.
KindOK(name, pc, s) ==
  /\ s.op \in {"new", "call", "try", "queue", "write", "extract"}
  /\ s.op \in {"new", "call", "try"} => StepOK(s)
  /\ s.op = "new" => /\ name \in {"migration2", "migration3", "queueRootDeployment"}
                     /\ name # "migration3" => s.at[1] = "root"
                     /\ name = "migration3" => s.at[1] = "child"
                     /\ s.at[2] \in ChildTokens => name = "migration3" /\ pc >= 3
  /\ s.op = "call" => /\ name \in {"migration2", "migration3", "migration4", "migration5"}
                      /\ name \in {"migration2", "migration4"} => s.at[1] = "root"
                      /\ name \in {"migration3", "migration5"} => s.at[1] = "child"
  /\ s.op = "try" => /\ name \in {"changeRootOwners", "changeChildOwners"} /\ s.more \in {0, 1}
                     /\ s.at[1] = IF name = "changeRootOwners" THEN "root" ELSE "child"
  /\ s.op = "write" => name \in {"migration2", "migration3"}
  /\ s.op = "extract" => name = "extractAddresses"
  /\ s.op = "queue" => name \in {"queueRootDeployment", "queueRootInitializations"}

\* No token of the child chain is deployed on the root chain.
LEMMA RootDeploysNamed == \A s \in RootDeploys \cup LibraryDeploys : s.at[2] \notin ChildTokens
<1>1. /\ RootManager \notin ChildTokens /\ RootManagerProxy \notin ChildTokens /\ StateSender \notin ChildTokens
      /\ \A t \in TokenType : /\ Predicate(t) \notin ChildTokens /\ PredicateProxy(t) \notin ChildTokens
                              /\ RootToken(t) \notin ChildTokens
      /\ \A lib : <<lib, "library">> \notin ChildTokens
  BY DEF ChildTokens, ChildToken, RootManager, RootManagerProxy, StateSender, Predicate, PredicateProxy, RootToken
<1>2. \A s \in RootDeploys : s.at[2] \notin ChildTokens
  <2> SUFFICES ASSUME NEW s \in RootDeploys PROVE s.at[2] \notin ChildTokens
    OBVIOUS
  <2>1. ASSUME NEW name PROVE New(Root(name), << >>).at[2] = name
    BY DEF New, Root
  <2>2. ASSUME NEW name, NEW m, NEW args PROVE Call(Root(name), m, args).at[2] = name
    BY DEF Call, Root
  <2>3. CASE s \in {New(Root(RootManager), << >>), New(Root(RootManagerProxy), << >>), New(Root(StateSender), << >>)}
    BY <1>1, <2>1, <2>3
  <2>4. CASE s \in {New(Root(Predicate(t)), << >>) : t \in TokenType}
              \cup {New(Root(PredicateProxy(t)), << >>) : t \in TokenType}
              \cup {New(Root(RootToken(t)), << >>) : t \in TokenType}
    BY <1>1, <2>1, <2>4
  <2>5. CASE s \in {Call(Root(RootManagerProxy), "updateAndCall", <<Root(RootManager)>>)}
              \cup {Call(Root(PredicateProxy(t)), "updateAndCall", <<Root(Predicate(t))>>) : t \in TokenType}
    <3>1. s = Call(Root(RootManagerProxy), "updateAndCall", <<Root(RootManager)>>)
            \/ \E t \in TokenType : s = Call(Root(PredicateProxy(t)), "updateAndCall", <<Root(Predicate(t))>>)
      BY <2>5
    <3>2. ASSUME NEW t \in TokenType, s = Call(Root(PredicateProxy(t)), "updateAndCall", <<Root(Predicate(t))>>)
          PROVE  s.at[2] = PredicateProxy(t)
      BY <2>2, <3>2
    <3>3. s = Call(Root(RootManagerProxy), "updateAndCall", <<Root(RootManager)>>) => s.at[2] = RootManagerProxy
      BY <2>2
    <3> QED
      BY <1>1, <3>1, <3>2, <3>3
  <2> QED
    BY <2>3, <2>4, <2>5 DEF RootDeploys
<1>3. \A s \in LibraryDeploys : s.at[2] \notin ChildTokens
  BY <1>1 DEF LibraryDeploys, New, Root
<1> QED
  BY <1>2, <1>3

\* What every step of every script is.
LEMMA StepKind ==
  ASSUME NEW name \in ScriptNames, NEW pc \in 1..Length(name)
  PROVE  KindOK(name, pc, Steps(name)[pc])
<1> DEFINE s == Steps(name)[pc]
<1>1. s \in StepSet(name)
  <2>1. Length(name) \in Nat
    BY DEF Length, ScriptNames
  <2> QED
    BY <2>1, StepsAt, ListedAt
<1>2. WriteAddresses.op = "write" /\ ExtractAddresses.op = "extract"
  BY DEF WriteAddresses, ExtractAddresses
<1> SUFFICES KindOK(name, pc, s)
  OBVIOUS
<1> HIDE DEF s
<1>3. CASE name = "migration2"
  <2>1. s \in RootDeploys \cup {WriteAddresses}
    BY <1>1, <1>3 DEF StepSet
  <2> QED
    BY <1>2, <1>3, <2>1, RootDeploysOK, RootDeploysNamed DEF KindOK
<1>4. CASE name = "migration3"
  <2>1. s \in ChildDeploys \cup {WriteAddresses}
    BY <1>1, <1>4 DEF StepSet
  <2>2. ASSUME s.at[2] \in ChildTokens, s.op = "new" PROVE pc >= 3
    <3>1. pc \in 1..9
      BY <1>4 DEF Length
    <3>2. pc = 1 => s.at[2] = ChildManager
      BY <1>4, Migration3At DEF s, Steps, New, Child
    <3>3. pc = 2 => s.at[2] = ChildManagerProxy
      BY <1>4, Migration3At DEF s, Steps, New, Child
    <3>4. ChildManager \notin ChildTokens /\ ChildManagerProxy \notin ChildTokens
      BY DEF ChildTokens, ChildToken, ChildManager, ChildManagerProxy
    <3> QED
      BY <2>2, <3>1, <3>2, <3>3, <3>4
  <2> QED
    BY <1>2, <1>4, <2>1, <2>2, ChildDeploysOK DEF KindOK
<1>5. CASE name = "migration4"
  <2>1. s \in RootInits
    BY <1>1, <1>5 DEF StepSet
  <2> QED
    BY <1>5, <2>1, RootInitsOK DEF KindOK
<1>6. CASE name = "migration5"
  <2>1. s \in ChildInits
    BY <1>1, <1>6 DEF StepSet
  <2> QED
    BY <1>6, <2>1, ChildInitsOK DEF KindOK
<1>7. CASE name = "queueRootDeployment"
  <2>1. pc \in 1..34
    BY <1>7 DEF Length
  <2>2. pc \in 1..6 => s \in RootDeploys /\ s.op = "new"
    BY <1>7, QueueRootDeploymentAt DEF s, Steps
  <2>3. ASSUME pc \notin 1..6 PROVE s.op = "queue"
    <3>1. pc - 6 \in 1..28 /\ 6 + (pc - 6) = pc
      BY <2>1, <2>3
    <3>2. s = Queue((pc - 6) - 1, QueuedDeployments[pc - 6])
      BY <1>7, <3>1, QueueRootDeploymentAt DEF s, Steps
    <3> QED
      BY <3>2 DEF Queue
  <2> QED
    BY <1>7, <2>2, <2>3, RootDeploysOK, RootDeploysNamed DEF KindOK
<1>8. CASE name = "queueRootInitializations"
  <2>1. s = Queue(27 + pc, RootInitializations[pc])
    BY <1>8, QueueRootInitializationsAt DEF s, Steps, Length
  <2> QED
    BY <1>8, <2>1 DEF KindOK, Queue
<1>9. CASE name = "extractAddresses"
  <2>1. s = ExtractAddresses
    BY <1>1, <1>9 DEF StepSet
  <2> QED
    BY <1>2, <1>9, <2>1 DEF KindOK
<1>10. CASE name = "changeRootOwners"
  <2>1. s \in OwnerSteps("root", OwnedNames("root"))
    BY <1>1, <1>10 DEF StepSet
  <2> QED
    BY <1>10, <2>1, OwnerStepsOK DEF KindOK, Sides
<1>11. CASE name = "changeChildOwners"
  <2>1. s \in OwnerSteps("child", OwnedNames("child"))
    BY <1>1, <1>11 DEF StepSet
  <2> QED
    BY <1>11, <2>1, OwnerStepsOK DEF KindOK, Sides
<1> QED
  BY <1>3, <1>4, <1>5, <1>6, <1>7, <1>8, <1>9, <1>10, <1>11 DEF ScriptNames

\* What is queued: the deployments name no contract of the child chain, so that
\* fixing the addresses leaves them as they are.
LEMMA DeploymentsFixed ==
  ASSUME NEW s \in RootDeploys \cup LibraryDeploys, NEW book
  PROVE  FixedStep(s, book) = s
<1>1. ASSUME NEW ref PROVE FixedStep(New(ref, << >>), book) = New(ref, << >>)
  <2>1. New(ref, << >>).args = << >> /\ DOMAIN << >> = {}
    BY DEF New
  <2>2. [i \in DOMAIN << >> |-> Fixed(<< >>[i], book)] = << >>
    OBVIOUS
  <2> QED
    BY <2>1, <2>2 DEF FixedStep, New
<1>2. ASSUME NEW ref, NEW name
      PROVE  FixedStep(Call(ref, "updateAndCall", <<Root(name)>>), book) = Call(ref, "updateAndCall", <<Root(name)>>)
  <2>1. Fixed(Root(name), book) = Root(name)
    BY DEF Fixed, Root
  <2>2. [i \in DOMAIN <<Root(name)>> |-> Fixed(<<Root(name)>>[i], book)] = <<Root(name)>>
    BY <2>1
  <2>3. Call(ref, "updateAndCall", <<Root(name)>>).args = <<Root(name)>>
    BY DEF Call
  <2> HIDE DEF Fixed
  <2> QED
    BY <2>2, <2>3 DEF FixedStep, Call
<1> QED
  BY <1>1, <1>2 DEF RootDeploys, LibraryDeploys

\* The task that a step of a queueing script puts in the queue.
LEMMA QueuedSteps ==
  ASSUME NEW name \in ScriptNames, NEW pc \in 1..Length(name), NEW book,
         Steps(name)[pc].op = "queue"
  PROVE  LET s == Steps(name)[pc]
             task == [id |-> s.id, step |-> FixedStep(s.step, book)]
         IN  /\ name = "queueRootDeployment" =>
                  pc \in 7..34 /\ task = [id |-> pc - 7, step |-> QueuedDeployments[pc - 6]]
             /\ name = "queueRootInitializations" =>
                  pc \in 1..19 /\ task = [id |-> 27 + pc, step |-> FixedStep(RootInitializations[pc], book)]
<1> DEFINE s == Steps(name)[pc]
<1>1. CASE name = "queueRootDeployment"
  <2>1. pc \in 1..34
    BY <1>1 DEF Length
  <2>2. pc \in 1..6 => s.op = "new"
    BY <1>1, QueueRootDeploymentAt DEF Steps
  <2>3. pc \in 7..34 /\ pc - 6 \in 1..28 /\ 6 + (pc - 6) = pc /\ (pc - 6) - 1 = pc - 7
    BY <2>1, <2>2
  <2>4. s = Queue((pc - 6) - 1, QueuedDeployments[pc - 6])
    BY <1>1, <2>3, QueueRootDeploymentAt DEF Steps
  <2>5. QueuedDeployments[pc - 6] \in RootDeploys \cup LibraryDeploys
    BY <2>3, QueuedAt, ListedAt
  <2>6. FixedStep(QueuedDeployments[pc - 6], book) = QueuedDeployments[pc - 6]
    BY <2>5, DeploymentsFixed
  <2>7. s.id = pc - 7 /\ s.step = QueuedDeployments[pc - 6]
    BY <2>3, <2>4 DEF Queue
  <2> HIDE DEF s
  <2> QED
    BY <1>1, <2>3, <2>6, <2>7 DEF s
<1>2. CASE name = "queueRootInitializations"
  <2>1. s = Queue(27 + pc, RootInitializations[pc]) /\ pc \in 1..19
    BY <1>2, QueueRootInitializationsAt DEF Steps, Length
  <2>2. s.id = 27 + pc /\ s.step = RootInitializations[pc]
    BY <2>1 DEF Queue
  <2> QED
    BY <1>2, <2>1, <2>2
<1> QED
  BY <1>1, <1>2

\* Every contract stays.
GrowsTo(ch, ch2) == \A side \in Sides : DOMAIN ch[side] \subseteq DOMAIN ch2[side]

\* The transaction of a step was sent, and went through.
Sent(ch, ch2, step, book) ==
  LET side == step.at[1]
      at == Resolve(step.at, book)
      args == ResolveAll(step.args, book)
  IN  /\ StepOK(step)
      /\ DOMAIN ch2 = Sides
      /\ \A s \in Sides : s # side => ch2[s] = ch[s]
      /\ step.op = "new" => Deploys(ch[side], ch2[side], step.at[2], args)
      /\ step.op # "new" =>
           /\ step.at[2] \in DOMAIN book[side] /\ at = book[side][step.at[2]]
           /\ at \in DOMAIN ch[side] /\ at[1] = step.at[2]
           /\ \A i \in DOMAIN step.args : Known(step.args[i], book)
           /\ Calls(ch[side], ch2[side], at, step.method, args)

\* A deployment finds what its arguments name.
ReadyToSend(step, book) ==
  /\ StepOK(step)
  /\ step.op = "new" /\ step.at[2] \in ChildTokens => ChildManagerProxy \in DOMAIN book["child"]

\* A step that is sent keeps both chains in order.
LEMMA SentKeeps ==
  ASSUME NEW step, NEW book, ChainsOK(chain), BookOK(book, chain), ReadyToSend(step, book),
         Succeeds(step, book), Transact(step, book)
  PROVE  Sent(chain, chain', step, book) /\ ChainsOK(chain') /\ GrowsTo(chain, chain')
<1> DEFINE side == step.at[1]
           at == Resolve(step.at, book)
           args == ResolveAll(step.args, book)
           after == chain'[side]
<1>1. /\ side \in Sides /\ DOMAIN chain = Sides /\ ChainOK(chain[side])
      /\ step.at = <<side, step.at[2]>> /\ side # "value"
      /\ step.op \in {"new", "call", "try"}
  BY DEF ReadyToSend, StepOK, ChainsOK, Sides
<1>2. /\ DOMAIN chain' = Sides
      /\ \A s \in Sides : s # side => chain'[s] = chain[s]
      /\ after = IF step.op = "new" THEN AfterDeploy(chain[side], step.at[2], args)
                 ELSE AfterCall(chain[side], at, step.method, args)
  BY <1>1 DEF Transact
<1>3. CASE step.op = "new"
  <2>1. step.at[2] \in ChildTokens => args[1] \in Accounts(chain[side])
    <3> SUFFICES ASSUME step.at[2] \in ChildTokens PROVE args[1] \in Accounts(chain[side])
      OBVIOUS
    <3>1. side = "child" /\ step.args = <<Child(ChildManagerProxy)>>
      BY <1>3 DEF ReadyToSend, StepOK
    <3>2. args[1] = Resolve(Child(ChildManagerProxy), book)
      BY <3>1 DEF ResolveAll
    <3>3. args[1] = book["child"][ChildManagerProxy] /\ ChildManagerProxy \in DOMAIN book["child"]
      BY <1>3, <3>2 DEF Resolve, Child, Lookup, ReadyToSend
    <3>4. args[1] \in DOMAIN chain["child"]
      BY <3>3 DEF BookOK, Sides
    <3> QED
      BY <3>1, <3>4 DEF Accounts
  <2> HIDE DEF args
  <2>2. ChainOK(AfterDeploy(chain[side], step.at[2], args))
        /\ Deploys(chain[side], AfterDeploy(chain[side], step.at[2], args), step.at[2], args)
    BY <1>1, <2>1, DeployKeeps
  <2>3. ChainOK(after) /\ Deploys(chain[side], after, step.at[2], args)
    BY <1>2, <1>3, <2>2
  <2>4. DOMAIN chain[side] \subseteq DOMAIN after
    BY <2>3 DEF Deploys
  <2>5. ChainsOK(chain') /\ GrowsTo(chain, chain')
    BY <1>2, <2>3, <2>4 DEF ChainsOK, GrowsTo
  <2>6. StepOK(step)
    BY DEF ReadyToSend
  <2> QED
    BY <1>2, <1>3, <2>3, <2>5, <2>6 DEF Sent, args
<1>4. CASE step.op # "new"
  <2>1. /\ Known(step.at, book) /\ \A i \in DOMAIN step.args : Known(step.args[i], book)
        /\ CallPasses(chain[side], at, step.method, args)
    BY <1>1, <1>4 DEF Succeeds
  <2>2. /\ step.at[2] \in DOMAIN book[side] /\ at = book[side][step.at[2]]
        /\ at \in DOMAIN chain[side] /\ at[1] = step.at[2]
    BY <1>1, <2>1 DEF Known, Resolve, Lookup, BookOK
  <2>3. ASSUME NEW i \in DOMAIN step.args, step.args[i][1] = side PROVE args[i] \in DOMAIN chain[side]
    <3>1. args[i] = Resolve(step.args[i], book)
      BY DEF ResolveAll
    <3>2. step.args[i][2] \in DOMAIN book[side]
      BY <1>1, <2>1, <2>3 DEF Known
    <3>3. args[i] = book[side][step.args[i][2]]
      BY <1>1, <2>3, <3>1, <3>2 DEF Resolve, Lookup
    <3> QED
      BY <1>1, <3>2, <3>3 DEF BookOK
  <2>4. GoodCall(chain[side], step.method, args)
    <3>1. step.method \in Methods
      BY <1>4 DEF ReadyToSend, StepOK
    <3>2. step.method = "updateAndCall" => args[1] \in DOMAIN chain[side]
      BY <1>4, <2>3 DEF ReadyToSend, StepOK
    <3>3. ASSUME step.method = "grantRole" PROVE args[2] \in Accounts(chain[side])
      <4>1. /\ 2 \in DOMAIN step.args
            /\ step.args[2] \in {Value(NewOwner), Value(StateReceiver)} \/ step.args[2][1] = side
        BY <1>4, <3>3 DEF ReadyToSend, StepOK
      <4>2. CASE step.args[2][1] = side
        BY <2>3, <4>1, <4>2 DEF Accounts
      <4>3. CASE step.args[2] \in {Value(NewOwner), Value(StateReceiver)}
        <5>1. args[2] = Resolve(step.args[2], book)
          BY <4>1 DEF ResolveAll
        <5>2. args[2] \in {NewOwner, StateReceiver}
          BY <4>3, <5>1 DEF Resolve, Value
        <5> QED
          BY <5>2 DEF Accounts
      <4> QED
        BY <4>1, <4>2, <4>3
    <3> QED
      BY <3>1, <3>2, <3>3 DEF GoodCall
  <2> HIDE DEF args, at
  <2>5. /\ ChainOK(AfterCall(chain[side], at, step.method, args))
        /\ Calls(chain[side], AfterCall(chain[side], at, step.method, args), at, step.method, args)
    BY <1>1, <2>1, <2>4, CallKeeps
  <2>6. ChainOK(after) /\ Calls(chain[side], after, at, step.method, args)
    BY <1>2, <1>4, <2>5
  <2>7. DOMAIN chain[side] \subseteq DOMAIN after
    BY <2>6 DEF Calls
  <2>8. ChainsOK(chain') /\ GrowsTo(chain, chain')
    BY <1>2, <2>6, <2>7 DEF ChainsOK, GrowsTo
  <2>9. StepOK(step)
    BY DEF ReadyToSend
  <2> QED
    BY <1>2, <1>4, <2>1, <2>2, <2>6, <2>8, <2>9 DEF Sent, args, at
<1> QED
  BY <1>3, <1>4

\* The addresses of a book stay those of contracts.
LEMMA BookKeeps ==
  ASSUME NEW book, NEW ch, NEW ch2, BookOK(book, ch), GrowsTo(ch, ch2) PROVE BookOK(book, ch2)
BY DEF BookOK, GrowsTo

\* The entries of the status file stay those of contracts.
LEMMA StatusKeeps ==
  ASSUME NEW entries, NEW ch, NEW ch2, StatusOK(entries, ch), GrowsTo(ch, ch2)
  PROVE  StatusOK(entries, ch2)
BY DEF StatusOK, EntryOK, GrowsTo, Sides

-----------------------------------------------------------------------------
\* GoTo moves on in the script or in the runbook.
LEMMA GoToKeeps ==
  ASSUME Control, ScriptOK, script # NoScript, NEW pc \in Nat, pc > script.pc,
         NEW book, BookOK(book, chain'), NEW errors \in BOOLEAN, GoTo(pc, book, errors),
         path' = path, script.name \in Readers => book = file',
         script.name = "migration3" /\ pc >= 3 => ChildManagerProxy \in DOMAIN book["child"]
  PROVE  /\ ScriptOK'
         /\ next' \in 1..(Final + 1) /\ Final' = Final
         /\ \/ /\ next' = next /\ pc <= Length(script.name)
               /\ script' = [script EXCEPT !.pc = pc, !.book = book, !.errors = errors]
            \/ /\ next' = next + 1 /\ script' = NoScript /\ ~errors /\ pc > Length(script.name)
            \/ /\ next' = next /\ script' = NoScript /\ errors /\ pc > Length(script.name)
<1>1. /\ script.name \in ScriptNames /\ script.name = Current /\ next \in 1..Final
      /\ script.pc \in 1..Length(script.name) /\ DOMAIN script = {"name", "pc", "errors", "book"}
  BY DEF Control, ScriptOK, Final
<1>2. Len(Steps(script.name)) = Length(script.name) /\ Length(script.name) \in Nat
  BY <1>1, StepsAt DEF Listed, Length, ScriptNames
<1>3. Final' = Final /\ Current \in ScriptNames
  BY <1>1 DEF Final, Truffle
<1>4. CASE pc <= Length(script.name)
  <2>1. script' = [script EXCEPT !.pc = pc, !.book = book, !.errors = errors] /\ next' = next
    BY <1>2, <1>4 DEF GoTo
  <2>2. /\ DOMAIN script' = {"name", "pc", "errors", "book"} /\ script'.name = script.name
        /\ script'.pc = pc /\ script'.book = book /\ script'.errors = errors
    BY <1>1, <2>1
  <2>3. Current' = Current
    BY <2>1 DEF Current
  <2>4. pc \in 1..Length(script.name)
    BY <1>1, <1>2, <1>4
  <2>5. ScriptOK'
    BY <1>1, <1>3, <2>1, <2>2, <2>3, <2>4 DEF ScriptOK
  <2> QED
    BY <1>1, <1>3, <1>4, <2>1, <2>5 DEF Final
<1>5. CASE ~(pc <= Length(script.name))
  <2>1. script' = NoScript /\ next' = IF errors THEN next ELSE next + 1
    BY <1>2, <1>5 DEF GoTo
  <2>2. ScriptOK'
    BY <2>1 DEF ScriptOK
  <2>3. pc > Length(script.name)
    BY <1>2, <1>5
  <2> QED
    BY <1>1, <1>3, <2>1, <2>2, <2>3 DEF Final
<1> QED
  BY <1>4, <1>5

LibraryRank(lib) ==
  IF lib = "Merkle" THEN 1 ELSE IF lib = "MerklePatriciaProof" THEN 2
  ELSE IF lib = "RLPReader" THEN 3 ELSE IF lib = "SafeERC20" THEN 4 ELSE 5

TypeRank(t) ==
  IF t = "ERC20" THEN 1 ELSE IF t = "ERC721" THEN 2 ELSE IF t = "MintableERC721" THEN 3
  ELSE IF t = "ERC1155" THEN 4 ELSE 5

\* Which of the queued deployments is that of a name.
PositionOf(name) ==
  IF name[2] = "library" THEN LibraryRank(name[1])
  ELSE IF name[2] = "code" THEN IF name[1] = "RootChainManager" THEN 6 ELSE 24
  ELSE IF name[2] = "proxy" THEN 7
  ELSE IF name[2] = "predicate" THEN 6 + 3 * TypeRank(name[1])
  ELSE IF name[2] = "predicateProxy" THEN 7 + 3 * TypeRank(name[1])
  ELSE 24 + TypeRank(name[1])

\* The five libraries.
LEMMA LibrariesAt ==
  /\ Libraries[1] = "Merkle" /\ Libraries[2] = "MerklePatriciaProof" /\ Libraries[3] = "RLPReader"
  /\ Libraries[4] = "SafeERC20" /\ Libraries[5] = "SafeMath"
BY DEF Libraries

\* Each of the deployments in the queue.
LEMMA QueuedNames ==
  /\ \A i \in 1..5 : QueuedDeployments[i] = New(Root(<<Libraries[i], "library">>), << >>)
  /\ QueuedDeployments[6] = New(Root(RootManager), << >>)
  /\ QueuedDeployments[7] = New(Root(RootManagerProxy), << >>)
  /\ QueuedDeployments[8] = Call(Root(RootManagerProxy), "updateAndCall", <<Root(RootManager)>>)
  /\ \A i \in 1..5 :
       /\ QueuedDeployments[6 + 3 * i] = New(Root(Predicate(TypeList[i])), << >>)
       /\ QueuedDeployments[7 + 3 * i] = New(Root(PredicateProxy(TypeList[i])), << >>)
       /\ QueuedDeployments[8 + 3 * i] = Call(Root(PredicateProxy(TypeList[i])), "updateAndCall",
                                              <<Root(Predicate(TypeList[i]))>>)
  /\ QueuedDeployments[24] = New(Root(StateSender), << >>)
  /\ \A i \in 1..4 : QueuedDeployments[24 + i] = New(Root(RootToken(TypeList[i])), << >>)
<1>1. \A i \in 1..23 : QueuedDeployments[5 + i] = RootDeployments[i]
  BY QueuedAt
<1>2. \A i \in 1..5 : QueuedDeployments[i] = New(Root(<<Libraries[i], "library">>), << >>)
  BY QueuedAt
<1>3. /\ QueuedDeployments[6] = RootDeployments[1] /\ QueuedDeployments[7] = RootDeployments[2]
      /\ QueuedDeployments[8] = RootDeployments[3] /\ QueuedDeployments[24] = RootDeployments[19]
  <2>1. /\ 1 \in 1..23 /\ 2 \in 1..23 /\ 3 \in 1..23 /\ 19 \in 1..23
        /\ 5 + 1 = 6 /\ 5 + 2 = 7 /\ 5 + 3 = 8 /\ 5 + 19 = 24
    OBVIOUS
  <2>2. /\ QueuedDeployments[5 + 1] = RootDeployments[1] /\ QueuedDeployments[5 + 2] = RootDeployments[2]
        /\ QueuedDeployments[5 + 3] = RootDeployments[3] /\ QueuedDeployments[5 + 19] = RootDeployments[19]
    BY <1>1, <2>1
  <2> QED
    BY <2>1, <2>2
<1>4. ASSUME NEW i \in 1..5
      PROVE  /\ QueuedDeployments[6 + 3 * i] = RootDeployments[3 * i + 1]
             /\ QueuedDeployments[7 + 3 * i] = RootDeployments[3 * i + 2]
             /\ QueuedDeployments[8 + 3 * i] = RootDeployments[3 * i + 3]
  <2>1. /\ 3 * i + 1 \in 1..23 /\ 3 * i + 2 \in 1..23 /\ 3 * i + 3 \in 1..23
        /\ 5 + (3 * i + 1) = 6 + 3 * i /\ 5 + (3 * i + 2) = 7 + 3 * i /\ 5 + (3 * i + 3) = 8 + 3 * i
    OBVIOUS
  <2>2. /\ QueuedDeployments[5 + (3 * i + 1)] = RootDeployments[3 * i + 1]
        /\ QueuedDeployments[5 + (3 * i + 2)] = RootDeployments[3 * i + 2]
        /\ QueuedDeployments[5 + (3 * i + 3)] = RootDeployments[3 * i + 3]
    BY <1>1, <2>1
  <2> QED
    BY <2>1, <2>2
<1>5. ASSUME NEW i \in 1..4 PROVE QueuedDeployments[24 + i] = RootDeployments[19 + i]
  <2>1. 19 + i \in 1..23 /\ 5 + (19 + i) = 24 + i
    OBVIOUS
  <2>2. QueuedDeployments[5 + (19 + i)] = RootDeployments[19 + i]
    BY <1>1, <2>1
  <2> QED
    BY <2>1, <2>2
<1> QED
  BY <1>2, <1>3, <1>4, <1>5, DeploymentsAt

\* Every position of the list is one of these.
LEMMA Positions ==
  \A n \in 1..28 : \/ n \in 1..5 \/ n \in {6, 7, 8, 24}
                   \/ \E i \in 1..5 : n \in {6 + 3 * i, 7 + 3 * i, 8 + 3 * i}
                   \/ \E i \in 1..4 : n = 24 + i
<1> SUFFICES ASSUME NEW n \in 1..28, n \notin 1..8, n \notin 24..28
             PROVE  \E i \in 1..5 : n \in {6 + 3 * i, 7 + 3 * i, 8 + 3 * i}
  <2>1. \A n \in 24..28 : n = 24 \/ (n - 24 \in 1..4 /\ n = 24 + (n - 24))
    OBVIOUS
  <2> QED
    BY <2>1
<1>1. n \in {9, 10, 11} \/ n \in {12, 13, 14} \/ n \in {15, 16, 17} \/ n \in {18, 19, 20} \/ n \in {21, 22, 23}
  OBVIOUS
<1>2. /\ n \in {9, 10, 11} => n \in {6 + 3 * 1, 7 + 3 * 1, 8 + 3 * 1}
      /\ n \in {12, 13, 14} => n \in {6 + 3 * 2, 7 + 3 * 2, 8 + 3 * 2}
      /\ n \in {15, 16, 17} => n \in {6 + 3 * 3, 7 + 3 * 3, 8 + 3 * 3}
      /\ n \in {18, 19, 20} => n \in {6 + 3 * 4, 7 + 3 * 4, 8 + 3 * 4}
      /\ n \in {21, 22, 23} => n \in {6 + 3 * 5, 7 + 3 * 5, 8 + 3 * 5}
  OBVIOUS
<1>3. 1 \in 1..5 /\ 2 \in 1..5 /\ 3 \in 1..5 /\ 4 \in 1..5 /\ 5 \in 1..5
  OBVIOUS
<1> QED
  BY <1>1, <1>2, <1>3

\* No two deployments in the queue are of one name.
LEMMA PositionIs ==
  \A n \in 1..28 : QueuedDeployments[n].op = "new" => PositionOf(QueuedDeployments[n].at[2]) = n
<1> SUFFICES ASSUME NEW n \in 1..28, QueuedDeployments[n].op = "new"
             PROVE  PositionOf(QueuedDeployments[n].at[2]) = n
  OBVIOUS
<1>1. \A i \in 1..5 : TypeRank(TypeList[i]) = i
  BY Types DEF TypeRank
<1>2. \A i \in 1..5 : LibraryRank(Libraries[i]) = i
  BY LibrariesAt DEF LibraryRank
<1>3. CASE n \in 1..5
  <2>1. QueuedDeployments[n].at[2] = <<Libraries[n], "library">>
    <3>1. QueuedDeployments[n] = New(Root(<<Libraries[n], "library">>), << >>)
      BY <1>3, QueuedNames
    <3> QED
      BY <3>1 DEF New, Root
  <2> QED
    BY <1>2, <1>3, <2>1 DEF PositionOf
<1>4. CASE n \in {6, 7, 8, 24}
  <2>1. /\ n = 6 => QueuedDeployments[n].at[2] = RootManager
        /\ n = 7 => QueuedDeployments[n].at[2] = RootManagerProxy
        /\ n # 8
        /\ n = 24 => QueuedDeployments[n].at[2] = StateSender
    <3>1. /\ n = 6 => QueuedDeployments[n] = New(Root(RootManager), << >>)
          /\ n = 7 => QueuedDeployments[n] = New(Root(RootManagerProxy), << >>)
          /\ n = 8 => QueuedDeployments[n] = Call(Root(RootManagerProxy), "updateAndCall", <<Root(RootManager)>>)
          /\ n = 24 => QueuedDeployments[n] = New(Root(StateSender), << >>)
      BY QueuedNames
    <3> QED
      BY <3>1 DEF New, Root, Call
  <2> QED
    BY <1>4, <2>1 DEF PositionOf, RootManager, RootManagerProxy, StateSender
<1>5. CASE \E i \in 1..5 : n \in {6 + 3 * i, 7 + 3 * i, 8 + 3 * i}
  <2>1. PICK i \in 1..5 : n \in {6 + 3 * i, 7 + 3 * i, 8 + 3 * i}
    BY <1>5
  <2>2. /\ n = 6 + 3 * i => QueuedDeployments[n].at[2] = Predicate(TypeList[i])
        /\ n = 7 + 3 * i => QueuedDeployments[n].at[2] = PredicateProxy(TypeList[i])
        /\ n # 8 + 3 * i
    <3>1. /\ QueuedDeployments[6 + 3 * i] = New(Root(Predicate(TypeList[i])), << >>)
          /\ QueuedDeployments[7 + 3 * i] = New(Root(PredicateProxy(TypeList[i])), << >>)
          /\ QueuedDeployments[8 + 3 * i] = Call(Root(PredicateProxy(TypeList[i])), "updateAndCall",
                                                 <<Root(Predicate(TypeList[i]))>>)
      BY QueuedNames
    <3>2. /\ n = 6 + 3 * i => QueuedDeployments[n] = New(Root(Predicate(TypeList[i])), << >>)
          /\ n = 7 + 3 * i => QueuedDeployments[n] = New(Root(PredicateProxy(TypeList[i])), << >>)
          /\ n = 8 + 3 * i => QueuedDeployments[n] = Call(Root(PredicateProxy(TypeList[i])), "updateAndCall",
                                                          <<Root(Predicate(TypeList[i]))>>)
      BY <3>1
    <3> QED
      BY <3>2 DEF New, Root, Call
  <2> QED
    BY <1>1, <2>1, <2>2 DEF PositionOf, Predicate, PredicateProxy
<1>6. CASE \E i \in 1..4 : n = 24 + i
  <2>1. PICK i \in 1..4 : n = 24 + i
    BY <1>6
  <2>2. QueuedDeployments[n].at[2] = RootToken(TypeList[i])
    <3>1. QueuedDeployments[n] = New(Root(RootToken(TypeList[i])), << >>)
      BY <2>1, QueuedNames
    <3> QED
      BY <3>1 DEF New, Root
  <2> QED
    BY <1>1, <2>1, <2>2 DEF PositionOf, RootToken
<1> QED
  BY <1>3, <1>4, <1>5, <1>6, Positions

\* Every name has one entry, so that the addresses are those of the entries.
LEMMA ExtractedIs ==
  ASSUME NEW entries, NEW ch, StatusOK(entries, ch)
  PROVE  /\ DOMAIN Extracted(entries) = {entries[id].name : id \in {i \in DOMAIN entries : entries[i].type = "new"}}
         /\ \A id \in DOMAIN entries : entries[id].type = "new" =>
              /\ id \in 0..27
              /\ entries[id].name \in DOMAIN Extracted(entries)
              /\ Extracted(entries)[entries[id].name] = entries[id].address
<1>1. DOMAIN Extracted(entries) = {entries[id].name : id \in {i \in DOMAIN entries : entries[i].type = "new"}}
  BY DEF Extracted
<1>2. ASSUME NEW id \in DOMAIN entries, entries[id].type = "new"
      PROVE  id \in 0..27 /\ PositionOf(entries[id].name) = id + 1
  <2>1. EntryOK(id, entries[id], ch)
    BY DEF StatusOK
  <2>2. id \in 0..27
    BY <1>2, <2>1 DEF EntryOK
  <2>3. /\ id + 1 \in 1..28
        /\ QueuedDeployments[id + 1].op = "new" /\ entries[id].name = QueuedDeployments[id + 1].at[2]
    BY <1>2, <2>1, <2>2 DEF EntryOK
  <2> QED
    BY <2>2, <2>3, PositionIs
<1>3. ASSUME NEW id \in DOMAIN entries, entries[id].type = "new"
      PROVE  Extracted(entries)[entries[id].name] = entries[id].address
  <2> DEFINE Ids == {i \in DOMAIN entries : entries[i].type = "new" /\ entries[i].name = entries[id].name}
  <2>1. Ids = {id}
    <3>1. ASSUME NEW i \in DOMAIN entries, entries[i].type = "new", entries[i].name = entries[id].name
          PROVE  i = id
      <4>1. i \in 0..27 /\ id \in 0..27 /\ i + 1 = id + 1
        BY <1>2, <1>3, <3>1
      <4> QED
        BY <4>1
    <3> QED
      BY <1>3, <3>1
  <2>2. Max({id}) = id
    <3>1. id \in 0..27
      BY <1>2, <1>3
    <3> QED
      BY <3>1 DEF Max
  <2>3. entries[id].name \in {entries[k].name : k \in {i \in DOMAIN entries : entries[i].type = "new"}}
    BY <1>3
  <2>4. Extracted(entries)[entries[id].name] = entries[Max(Ids)].address
    BY <2>3 DEF Extracted
  <2> HIDE DEF Ids
  <2> QED
    BY <2>1, <2>2, <2>4
<1> QED
  BY <1>1, <1>2, <1>3

\* What is extracted from the status file are addresses of contracts of that name.
LEMMA ExtractedOK ==
  ASSUME NEW entries, NEW ch, StatusOK(entries, ch)
  PROVE  \A name \in DOMAIN Extracted(entries) :
           Extracted(entries)[name] \in DOMAIN ch["root"] /\ Extracted(entries)[name][1] = name
<1> SUFFICES ASSUME NEW name \in DOMAIN Extracted(entries)
             PROVE  Extracted(entries)[name] \in DOMAIN ch["root"] /\ Extracted(entries)[name][1] = name
  OBVIOUS
<1>1. PICK id \in DOMAIN entries : entries[id].type = "new" /\ name = entries[id].name
  <2>1. DOMAIN Extracted(entries) = {entries[id].name : id \in {i \in DOMAIN entries : entries[i].type = "new"}}
    BY ExtractedIs
  <2> QED
    BY <2>1
<1>2. Extracted(entries)[name] = entries[id].address /\ id \in 0..27
  BY <1>1, ExtractedIs
<1>3. EntryOK(id, entries[id], ch)
  BY DEF StatusOK
<1> QED
  BY <1>1, <1>2, <1>3 DEF EntryOK

\* An initialization whose addresses are put in is still one.
LEMMA FixedOK ==
  ASSUME NEW s \in RootInits, NEW book
  PROVE  LET f == FixedStep(s, book)
         IN  /\ StepOK(f) /\ f.op = "call" /\ f.at = s.at /\ f.at[1] = "root"
             /\ f.method = s.method /\ DOMAIN f.args = DOMAIN s.args
             /\ \A i \in DOMAIN s.args : f.args[i] = Fixed(s.args[i], book)
<1> DEFINE f == FixedStep(s, book)
<1>1. StepOK(s) /\ s.op = "call" /\ s.at[1] = "root"
  BY RootInitsOK
<1>2. DOMAIN s = {"op", "at", "method", "args"}
  <2>1. \A at, m, args : DOMAIN Call(at, m, args) = {"op", "at", "method", "args"}
    BY DEF Call
  <2> HIDE DEF f
  <2>2. CASE s \in {ManagerSettings[1], ManagerSettings[2], ManagerSettings[3]}
    BY <2>1, <2>2 DEF ManagerSettings
  <2>3. CASE s = GrantPredicate
    BY <2>1, <2>3 DEF GrantPredicate
  <2>4. CASE s \in {GrantManager(t) : t \in TokenType} \cup {Register(t) : t \in TokenType}
                   \cup {MapOf(t) : t \in TokenType}
    BY <2>1, <2>4 DEF GrantManager, Register, MapOf
  <2> QED
    BY <2>2, <2>3, <2>4 DEF RootInits
<1>3. /\ f.op = s.op /\ f.at = s.at /\ f.method = s.method
      /\ f.args = [i \in DOMAIN s.args |-> Fixed(s.args[i], book)]
  BY <1>2 DEF FixedStep
<1>4. /\ DOMAIN f.args = DOMAIN s.args
      /\ \A i \in DOMAIN s.args : f.args[i] = Fixed(s.args[i], book)
  BY <1>3
<1> HIDE DEF f
<1>5. \A i \in DOMAIN s.args : s.args[i][1] # "child" => f.args[i] = s.args[i]
  BY <1>4 DEF Fixed
<1>6. ASSUME s.method = "grantRole"
      PROVE  /\ 2 \in DOMAIN f.args
             /\ \/ f.args[2] \in {Value(NewOwner), Value(StateReceiver)}
                \/ f.args[2][1] = f.at[1]
  <2>1. /\ 2 \in DOMAIN s.args
        /\ s.args[2] \in {Value(NewOwner), Value(StateReceiver)} \/ s.args[2][1] = "root"
    BY <1>1, <1>6 DEF StepOK
  <2>2. s.args[2][1] # "child"
    BY <2>1 DEF Value
  <2> QED
    BY <1>1, <1>3, <1>4, <1>5, <2>1, <2>2
<1>7. s.method = "updateAndCall" => 1 \in DOMAIN f.args /\ f.args[1][1] = f.at[1]
  BY <1>1, <1>3, <1>4, <1>5 DEF StepOK
<1>8. StepOK(f)
  BY <1>1, <1>3, <1>6, <1>7 DEF StepOK
<1> QED
  BY <1>1, <1>3, <1>4, <1>8 DEF f

\* The task that the worker is at.
TaskOK ==
  /\ Moonwalker /\ next \in {1, 2, 5, 6}
  /\ Task \in {queue[i] : i \in DOMAIN queue}
  /\ StepOK(Task.step) /\ Task.step.at[1] = "root" /\ Task.step.op \in {"new", "call"}
  /\ Task.step.at[2] \notin ChildTokens \/ Task.step.op # "new"
  /\ Task.id \in 0..46
  /\ next \in {1, 2} => Task.id \in 0..27 /\ Task.step = QueuedDeployments[Task.id + 1]
  /\ next \in {5, 6} => /\ Task.id \in 28..46
                        /\ Task.step = FixedStep(RootInitializations[Task.id - 27], file)
                        /\ Task.step.op = "call"

\* The first task of a queue that is not empty.
LEMMA TaskIs ==
  ASSUME Control, QueueOK, queue # << >>
  PROVE  TaskOK /\ Len(queue) \in Nat \ {0} /\ Task = queue[1]
<1>1. Moonwalker /\ next \in {1, 2, 5, 6}
  BY DEF Control, QueueOK, Truffle, Moonwalker
<1>2. CASE next \in {1, 2}
  <2>1. queue \in Seq(DeployTasks)
    BY <1>1, <1>2 DEF QueueOK
  <2> HIDE DEF DeployTasks
  <2>2. Task \in DeployTasks /\ Len(queue) \in Nat \ {0} /\ Task = queue[1] /\ 1 \in DOMAIN queue
    BY <2>1 DEF Task
  <2>3. PICK i \in 1..28 : Task = [id |-> i - 1, step |-> QueuedDeployments[i]]
    BY <2>2 DEF DeployTasks
  <2>4. Task.id = i - 1 /\ Task.step = QueuedDeployments[i] /\ i - 1 \in 0..27 /\ (i - 1) + 1 = i
    BY <2>3
  <2>5. QueuedDeployments[i] \in RootDeploys \cup LibraryDeploys
    BY QueuedAt, ListedAt
  <2>6. /\ StepOK(QueuedDeployments[i]) /\ QueuedDeployments[i].op \in {"new", "call"}
        /\ QueuedDeployments[i].at[1] = "root" /\ QueuedDeployments[i].at[2] \notin ChildTokens
    BY <2>5, RootDeploysOK, LibraryDeploysOK, RootDeploysNamed
  <2> QED
    BY <1>1, <1>2, <2>2, <2>4, <2>6 DEF TaskOK
<1>3. CASE next \in {5, 6}
  <2>1. queue \in Seq(InitTasks(file))
    BY <1>1, <1>3 DEF QueueOK
  <2>2. Task \in InitTasks(file) /\ Len(queue) \in Nat \ {0} /\ Task = queue[1] /\ 1 \in DOMAIN queue
    BY <2>1 DEF Task
  <2>3. PICK i \in 1..19 : Task = [id |-> 27 + i, step |-> FixedStep(RootInitializations[i], file)]
    BY <2>2 DEF InitTasks
  <2>4. Task.id = 27 + i /\ Task.step = FixedStep(RootInitializations[i], file) /\ 27 + i \in 28..46 /\ (27 + i) - 27 = i
    BY <2>3
  <2>5. RootInitializations[i] \in RootInits
    <3>1. Listed(RootInitializations, 19, RootInits)
      BY InitsAt DEF Listed
    <3> QED
      BY <3>1, ListedAt
  <2>6. LET f == FixedStep(RootInitializations[i], file)
        IN  StepOK(f) /\ f.op = "call" /\ f.at[1] = "root"
    BY <2>5, FixedOK
  <2> QED
    BY <1>1, <1>3, <2>2, <2>4, <2>6 DEF TaskOK
<1> QED
  BY <1>1, <1>2, <1>3

\* The worker's addresses are those of contracts.
LEMMA TaskBookOK ==
  ASSUME StatusOK(status, chain) PROVE BookOK(TaskBook, chain)
<1>1. DOMAIN TaskBook = Sides /\ TaskBook["root"] = Extracted(status) /\ TaskBook["child"] = << >>
  BY DEF TaskBook, Sides
<1>2. DOMAIN TaskBook["child"] = {}
  BY <1>1
<1>3. \A name \in DOMAIN TaskBook["root"] :
        TaskBook["root"][name] \in DOMAIN chain["root"] /\ TaskBook["root"][name][1] = name
  BY <1>1, ExtractedOK
<1> QED
  BY <1>1, <1>2, <1>3 DEF BookOK, Sides

\* What a script sends, and what the worker sends.
LEMMA ScriptSends ==
  ASSUME Inv1, script # NoScript, Step.op \in {"new", "call", "try"},
         Succeeds(Step, script.book), Transact(Step, script.book)
  PROVE  Sent(chain, chain', Step, script.book) /\ ChainsOK(chain') /\ GrowsTo(chain, chain')
<1>1. /\ script.name \in ScriptNames /\ script.pc \in 1..Length(script.name)
      /\ BookOK(script.book, chain)
      /\ script.name = "migration3" /\ script.pc >= 3 => ChildManagerProxy \in DOMAIN script.book.child
  BY DEF Inv1, ScriptOK
<1>2. KindOK(script.name, script.pc, Step)
  BY <1>1, StepKind DEF Step
<1>3. ReadyToSend(Step, script.book)
  BY <1>1, <1>2 DEF KindOK, ReadyToSend
<1> QED
  BY <1>1, <1>3, SentKeeps DEF Inv1

\* What the worker sends keeps both chains in order.
LEMMA WorkerSends ==
  ASSUME Inv1, queue # << >>, Succeeds(Task.step, TaskBook), Transact(Task.step, TaskBook)
  PROVE  Sent(chain, chain', Task.step, TaskBook) /\ ChainsOK(chain') /\ GrowsTo(chain, chain')
<1>1. BookOK(TaskBook, chain)
  BY TaskBookOK DEF Inv1
<1>2. TaskOK
  BY TaskIs DEF Inv1
<1>3. ReadyToSend(Task.step, TaskBook)
  BY <1>2 DEF TaskOK, ReadyToSend
<1> QED
  BY <1>1, <1>3, SentKeeps DEF Inv1

-----------------------------------------------------------------------------
\* What a step of a script does to the parts of the invariant that are not its.
ScriptStep(newFile) ==
  /\ path' = path /\ status' = status /\ worker' = worker /\ mined' = mined
  /\ crashes' \in 0..MaxCrashes /\ failed' \in BOOLEAN
  /\ next' = next \/ next' = next + 1
  /\ next' \in 1..(Final + 1)
  /\ file' = newFile

\* A step of a script keeps the tasks that are queued.
LEMMA ScriptQueue ==
  ASSUME Inv1, script # NoScript, NEW newFile, ScriptStep(newFile), queue' = queue,
         newFile = file \/ next # 5
  PROVE  QueueOK' /\ Control'
<1>1. Moonwalker => next \notin {2, 6}
  <2>1. script.name = Current /\ script.name # "processQueue" /\ next <= Final
    BY DEF Inv1, ScriptOK, ScriptNames
  <2> QED
    BY <2>1, CurrentIs DEF Inv1
<1>2. QueueOK'
  <2> SUFFICES ASSUME Moonwalker PROVE QueueOK'
    BY DEF QueueOK, ScriptStep, Moonwalker
  <2>1. next \in Nat /\ next >= 1
    BY DEF Inv1, Control, Final
  <2>2. \A S : << >> \in Seq(S)
    OBVIOUS
  <2>3. CASE next = 1
    <3>1. next' \in {1, 2} /\ queue' \in Seq(DeployTasks)
      BY <2>3 DEF Inv1, QueueOK, ScriptStep
    <3> HIDE DEF DeployTasks
    <3> QED
      BY <3>1 DEF QueueOK
  <2>4. CASE next = 5
    <3>1. next' \in {5, 6} /\ queue' \in Seq(InitTasks(file'))
      BY <2>4 DEF Inv1, QueueOK, ScriptStep
    <3> QED
      BY <3>1 DEF QueueOK
  <2>5. CASE next \notin {1, 2, 5, 6}
    <3>1. queue' = << >> /\ next' \notin {1, 2, 6}
      BY <2>1, <2>5 DEF Inv1, QueueOK, ScriptStep
    <3> QED
      BY <2>2, <3>1 DEF QueueOK
  <2> QED
    BY <1>1, <2>3, <2>4, <2>5
<1>3. Control'
  <2>1. next' = 1 => next = 1
    BY DEF ScriptStep, Inv1, Control, Final
  <2> QED
    BY <2>1 DEF Inv1, Control, ScriptStep, Final, Truffle
<1> QED
  BY <1>2, <1>3

\* A step of a script keeps what the worker knows.
LEMMA ScriptWorker ==
  ASSUME Inv1, NEW newFile, ScriptStep(newFile), queue' = queue, GrowsTo(chain, chain')
  PROVE  WorkerOK' /\ StatusOK(status', chain')
<1>1. StatusOK(status', chain')
  BY StatusKeeps DEF Inv1, ScriptStep
<1>2. DOMAIN chain["root"] \subseteq DOMAIN chain'["root"]
  BY DEF GrowsTo, Sides
<1>3. Task' = Task
  BY DEF Task
<1>4. WorkerOK'
  BY <1>2, <1>3 DEF Inv1, WorkerOK, ScriptStep
<1> QED
  BY <1>1, <1>4

\* A chain that does not change keeps its contracts.
LEMMA StaysGrown == ASSUME NEW ch PROVE GrowsTo(ch, ch)
BY DEF GrowsTo

\* Where a script that runs is.
LEMMA RunningIs ==
  ASSUME Inv1, script # NoScript
  PROVE  /\ script.name \in ScriptNames /\ script.name = Current /\ next \in 1..Final
         /\ script.pc \in 1..Length(script.name) /\ DOMAIN script = {"name", "pc", "errors", "book"}
         /\ script.errors \in BOOLEAN /\ BookOK(script.book, chain)
         /\ Length(script.name) \in Nat
         /\ KindOK(script.name, script.pc, Step)
<1>1. /\ script.name \in ScriptNames /\ script.name = Current /\ next \in 1..Final
      /\ script.pc \in 1..Length(script.name) /\ DOMAIN script = {"name", "pc", "errors", "book"}
      /\ script.errors \in BOOLEAN /\ BookOK(script.book, chain)
  BY DEF Inv1, ScriptOK, Control, Final
<1>2. Length(script.name) \in Nat
  BY <1>1 DEF Length, ScriptNames
<1> QED
  BY <1>1, <1>2, StepKind DEF Step

\* A step of a script that sends or writes something, and goes on.
LEMMA ScriptGoesOn ==
  ASSUME Inv1, script # NoScript, NEW pc \in Nat, pc > script.pc, NEW book, NEW errors \in BOOLEAN,
         GoTo(pc, book, errors), BookOK(book, chain'),
         script.name \in Readers => book = file',
         script.name = "migration3" /\ pc >= 3 => ChildManagerProxy \in DOMAIN book["child"],
         ChainsOK(chain'), GrowsTo(chain, chain'), BookOK(file', chain'),
         path' = path, status' = status, worker' = worker, mined' = mined, queue' = queue,
         failed' = failed, crashes' \in 0..MaxCrashes,
         file' = file \/ next # 5
  PROVE  Inv1'
<1>1. /\ ScriptOK' /\ next' \in 1..(Final + 1)
      /\ next' = next \/ next' = next + 1
  BY GoToKeeps DEF Inv1
<1>2. ScriptStep(file')
  BY <1>1 DEF ScriptStep, Inv1, Control
<1>3. QueueOK' /\ Control'
  BY <1>2, ScriptQueue
<1>4. WorkerOK' /\ StatusOK(status', chain')
  BY <1>2, ScriptWorker
<1> QED
  BY <1>1, <1>3, <1>4 DEF Inv1

\* The first invariant holds at the start.
LEMMA InitInv1 == Init => Inv1
<1> SUFFICES ASSUME Init PROVE Inv1
  OBVIOUS
<1>1. Control
  <2>1. path \in {"truffle", "moonwalker"}
    BY RunbookIs DEF Init
  <2>2. Final \in {6, 9} /\ 1 \in 1..(Final + 1)
    BY DEF Final
  <2>3. 0 \in 0..MaxCrashes
    BY DeploymentAssumption
  <2> QED
    BY <2>1, <2>2, <2>3 DEF Init, Control
<1>2. ChainsOK(chain)
  <2>1. DOMAIN chain = Sides /\ \A side \in Sides : chain[side] = << >>
    BY DEF Init, Sides
  <2>2. DOMAIN << >> = {} /\ IsFiniteSet({})
    BY FS_EmptySet
  <2>3. ChainOK(<< >>)
    BY <2>2 DEF ChainOK, AddressesOK
  <2> QED
    BY <2>1, <2>3 DEF ChainsOK
<1>3. BookOK(file, chain)
  <2>1. DOMAIN file = Sides /\ \A side \in Sides : file[side] = << >>
    BY DEF Init, NoAddresses, Sides
  <2> QED
    BY <2>1 DEF BookOK
<1>4. ScriptOK /\ WorkerOK
  BY DEF Init, ScriptOK, WorkerOK
<1>5. QueueOK
  <2>1. \A S : << >> \in Seq(S)
    OBVIOUS
  <2> QED
    BY <2>1 DEF Init, QueueOK
<1>6. StatusOK(status, chain)
  BY DEF Init, StatusOK
<1> QED
  BY <1>1, <1>2, <1>3, <1>4, <1>5, <1>6 DEF Inv1

\* Starting a script keeps the first invariant.
LEMMA StartScriptInv1 == ASSUME Inv1, StartScript PROVE Inv1'
<1>1. next <= Final /\ Current \in ScriptNames /\ Current # "processQueue" /\ path' = path /\ next' = next
      /\ file' = file /\ chain' = chain
  <2>1. path' = path /\ next' = next /\ file' = file /\ chain' = chain
    BY DEF StartScript
  <2>2. Control /\ next \in Nat /\ Final \in {6, 9}
    BY DEF Inv1, Control, Final
  <2>3. ~Done /\ Current # "processQueue"
    BY DEF StartScript
  <2>4. next <= Final
    BY <2>2, <2>3, CurrentIs
  <2> QED
    BY <2>1, <2>2, <2>3, <2>4, CurrentIs
<1>2. BookOK(NoAddresses, chain)
  <2>1. DOMAIN NoAddresses = Sides /\ \A side \in Sides : DOMAIN NoAddresses[side] = {}
    BY DEF NoAddresses, Sides
  <2> QED
    BY <2>1 DEF BookOK
<1>3. /\ DOMAIN script' = {"name", "pc", "errors", "book"}
      /\ script'.name = Current /\ script'.pc = 1 /\ script'.errors = FALSE
      /\ script'.book = IF Current \in Readers THEN file ELSE NoAddresses
  BY DEF StartScript
<1>4. Current' = Current /\ Final' = Final
  BY <1>1 DEF Current, Final, Truffle
<1>5. 1 \in 1..Length(Current)
  BY <1>1 DEF Length, ScriptNames
<1>6. ScriptOK'
  <2>1. BookOK(script'.book, chain')
    BY <1>1, <1>2, <1>3 DEF Inv1
  <2>2. script'.name \in Readers => script'.book = file'
    BY <1>1, <1>3
  <2>3. script'.pc \in 1..Length(script'.name)
    BY <1>3, <1>5
  <2>4. script'.errors \in BOOLEAN
    BY <1>3
  <2>5. ~(script'.pc >= 3)
    BY <1>3
  <2> QED
    BY <1>1, <1>3, <1>4, <2>1, <2>2, <2>3, <2>4, <2>5 DEF ScriptOK
<1>7. Control' /\ QueueOK' /\ WorkerOK' /\ StatusOK(status', chain') /\ ChainsOK(chain') /\ BookOK(file', chain')
  BY <1>1 DEF Inv1, StartScript, workerVars, Control, Final, Truffle, QueueOK, Moonwalker, WorkerOK, Task
<1> QED
  BY <1>6, <1>7 DEF Inv1

\* The book of a script that deployed something.
LEMMA BookGrows ==
  ASSUME NEW book, NEW ch, NEW ch2, BookOK(book, ch), GrowsTo(ch, ch2),
         NEW side \in Sides, NEW name, NEW a, a \in DOMAIN ch2[side], a[1] = name
  PROVE  LET after == [book EXCEPT ![side] = Put(@, name, a)]
         IN  /\ BookOK(after, ch2)
             /\ \A s \in Sides : s # side => after[s] = book[s]
             /\ IsPut(after[side], book[side], name, a)
<1> DEFINE after == [book EXCEPT ![side] = Put(@, name, a)]
<1>1. DOMAIN after = Sides /\ after[side] = Put(book[side], name, a) /\ \A s \in Sides : s # side => after[s] = book[s]
  BY DEF BookOK
<1>2. IsPut(Put(book[side], name, a), book[side], name, a)
  BY PutIs
<1> HIDE DEF after
<1>3. IsPut(after[side], book[side], name, a)
  BY <1>1, <1>2
<1>4. ASSUME NEW s \in Sides, NEW n \in DOMAIN after[s]
      PROVE  after[s][n] \in DOMAIN ch2[s] /\ after[s][n][1] = n
  <2>1. CASE s # side
    BY <1>1, <2>1 DEF BookOK, GrowsTo
  <2>2. CASE s = side /\ n = name
    BY <1>3, <2>2 DEF IsPut
  <2>3. CASE s = side /\ n # name
    <3>1. n \in DOMAIN book[side] /\ after[s][n] = book[side][n]
      BY <1>3, <2>3 DEF IsPut
    <3> QED
      BY <2>3, <3>1 DEF BookOK, GrowsTo
  <2> QED
    BY <2>1, <2>2, <2>3
<1> QED
  BY <1>1, <1>3, <1>4 DEF BookOK, after

\* A deployment by a script keeps the first invariant, and is sent.
LEMMA DeployContractInv1 ==
  ASSUME Inv1, DeployContract
  PROVE  /\ Inv1' /\ script # NoScript /\ Step.op = "new"
         /\ Sent(chain, chain', Step, script.book)
<1>1. script # NoScript /\ Step.op = "new"
  BY DEF DeployContract, Running, Step
<1>2. Sent(chain, chain', Step, script.book) /\ ChainsOK(chain') /\ GrowsTo(chain, chain')
  <2>1. Succeeds(Step, script.book)
    BY <1>1 DEF Succeeds
  <2>2. Transact(Step, script.book)
    BY DEF DeployContract
  <2> QED
    BY <1>1, <2>1, <2>2, ScriptSends
<1> DEFINE side == Step.at[1]
           name == Step.at[2]
           a == AddressOfNew(Step)
           book == [script.book EXCEPT ![Step.at[1]] = Put(@, Step.at[2], AddressOfNew(Step))]
<1>3. side \in Sides
  BY <1>2 DEF Sent, StepOK
<1>4. a \in DOMAIN chain'[side] /\ a[1] = name
  BY <1>1, <1>2 DEF Sent, Deploys, AddressOfNew
<1>5. BookOK(script.book, chain) /\ script.pc \in Nat /\ script.errors \in BOOLEAN
  BY <1>1, RunningIs
<1>6. /\ BookOK(book, chain')
      /\ \A s \in Sides : s # side => book[s] = script.book[s]
      /\ IsPut(book[side], script.book[side], name, a)
  BY <1>2, <1>3, <1>4, <1>5, BookGrows
<1>7. GoTo(script.pc + 1, book, script.errors)
  BY DEF DeployContract, Advance
<1>8. script.name \notin Readers
  <2>1. KindOK(script.name, script.pc, Step)
    BY <1>1, RunningIs
  <2> QED
    BY <1>1, <2>1 DEF KindOK, Readers
<1>9. ASSUME script.name = "migration3", script.pc + 1 >= 3 PROVE ChildManagerProxy \in DOMAIN book["child"]
  <2>1. side = "child"
    BY <1>1, <1>9, RunningIs DEF KindOK
  <2>2. DOMAIN book["child"] = DOMAIN script.book["child"] \cup {name}
    BY <1>6, <2>1 DEF IsPut
  <2>3. CASE script.pc >= 3
    BY <1>1, <1>9, <2>2, <2>3 DEF Inv1, ScriptOK
  <2>4. CASE script.pc = 2
    <3>1. name = ChildManagerProxy
      BY <1>9, <2>4, Migration3At DEF Step, Steps, New, Child
    <3> QED
      BY <2>2, <3>1
  <2> QED
    BY <1>5, <1>9, <2>3, <2>4
<1>10. BookOK(file', chain')
  BY <1>2, BookKeeps DEF Inv1, DeployContract
<1> HIDE DEF book
<1>11. script.pc + 1 \in Nat /\ script.pc + 1 > script.pc
  BY <1>5
<1>12. Inv1'
  BY <1>1, <1>2, <1>5, <1>6, <1>7, <1>8, <1>9, <1>10, <1>11, ScriptGoesOn DEF DeployContract, workerVars, Inv1, Control
<1> QED
  BY <1>1, <1>2, <1>12

\* A script that goes on with the book that it has.
LEMMA SameBookGoesOn ==
  ASSUME Inv1, script # NoScript, NEW pc \in Nat, pc > script.pc, NEW errors \in BOOLEAN,
         GoTo(pc, script.book, errors), Step.op # "new",
         ChainsOK(chain'), GrowsTo(chain, chain'),
         path' = path, file' = file, status' = status, worker' = worker, mined' = mined, queue' = queue,
         failed' = failed, crashes' \in 0..MaxCrashes
  PROVE  Inv1'
<1>1. BookOK(script.book, chain') /\ BookOK(file', chain')
  BY RunningIs, BookKeeps DEF Inv1
<1>2. script.name \in Readers => script.book = file'
  BY DEF Inv1, ScriptOK
<1>3. ASSUME script.name = "migration3", pc >= 3 PROVE ChildManagerProxy \in DOMAIN script.book["child"]
  <2>1. script.pc \in 1..9
    BY <1>3, RunningIs DEF Length
  <2>2. script.pc \notin {1, 2}
    BY <1>3, Migration3At DEF Step, Steps, New
  <2> QED
    BY <1>3, <2>1, <2>2 DEF Inv1, ScriptOK
<1> QED
  BY <1>1, <1>2, <1>3, ScriptGoesOn

\* A call by a script keeps the first invariant, and is sent.
LEMMA CallContractInv1 ==
  ASSUME Inv1, CallContract
  PROVE  /\ Inv1' /\ script # NoScript /\ Step.op = "call"
         /\ Sent(chain, chain', Step, script.book)
<1>1. script # NoScript /\ Step.op = "call"
  BY DEF CallContract, Running, Step
<1>2. Sent(chain, chain', Step, script.book) /\ ChainsOK(chain') /\ GrowsTo(chain, chain')
  BY <1>1, ScriptSends DEF CallContract
<1>3. script.pc \in Nat /\ script.errors \in BOOLEAN /\ crashes \in 0..MaxCrashes
  BY <1>1, RunningIs DEF Inv1, Control
<1>4. script.pc + 1 \in Nat /\ script.pc + 1 > script.pc
  BY <1>3
<1>5. GoTo(script.pc + 1, script.book, script.errors)
  BY DEF CallContract, Advance
<1> QED
  BY <1>1, <1>2, <1>3, <1>4, <1>5, SameBookGoesOn DEF CallContract, workerVars

\* The part of the invariant that does not depend on where a script is.
LEMMA ScriptStops ==
  ASSUME Inv1, script' = NoScript, next' = next, path' = path, chain' = chain, file' = file,
         queue' = queue, status' = status, worker' = worker, mined' = mined,
         crashes' \in 0..MaxCrashes, failed' \in BOOLEAN
  PROVE  Inv1'
<1>1. ScriptOK'
  BY DEF ScriptOK
<1>2. Control' /\ QueueOK'
  BY DEF Inv1, Control, Final, Truffle, QueueOK, Moonwalker
<1>3. WorkerOK'
  <2>1. Task' = Task
    BY DEF Task
  <2> QED
    BY <2>1 DEF Inv1, WorkerOK
<1>4. StatusOK(status', chain') /\ ChainsOK(chain') /\ BookOK(file', chain')
  BY DEF Inv1
<1> QED
  BY <1>1, <1>2, <1>3, <1>4 DEF Inv1

\* A call that reverts keeps the first invariant.
LEMMA CallRevertsInv1 == ASSUME Inv1, CallReverts PROVE Inv1'
BY ScriptStops DEF CallReverts, workerVars, Inv1, Control

\* Interrupting a script keeps the first invariant.
LEMMA InterruptScriptInv1 == ASSUME Inv1, InterruptScript PROVE Inv1'
<1>1. crashes' \in 0..MaxCrashes
  BY DeploymentAssumption DEF Inv1, Control, InterruptScript
<1> QED
  BY <1>1, ScriptStops DEF InterruptScript, workerVars, Inv1, Control

\* A step that may be skipped keeps the first invariant.
LEMMA TryCallInv1 ==
  ASSUME Inv1, TryCall
  PROVE  /\ Inv1' /\ script # NoScript /\ Step.op = "try"
         /\ \/ Sent(chain, chain', Step, script.book) /\ Succeeds(Step, script.book)
            \/ chain' = chain /\ ~Succeeds(Step, script.book)
<1>1. script # NoScript /\ Step.op = "try"
  BY DEF TryCall, Running, Step
<1>2. /\ ChainsOK(chain') /\ GrowsTo(chain, chain')
      /\ \/ Sent(chain, chain', Step, script.book) /\ Succeeds(Step, script.book)
         \/ chain' = chain /\ ~Succeeds(Step, script.book)
  <2>1. CASE Succeeds(Step, script.book)
    BY <1>1, <2>1, ScriptSends DEF TryCall
  <2>2. CASE ~Succeeds(Step, script.book)
    BY <2>2, StaysGrown DEF TryCall, Inv1
  <2> QED
    BY <2>1, <2>2
<1>3. script.pc \in Nat /\ script.errors \in BOOLEAN /\ crashes \in 0..MaxCrashes
  BY <1>1, RunningIs DEF Inv1, Control
<1>4. script.pc + 1 \in Nat /\ script.pc + 1 > script.pc
  BY <1>3
<1>5. GoTo(script.pc + 1, script.book, script.errors)
  BY DEF TryCall, Advance
<1>6. Inv1'
  BY <1>1, <1>2, <1>3, <1>4, <1>5, SameBookGoesOn DEF TryCall, workerVars
<1> QED
  BY <1>1, <1>2, <1>6

\* A step that fails for an outside reason keeps the first invariant.
LEMMA TryFailsInv1 ==
  ASSUME Inv1, TryFails
  PROVE  /\ Inv1' /\ script # NoScript /\ Step.op = "try"
         /\ Sent(chain, chain', Step, script.book) \/ chain' = chain
<1>1. script # NoScript /\ Step.op = "try"
  BY DEF TryFails, Running, Step
<1>2. /\ ChainsOK(chain') /\ GrowsTo(chain, chain')
      /\ Sent(chain, chain', Step, script.book) \/ chain' = chain
  <2>1. CASE Succeeds(Step, script.book) /\ Transact(Step, script.book)
    BY <1>1, <2>1, ScriptSends
  <2>2. CASE UNCHANGED chain
    BY <2>2, StaysGrown DEF Inv1
  <2> QED
    BY <2>1, <2>2 DEF TryFails
<1>3. script.pc \in Nat /\ Step.more \in {0, 1} /\ crashes' \in 0..MaxCrashes
  BY <1>1, RunningIs, DeploymentAssumption DEF Inv1, Control, KindOK, TryFails
<1> DEFINE pc == script.pc + 1 + Step.more
<1>4. pc \in Nat /\ pc > script.pc
  BY <1>3
<1>5. GoTo(pc, script.book, TRUE)
  BY DEF TryFails
<1> HIDE DEF pc
<1>6. Inv1'
  BY <1>1, <1>2, <1>3, <1>4, <1>5, SameBookGoesOn DEF TryFails, workerVars
<1> QED
  BY <1>1, <1>2, <1>6

\* Writing the file keeps the first invariant.
LEMMA WriteFileInv1 ==
  ASSUME Inv1, WriteFile
  PROVE  Inv1' /\ script # NoScript /\ Step.op = "write"
<1>1. script # NoScript /\ Step.op = "write"
  BY DEF WriteFile, Running, Step
<1>2. chain' = chain /\ BookOK(script.book, chain) /\ BookOK(file, chain)
  BY <1>1, RunningIs DEF WriteFile, Inv1
<1>3. BookOK(file', chain')
  <2>1. /\ DOMAIN file' = Sides
        /\ file'["root"] = Over(script.book["root"], file["root"])
        /\ file'["child"] = Over(script.book["child"], file["child"])
    BY DEF WriteFile, Sides
  <2>2. ASSUME NEW side \in Sides, NEW name \in DOMAIN file'[side]
        PROVE  file'[side][name] \in DOMAIN chain[side] /\ file'[side][name][1] = name
    <3>1. file'[side] = Over(script.book[side], file[side])
      BY <2>1 DEF Sides
    <3> QED
      BY <1>2, <3>1 DEF Over, BookOK
  <2> QED
    BY <1>2, <2>1, <2>2 DEF BookOK
<1>4. script.name \in {"migration2", "migration3"} /\ script.name = Current
  BY <1>1, RunningIs DEF KindOK
<1>5. script.pc \in Nat /\ script.errors \in BOOLEAN /\ crashes' \in 0..MaxCrashes
  BY <1>1, RunningIs DEF Inv1, Control, WriteFile
<1>6. script.pc + 1 \in Nat /\ script.pc + 1 > script.pc
  BY <1>5
<1>7. GoTo(script.pc + 1, script.book, script.errors)
  BY DEF WriteFile, Advance
<1>8. script.name \notin Readers
  BY <1>4 DEF Readers
<1>9. next # 5
  BY <1>1, <1>4, RunningIs, CurrentIs DEF Inv1
<1>10. script.name = "migration3" => ChildManagerProxy \in DOMAIN script.book["child"]
  <2> SUFFICES ASSUME script.name = "migration3" PROVE ChildManagerProxy \in DOMAIN script.book["child"]
    OBVIOUS
  <2>1. script.pc \in 1..9
    BY <1>1, RunningIs DEF Length
  <2>2. script.pc \notin {1, 2}
    BY <1>1, Migration3At DEF Step, Steps, New
  <2> QED
    BY <1>1, <2>1, <2>2 DEF Inv1, ScriptOK
<1>11. ChainsOK(chain') /\ GrowsTo(chain, chain') /\ BookOK(script.book, chain')
  BY <1>2, StaysGrown DEF Inv1
<1> QED
  BY <1>1, <1>3, <1>5, <1>6, <1>7, <1>8, <1>9, <1>10, <1>11, ScriptGoesOn DEF WriteFile, workerVars

\* Extracting the addresses keeps the first invariant.
LEMMA ExtractFileInv1 ==
  ASSUME Inv1, ExtractFile
  PROVE  /\ Inv1' /\ script # NoScript /\ script.name = "extractAddresses" /\ Moonwalker /\ next = 3
         /\ file'.child = file.child /\ file'.root = Over(Extracted(status), file.root)
<1>1. script # NoScript /\ Step.op = "extract"
  BY DEF ExtractFile, Running, Step
<1>2. chain' = chain /\ BookOK(script.book, chain) /\ BookOK(file, chain)
  BY <1>1, RunningIs DEF ExtractFile, Inv1
<1>3. /\ DOMAIN file' = Sides /\ file'["child"] = file["child"]
      /\ file'["root"] = Over(Extracted(status), file["root"])
  BY <1>2 DEF ExtractFile, BookOK, Sides
<1>4. BookOK(file', chain')
  <2>1. ASSUME NEW name \in DOMAIN file'["root"]
        PROVE  file'["root"][name] \in DOMAIN chain["root"] /\ file'["root"][name][1] = name
    <3>1. \A n \in DOMAIN Extracted(status) :
            Extracted(status)[n] \in DOMAIN chain["root"] /\ Extracted(status)[n][1] = n
      BY ExtractedOK DEF Inv1
    <3> QED
      BY <1>2, <1>3, <3>1 DEF Over, BookOK, Sides
  <2> QED
    BY <1>2, <1>3, <2>1 DEF BookOK, Sides
<1>5. script.name = "extractAddresses" /\ script.name = Current
  BY <1>1, RunningIs DEF KindOK
<1>6. script.pc \in Nat /\ script.errors \in BOOLEAN /\ crashes' \in 0..MaxCrashes
  BY <1>1, RunningIs DEF Inv1, Control, ExtractFile
<1>7. script.pc + 1 \in Nat /\ script.pc + 1 > script.pc
  BY <1>6
<1>8. GoTo(script.pc + 1, script.book, script.errors)
  BY DEF ExtractFile, Advance
<1>9. script.name \notin Readers
  BY <1>5 DEF Readers
<1>10. Moonwalker /\ next = 3
  BY <1>1, <1>5, RunningIs, CurrentIs DEF Inv1
<1>11. ChainsOK(chain') /\ GrowsTo(chain, chain') /\ BookOK(script.book, chain')
  BY <1>2, StaysGrown DEF Inv1
<1>12. Inv1'
  BY <1>1, <1>4, <1>5, <1>6, <1>7, <1>8, <1>9, <1>10, <1>11, ScriptGoesOn DEF ExtractFile, workerVars
<1> QED
  BY <1>1, <1>3, <1>5, <1>10, <1>12

\* Starting over keeps the first invariant.
LEMMA RestartInv1 == ASSUME Inv1, Restart PROVE Inv1'
<1>1. Truffle /\ Truffle' /\ Final = 6 /\ Final' = 6
  BY DEF Restart, Truffle, Final
<1>2. Control'
  <2>1. failed' \in BOOLEAN
    BY DEF Restart
  <2>2. /\ next' = 1 /\ path' = path /\ worker' = worker /\ queue' = queue /\ status' = status
        /\ crashes' = crashes
    BY DEF Restart, workerVars
  <2>3. worker = "down" /\ queue = << >> /\ status = << >> /\ path \in {"truffle", "moonwalker"}
    BY <1>1 DEF Inv1, Control
  <2>4. crashes \in 0..MaxCrashes
    BY DEF Inv1, Control
  <2> QED
    BY <1>1, <2>1, <2>2, <2>3, <2>4 DEF Control
<1>3. ScriptOK'
  BY DEF Restart, ScriptOK
<1>4. QueueOK'
  BY <1>1 DEF QueueOK, Moonwalker, Truffle
<1>5. WorkerOK' /\ StatusOK(status', chain') /\ ChainsOK(chain') /\ BookOK(file', chain')
  BY DEF Restart, workerVars, Inv1, WorkerOK, Task
<1> QED
  BY <1>2, <1>3, <1>4, <1>5 DEF Inv1

\* Queueing a task keeps the first invariant; the task is put last.
LEMMA QueueTaskInv1 ==
  ASSUME Inv1, QueueTask
  PROVE  /\ Inv1' /\ script # NoScript /\ Moonwalker
         /\ queue' = Append(queue, queue'[Len(queue) + 1]) /\ Len(queue') = Len(queue) + 1 /\ Len(queue) \in Nat
         /\ \A i \in 1..Len(queue) : queue'[i] = queue[i]
         /\ \/ /\ next = 1 /\ script.name = "queueRootDeployment" /\ script.pc \in 7..34
               /\ queue'[Len(queue) + 1] = [id |-> script.pc - 7, step |-> QueuedDeployments[script.pc - 6]]
            \/ /\ next = 5 /\ script.name = "queueRootInitializations" /\ script.pc \in 1..19
               /\ queue'[Len(queue) + 1]
                    = [id |-> 27 + script.pc, step |-> FixedStep(RootInitializations[script.pc], file)]
<1>1. script # NoScript /\ Step.op = "queue"
  BY DEF QueueTask, Running, Step
<1>2. /\ script.name \in ScriptNames /\ script.pc \in 1..Length(script.name)
      /\ script.name = Current /\ next \in 1..Final /\ script.errors \in BOOLEAN
      /\ script.name \in {"queueRootDeployment", "queueRootInitializations"}
      /\ BookOK(script.book, chain)
  BY <1>1, RunningIs DEF KindOK
<1> DEFINE task == [id |-> Step.id, step |-> FixedStep(Step.step, script.book)]
<1>3. /\ script.name = "queueRootDeployment" =>
            script.pc \in 7..34 /\ task = [id |-> script.pc - 7, step |-> QueuedDeployments[script.pc - 6]]
      /\ script.name = "queueRootInitializations" =>
            script.pc \in 1..19
              /\ task = [id |-> 27 + script.pc, step |-> FixedStep(RootInitializations[script.pc], script.book)]
  <2>1. Steps(script.name)[script.pc].op = "queue"
    BY <1>1 DEF Step
  <2> QED
    BY <1>2, <2>1, QueuedSteps DEF Step
<1>4. script.name = "queueRootInitializations" => script.book = file
  BY <1>1 DEF Inv1, ScriptOK, Readers
<1>5. queue' = Append(queue, task)
  BY DEF QueueTask
<1>6. Moonwalker /\ IF script.name = "queueRootDeployment" THEN next = 1 ELSE next = 5
  BY <1>2, CurrentIs DEF Inv1
<1> HIDE DEF task
<1> DEFINE S == IF script.name = "queueRootDeployment" THEN DeployTasks ELSE InitTasks(file)
<1>7. queue \in Seq(S)
  BY <1>6 DEF Inv1, QueueOK
<1>8. task \in S
  <2>1. CASE script.name = "queueRootDeployment"
    <3>1. script.pc - 6 \in 1..28 /\ (script.pc - 6) - 1 = script.pc - 7
      BY <1>3, <2>1
    <3> QED
      BY <1>3, <2>1, <3>1 DEF DeployTasks
  <2>2. CASE script.name = "queueRootInitializations"
    BY <1>3, <1>4, <2>2 DEF InitTasks
  <2> QED
    BY <1>2, <2>1, <2>2
<1>9. /\ queue' \in Seq(S) /\ Len(queue) \in Nat /\ Len(queue') = Len(queue) + 1
      /\ queue'[Len(queue) + 1] = task /\ \A i \in 1..Len(queue) : queue'[i] = queue[i]
  <2> HIDE DEF S
  <2> QED
    BY <1>5, <1>7, <1>8
<1>10. GoTo(script.pc + 1, script.book, script.errors)
  BY DEF QueueTask, Advance
<1>11. /\ path' = path /\ chain' = chain /\ file' = file /\ status' = status /\ worker' = worker
       /\ mined' = mined /\ failed' = failed /\ crashes' = crashes
  BY DEF QueueTask, workerVars
<1>12. /\ ScriptOK' /\ next' \in 1..(Final + 1) /\ Final' = Final
       /\ next' = next \/ next' = next + 1
  <2>1. script.pc \in Nat
    BY <1>1, RunningIs
  <2>2. script.pc + 1 \in Nat /\ script.pc + 1 > script.pc
    BY <2>1
  <2>3. script.name \in Readers => script.book = file'
    BY <1>1, <1>11 DEF Inv1, ScriptOK
  <2>4. script.name # "migration3"
    BY <1>2
  <2> QED
    BY <1>1, <1>2, <1>10, <1>11, <2>2, <2>3, <2>4, GoToKeeps DEF Inv1
<1>13. QueueOK'
  <2>1. CASE script.name = "queueRootDeployment"
    <3>1. next' \in {1, 2} /\ queue' \in Seq(DeployTasks)
      BY <1>6, <1>9, <1>12, <2>1
    <3> HIDE DEF DeployTasks
    <3> QED
      BY <3>1 DEF QueueOK
  <2>2. CASE script.name = "queueRootInitializations"
    <3>1. next' \in {5, 6} /\ queue' \in Seq(InitTasks(file'))
      BY <1>6, <1>9, <1>11, <1>12, <2>2
    <3> QED
      BY <3>1 DEF QueueOK
  <2> QED
    BY <1>2, <2>1, <2>2
<1>14. Control'
  <2>1. next' = 1 => next = 1
    BY <1>2, <1>12 DEF Final
  <2>2. ~Truffle /\ ~Truffle'
    BY <1>6, <1>11 DEF Moonwalker, Truffle
  <2>3. next' \in 1..(Final' + 1)
    BY <1>12
  <2> QED
    BY <1>11, <2>1, <2>2, <2>3 DEF Inv1, Control
<1>15. WorkerOK'
  <2>1. queue' # << >>
    BY <1>9
  <2>2. queue # << >> => Task' = Task
    <3> HIDE DEF S
    <3>1. queue # << >> => Len(queue) > 0
      BY <1>7
    <3>2. Task' = queue'[1] /\ Task = queue[1]
      BY <1>7, <1>9 DEF Task
    <3> QED
      BY <1>9, <3>1, <3>2
  <2> QED
    BY <1>11, <2>1, <2>2 DEF Inv1, WorkerOK
<1>16. Inv1'
  BY <1>11, <1>12, <1>13, <1>14, <1>15 DEF Inv1
<1>17. queue' = Append(queue, queue'[Len(queue) + 1])
  BY <1>5, <1>9
<1> QED
  BY <1>1, <1>2, <1>3, <1>4, <1>6, <1>9, <1>16, <1>17

\* A step of the worker, or of the operator who starts and stops it.
LEMMA WorkerGoesOn ==
  ASSUME Inv1, path' = path, file' = file, script' = script, failed' = failed, next' = next,
         crashes' \in 0..MaxCrashes, Moonwalker, next # 1,
         ChainsOK(chain'), GrowsTo(chain, chain'),
         worker' \in {"down", "idle", "sent", "handled"}, StatusOK(status', chain'),
         QueueOK', WorkerOK'
  PROVE  Inv1'
<1>1. Control'
  <2>1. ~Truffle' /\ Final' = Final
    BY DEF Truffle, Moonwalker, Final
  <2> QED
    BY <2>1 DEF Inv1, Control
<1>2. BookOK(file', chain')
  BY BookKeeps DEF Inv1
<1>3. ScriptOK'
  <2>1. script # NoScript => BookOK(script.book, chain')
    BY BookKeeps DEF Inv1, ScriptOK
  <2>2. Final' = Final /\ Current' = Current
    BY DEF Final, Current, Truffle
  <2> QED
    BY <2>1, <2>2 DEF Inv1, ScriptOK
<1> QED
  BY <1>1, <1>2, <1>3 DEF Inv1

\* The worker runs on mainnet only, and not before there is a queue.
LEMMA WorkerAt == ASSUME Inv1, worker # "down" PROVE Moonwalker /\ next # 1
BY DEF Inv1, Control, Truffle, Moonwalker

\* Starting the worker keeps the first invariant.
LEMMA StartWorkerInv1 == ASSUME Inv1, StartWorker PROVE Inv1'
<1>1. Moonwalker /\ next # 1
  <2>1. Control /\ next <= Final /\ Current = "processQueue"
    <3>1. Control /\ next \in Nat /\ Final \in {6, 9} /\ ~Done /\ Current = "processQueue"
      BY DEF Inv1, Control, Final, StartWorker
    <3> QED
      BY <3>1, CurrentIs
  <2> QED
    BY <2>1, CurrentIs
<1>2. QueueOK' /\ WorkerOK'
  BY DEF StartWorker, Inv1, QueueOK, Moonwalker, WorkerOK
<1>3. ChainsOK(chain') /\ GrowsTo(chain, chain') /\ StatusOK(status', chain')
  BY StaysGrown DEF StartWorker, Inv1
<1>4. crashes \in 0..MaxCrashes
  BY DEF Inv1, Control
<1> QED
  BY <1>1, <1>2, <1>3, <1>4, WorkerGoesOn DEF StartWorker

\* Sending a task keeps the first invariant; a task that fails changes no chain.
LEMMA SendTaskInv1 ==
  ASSUME Inv1, SendTask
  PROVE  /\ Inv1' /\ TaskOK /\ queue # << >> /\ next # 1
         /\ \/ Sent(chain, chain', Task.step, TaskBook) /\ worker' = "sent"
            \/ chain' = chain /\ ~Succeeds(Task.step, TaskBook) /\ worker' = "handled"
<1>1. worker = "idle" /\ queue # << >>
  BY DEF SendTask
<1>2. Moonwalker /\ next # 1
  BY <1>1, WorkerAt
<1>3. TaskOK
  BY <1>1, TaskIs DEF Inv1
<1>4. /\ ChainsOK(chain') /\ GrowsTo(chain, chain')
      /\ \/ Sent(chain, chain', Task.step, TaskBook) /\ Succeeds(Task.step, TaskBook) /\ worker' = "sent"
         \/ chain' = chain /\ ~Succeeds(Task.step, TaskBook) /\ worker' = "handled"
  <2>1. CASE Succeeds(Task.step, TaskBook)
    BY <1>1, <2>1, WorkerSends DEF SendTask
  <2>2. CASE ~Succeeds(Task.step, TaskBook)
    BY <2>2, StaysGrown DEF SendTask, Inv1
  <2> QED
    BY <2>1, <2>2
<1>5. Task' = Task /\ queue' = queue
  BY DEF Task, SendTask
<1>6. QueueOK'
  BY DEF SendTask, Inv1, QueueOK, Moonwalker
<1>7. WorkerOK'
  <2> SUFFICES ASSUME worker' = "sent", Task.step.op = "new"
               PROVE  mined' \in DOMAIN chain'.root /\ mined'[1] = Task.step.at[2]
    BY <1>1, <1>5 DEF WorkerOK
  <2>1. Sent(chain, chain', Task.step, TaskBook) /\ Succeeds(Task.step, TaskBook)
    BY <1>4
  <2>2. mined' = AddressOfNew(Task.step)
    BY <2>1 DEF SendTask
  <2> QED
    BY <1>3, <2>1, <2>2 DEF Sent, Deploys, AddressOfNew, TaskOK
<1>8. StatusOK(status', chain')
  BY <1>4, StatusKeeps DEF SendTask, Inv1
<1>9. crashes \in 0..MaxCrashes
  BY DEF Inv1, Control
<1>10. Inv1'
  BY <1>2, <1>4, <1>6, <1>7, <1>8, <1>9, WorkerGoesOn DEF SendTask
<1> QED
  BY <1>1, <1>2, <1>3, <1>4, <1>10

\* Recording a task keeps the first invariant.
LEMMA SaveStatusInv1 ==
  ASSUME Inv1, SaveStatus
  PROVE  /\ Inv1' /\ TaskOK /\ Moonwalker /\ next # 1
         /\ IsPut(status', status, Task.id,
                  [type |-> Task.step.op, name |-> Task.step.at[2], address |-> mined])
<1>1. worker = "sent" /\ queue # << >>
  BY DEF SaveStatus, Inv1, WorkerOK
<1>2. Moonwalker /\ next # 1
  BY <1>1, WorkerAt
<1>3. TaskOK
  BY <1>1, TaskIs DEF Inv1
<1> DEFINE entry == [type |-> Task.step.op, name |-> Task.step.at[2], address |-> mined]
<1>4. IsPut(status', status, Task.id, entry)
  BY PutIs DEF SaveStatus
<1>5. EntryOK(Task.id, entry, chain)
  <2>1. entry.type = Task.step.op /\ entry.name = Task.step.at[2] /\ entry.address = mined
    OBVIOUS
  <2> HIDE DEF entry
  <2>2. CASE next \in {1, 2}
    <3>1. Task.id \in 0..27 /\ Task.step = QueuedDeployments[Task.id + 1]
      BY <1>3, <2>2 DEF TaskOK
    <3>2. Task.step.op = "new" => mined \in DOMAIN chain["root"] /\ mined[1] = Task.step.at[2]
      BY <1>1 DEF Inv1, WorkerOK
    <3> QED
      BY <2>1, <3>1, <3>2 DEF EntryOK
  <2>3. CASE next \in {5, 6}
    <3>1. Task.id \in 28..46 /\ Task.step.op = "call"
      BY <1>3, <2>3 DEF TaskOK
    <3> QED
      BY <2>1, <3>1 DEF EntryOK
  <2> QED
    BY <1>3, <2>2, <2>3 DEF TaskOK
<1> HIDE DEF entry
<1>6. StatusOK(status', chain')
  <2>1. chain' = chain /\ Task.id \in 0..46
    BY <1>3 DEF SaveStatus, TaskOK
  <2> QED
    BY <1>4, <1>5, <2>1 DEF Inv1, StatusOK, IsPut
<1>7. QueueOK' /\ WorkerOK'
  BY <1>1 DEF SaveStatus, Inv1, QueueOK, Moonwalker, WorkerOK
<1>8. ChainsOK(chain') /\ GrowsTo(chain, chain') /\ crashes \in 0..MaxCrashes
  BY StaysGrown DEF SaveStatus, Inv1, Control
<1>9. Inv1'
  BY <1>2, <1>6, <1>7, <1>8, WorkerGoesOn DEF SaveStatus
<1> QED
  BY <1>2, <1>3, <1>4, <1>9 DEF entry

\* Acknowledging a task keeps the first invariant; it is the first of the queue.
LEMMA AckTaskInv1 ==
  ASSUME Inv1, AckTask
  PROVE  /\ Inv1' /\ TaskOK /\ next # 1 /\ Task = queue[1]
         /\ Len(queue) \in Nat \ {0} /\ Len(queue') = Len(queue) - 1
         /\ \A i \in 1..(Len(queue) - 1) : queue'[i] = queue[i + 1]
<1>1. worker = "handled" /\ queue # << >>
  BY DEF AckTask, Inv1, WorkerOK
<1>2. Moonwalker /\ next # 1
  BY <1>1, WorkerAt
<1>3. TaskOK /\ Len(queue) \in Nat \ {0} /\ Task = queue[1]
  BY <1>1, TaskIs DEF Inv1
<1>4. /\ \A S : queue \in Seq(S) => queue' \in Seq(S)
      /\ Len(queue') = Len(queue) - 1
      /\ \A i \in 1..(Len(queue) - 1) : queue'[i] = queue[i + 1]
  <2>1. \E S : queue \in Seq(S)
    BY <1>2, <1>3 DEF TaskOK, Inv1, QueueOK
  <2> QED
    BY <1>1, <2>1 DEF AckTask
<1>5. QueueOK'
  <2>1. next' = next /\ path' = path /\ file' = file /\ next \in {1, 2, 5, 6}
    BY <1>3 DEF AckTask, TaskOK
  <2> QED
    BY <1>4, <2>1 DEF Inv1, QueueOK, Moonwalker
<1>6. WorkerOK'
  BY DEF AckTask, WorkerOK
<1>7. ChainsOK(chain') /\ GrowsTo(chain, chain') /\ crashes \in 0..MaxCrashes /\ StatusOK(status', chain')
  BY StaysGrown DEF AckTask, Inv1, Control
<1>8. Inv1'
  BY <1>2, <1>5, <1>6, <1>7, WorkerGoesOn DEF AckTask
<1> QED
  BY <1>2, <1>3, <1>4, <1>8

\* Interrupting the worker keeps the first invariant.
LEMMA InterruptWorkerInv1 == ASSUME Inv1, InterruptWorker PROVE Inv1'
<1>1. Moonwalker /\ next # 1
  BY WorkerAt DEF InterruptWorker
<1>2. QueueOK' /\ WorkerOK'
  BY DEF InterruptWorker, Inv1, QueueOK, Moonwalker, WorkerOK
<1>3. ChainsOK(chain') /\ GrowsTo(chain, chain') /\ StatusOK(status', chain')
  BY StaysGrown DEF InterruptWorker, Inv1
<1>4. crashes' \in 0..MaxCrashes
  BY DeploymentAssumption DEF Inv1, Control, InterruptWorker
<1> QED
  BY <1>1, <1>2, <1>3, <1>4, WorkerGoesOn DEF InterruptWorker

\* Going on when the queue is empty keeps the first invariant.
LEMMA QueueProcessedInv1 ==
  ASSUME Inv1, QueueProcessed PROVE Inv1' /\ Moonwalker /\ next \in {2, 6} /\ next' = next + 1
<1>1. Control /\ next <= Final /\ Current = "processQueue"
  <2>1. Control /\ next \in Nat /\ Final \in {6, 9} /\ ~Done /\ Current = "processQueue"
    BY DEF Inv1, Control, Final, QueueProcessed
  <2> QED
    BY <2>1, CurrentIs
<1>2. Moonwalker /\ next \in {2, 6} /\ next' = next + 1 /\ path' = path
  BY <1>1, CurrentIs DEF QueueProcessed
<1>3. Moonwalker' /\ ~Truffle' /\ Final' = 9 /\ next' \in {3, 7}
  BY <1>2 DEF Moonwalker, Truffle, Final
<1>4. Control'
  BY <1>3 DEF QueueProcessed, Inv1, Control
<1>5. ScriptOK' /\ QueueOK' /\ WorkerOK'
  BY <1>3 DEF QueueProcessed, ScriptOK, QueueOK, WorkerOK
<1>6. ChainsOK(chain') /\ BookOK(file', chain') /\ StatusOK(status', chain')
  BY DEF QueueProcessed, Inv1
<1> QED
  BY <1>2, <1>4, <1>5, <1>6 DEF Inv1

\* The first invariant speaks of the variables only.
LEMMA StutterInv1 == ASSUME Inv1, UNCHANGED vars PROVE Inv1'
BY DEF vars, workerVars, Inv1, Control, ScriptOK, QueueOK, WorkerOK, Task, Current, Final, Truffle, Moonwalker

\* Every step keeps the first invariant.
LEMMA NextInv1 == Inv1 /\ [Next]_vars => Inv1'
<1> SUFFICES ASSUME Inv1, [Next]_vars PROVE Inv1'
  OBVIOUS
<1> QED
  BY StartScriptInv1, DeployContractInv1, CallContractInv1, CallRevertsInv1, TryCallInv1, QueueTaskInv1,
     WriteFileInv1, ExtractFileInv1, InterruptScriptInv1, TryFailsInv1, RestartInv1, StartWorkerInv1,
     SendTaskInv1, SaveStatusInv1, AckTaskInv1, InterruptWorkerInv1, QueueProcessedInv1, StutterInv1 DEF Next

\* The first invariant: chains, books, queue and script are in order.
THEOREM Inv1Holds == Spec => []Inv1
<1> QED
  BY InitInv1, NextInv1, PTL DEF Spec

\* The variables keep their types: every contract is at an address of its name and
\* only known accounts or contracts hold roles; every address in the file and in
\* the worker's status file is that of a contract that was deployed under the name
\* it is filed under; the queue has tasks of the runbook only.
THEOREM TypeSafe == Spec => []TypeOK
<1>1. Inv1 => TypeOK
  <2> SUFFICES ASSUME Inv1 PROVE TypeOK
    OBVIOUS
  <2>1. /\ path \in DOMAIN Runbook /\ next \in 1..(Len(Runbook[path]) + 1)
        /\ worker \in {"down", "idle", "sent", "handled"} /\ failed \in BOOLEAN /\ crashes \in 0..MaxCrashes
    BY RunbookIs, CurrentIs DEF Inv1, Control
  <2>2. ASSUME NEW side \in Sides, NEW a \in DOMAIN chain[side]
        PROVE  /\ a[2] > 0
               /\ \A role \in chain[side][a].roles :
                    role[2] \in {Deployer, NewOwner, StateReceiver} \cup DOMAIN chain[side]
               /\ chain[side][a].inited <=> chain[side][a].impl \in DOMAIN chain[side]
    <3>1. AddressesOK(chain[side]) /\ ContractOK(chain[side], chain[side][a])
      BY DEF Inv1, ChainsOK, ChainOK
    <3>2. a[2] \in 1..Count(chain[side], a[1]) /\ Count(chain[side], a[1]) \in Nat
      BY <3>1, NextIsNew DEF AddressesOK
    <3>3. None \notin DOMAIN chain[side]
      BY <3>1, ExternalAddresses
    <3> QED
      BY <3>1, <3>2, <3>3 DEF ContractOK, Accounts
  <2>3. \A side \in Sides : \A name \in DOMAIN file[side] :
          file[side][name] \in DOMAIN chain[side] /\ file[side][name][1] = name
    BY DEF Inv1, BookOK
  <2>4. ASSUME NEW id \in DOMAIN status, status[id].type = "new" PROVE status[id].address \in DOMAIN chain.root
    BY <2>4 DEF Inv1, StatusOK, EntryOK
  <2>5. ASSUME NEW i \in DOMAIN queue PROVE queue[i].id \in 0..46
    <3>1. path = "moonwalker" \/ queue = << >>
      BY DEF Inv1, Control, Truffle
    <3>2. CASE next \in {1, 2} /\ Moonwalker
      <4>1. queue \in Seq(DeployTasks)
        BY <3>2 DEF Inv1, QueueOK
      <4> HIDE DEF DeployTasks
      <4>2. queue[i] \in DeployTasks
        BY <4>1
      <4> QED
        BY <4>2 DEF DeployTasks
    <3>3. CASE next \in {5, 6} /\ Moonwalker
      <4>1. queue \in Seq(InitTasks(file))
        BY <3>3 DEF Inv1, QueueOK
      <4>2. queue[i] \in InitTasks(file)
        BY <4>1
      <4> QED
        BY <4>2 DEF InitTasks
    <3>4. CASE queue = << >>
      BY <3>4
    <3> QED
      BY <3>1, <3>2, <3>3, <3>4 DEF Inv1, QueueOK, Moonwalker
  <2> QED
    BY <2>1, <2>2, <2>3, <2>4, <2>5 DEF TypeOK, Sides
<1> QED
  BY <1>1, Inv1Holds, PTL

\* A contract that was changed, by a call.
Changed(ch, ch2, step, book, a) ==
  LET side == step.at[1]
      args == ResolveAll(step.args, book)
  IN  /\ step.op # "new" /\ StepOK(step) /\ a \in DOMAIN ch[side]
      /\ step.at[2] \in DOMAIN book[side] /\ a = book[side][step.at[2]] /\ a[1] = step.at[2]
      /\ \A i \in DOMAIN step.args : Known(step.args[i], book)
      /\ IsResult(ch2[side][a], a[1], ch[side][a], step.method, args)
      /\ ch2[side][a] = Result(a[1], ch[side][a], step.method, args)
      /\ Passes(ch[side][a], step.method, args)
      /\ Reaches(ch[side], a, step.method)

\* A contract that is new.
Added(ch, ch2, step, book, a) ==
  /\ step.op = "new" /\ StepOK(step)
  /\ a \notin DOMAIN ch[step.at[1]] /\ a[1] = step.at[2]
  /\ ch2[step.at[1]][a] = Constructed(a[1], ResolveAll(step.args, book))

\* What a step that is sent does to each contract.
LEMMA SentAt ==
  ASSUME NEW ch, NEW ch2, NEW step, NEW book, Sent(ch, ch2, step, book), NEW side \in Sides
  PROVE  /\ \A a \in DOMAIN ch[side] :
              /\ a \in DOMAIN ch2[side]
              /\ \/ ch2[side][a] = ch[side][a]
                 \/ side = step.at[1] /\ Changed(ch, ch2, step, book, a)
         /\ \A a \in DOMAIN ch2[side] :
              a \in DOMAIN ch[side] \/ (side = step.at[1] /\ Added(ch, ch2, step, book, a))
<1>1. side # step.at[1] => ch2[side] = ch[side]
  BY DEF Sent
<1>2. CASE side = step.at[1] /\ step.op = "new"
  BY <1>2 DEF Sent, Deploys, Added
<1>3. CASE side = step.at[1] /\ step.op # "new"
  BY <1>3 DEF Sent, Calls, Changed
<1> QED
  BY <1>1, <1>2, <1>3

\* What was initialized stays so.
LEMMA SentInited ==
  ASSUME NEW ch, NEW ch2, NEW step, NEW book, Sent(ch, ch2, step, book), NEW side \in Sides,
         NEW a \in DOMAIN ch[side], ch[side][a].inited
  PROVE  a \in DOMAIN ch2[side] /\ ch2[side][a].inited
<1>1. a \in DOMAIN ch2[side] /\ (ch2[side][a] = ch[side][a] \/ (side = step.at[1] /\ Changed(ch, ch2, step, book, a)))
  BY SentAt
<1> QED
  BY <1>1 DEF Changed, IsResult

\* Where a script goes.
ScriptMoves(pc, book, errors) ==
  \/ /\ next' = next /\ pc <= Length(script.name)
     /\ script' # NoScript /\ script'.name = script.name
     /\ script'.pc = pc /\ script'.book = book /\ script'.errors = errors
  \/ next' = next + 1 /\ script' = NoScript /\ ~errors /\ pc > Length(script.name)
  \/ next' = next /\ script' = NoScript /\ errors /\ pc > Length(script.name)

\* Where a script goes after a step.
LEMMA Moves ==
  ASSUME Inv1, script # NoScript, NEW pc \in Nat, NEW book, NEW errors \in BOOLEAN, GoTo(pc, book, errors)
  PROVE  ScriptMoves(pc, book, errors)
<1>1. /\ script.name \in ScriptNames /\ DOMAIN script = {"name", "pc", "errors", "book"}
      /\ Length(script.name) \in Nat
  BY RunningIs
<1>2. Len(Steps(script.name)) = Length(script.name)
  BY <1>1, StepsAt DEF Listed
<1>3. CASE pc <= Length(script.name)
  <2>1. script' = [script EXCEPT !.pc = pc, !.book = book, !.errors = errors] /\ next' = next
    BY <1>2, <1>3 DEF GoTo
  <2>2. /\ DOMAIN script' = {"name", "pc", "errors", "book"} /\ script'.name = script.name
        /\ script'.pc = pc /\ script'.book = book /\ script'.errors = errors
    BY <1>1, <2>1
  <2>3. script' # NoScript
    <3>1. DOMAIN NoScript = {"name"}
      BY DEF NoScript
    <3> QED
      BY <2>2, <3>1
  <2> QED
    BY <1>3, <2>1, <2>2, <2>3 DEF ScriptMoves
<1>4. CASE ~(pc <= Length(script.name))
  <2>1. script' = NoScript /\ next' = IF errors THEN next ELSE next + 1
    BY <1>2, <1>4 DEF GoTo
  <2>2. pc > Length(script.name)
    BY <1>1, <1>4
  <2> QED
    BY <2>1, <2>2 DEF ScriptMoves
<1> QED
  BY <1>3, <1>4

\* The steps of migrations 2 and 3: a proxy is initialized right after it was
\* deployed, and the file is written last.
LEMMA MigrationSteps ==
  ASSUME NEW name \in {"migration2", "migration3"}, NEW pc \in 1..Length(name)
  PROVE  LET s == Steps(name)[pc]
             after == Steps(name)[pc + 1]
         IN  /\ s.op = "call" => s.method = "updateAndCall" /\ s.at[2] \in Proxies
             /\ s.op = "new" /\ s.at[2] \in Proxies => after.op = "call" /\ after.at[2] = s.at[2]
             /\ s.op \in {"new", "call", "write"}
             /\ s.op = "write" <=> pc = Length(name)
<1>1. /\ RootManager \notin Proxies /\ StateSender \notin Proxies /\ ChildManager \notin Proxies
      /\ RootManagerProxy \in Proxies /\ ChildManagerProxy \in Proxies
      /\ \A t \in TokenType : /\ Predicate(t) \notin Proxies /\ RootToken(t) \notin Proxies
                              /\ ChildToken(t) \notin Proxies /\ PredicateProxy(t) \in Proxies
  BY DEF Proxies, RootManager, StateSender, ChildManager, RootManagerProxy, ChildManagerProxy,
         Predicate, RootToken, ChildToken, PredicateProxy
<1>2. CASE name = "migration3"
  <2>1. pc \in 1..9 /\ Steps(name) = Migration3 /\ Length(name) = 9
    BY <1>2 DEF Length, Steps
  <2>2. CASE pc \in {1, 2, 3, 9}
    BY <1>1, <2>1, <2>2, Migration3At DEF New, Call, Child, WriteAddresses
  <2>3. CASE pc \notin {1, 2, 3, 9}
    <3>1. pc - 3 \in 1..5 /\ 3 + (pc - 3) = pc
      BY <2>1, <2>3
    <3>2. Steps(name)[pc] = New(Child(ChildToken(TypeList[pc - 3])), <<Child(ChildManagerProxy)>>)
      BY <2>1, <3>1, Migration3At
    <3>3. ChildToken(TypeList[pc - 3]) \notin Proxies
      BY <1>1, <3>1, Types
    <3> QED
      BY <2>1, <2>3, <3>2, <3>3 DEF New, Child
  <2> QED
    BY <2>2, <2>3
<1>3. CASE name = "migration2"
  <2>1. pc \in 1..24 /\ Steps(name) = Migration2 /\ Length(name) = 24
    BY <1>3 DEF Length, Steps
  <2>2. CASE pc = 24
    BY <2>1, <2>2, Migration2At DEF WriteAddresses
  <2>3. CASE pc # 24
    <3>1. pc \in 1..23 /\ Steps(name)[pc] = RootDeployments[pc]
          /\ (pc # 23 => pc + 1 \in 1..23 /\ Steps(name)[pc + 1] = RootDeployments[pc + 1])
      BY <2>1, <2>3, Migration2At
    <3> DEFINE Good(s) == /\ s.op \in {"new", "call"}
                          /\ s.op = "call" => s.method = "updateAndCall" /\ s.at[2] \in Proxies
    <3>2. CASE pc \in {1, 2, 3, 19}
      <4>1. 1 \in 1..5 /\ 3 * 1 + 1 = 4
        OBVIOUS
      <4> QED
        BY <1>1, <2>1, <3>1, <3>2, DeploymentsAt DEF New, Call, Root
    <3>3. CASE pc \in 20..23
      <4>1. pc - 19 \in 1..4 /\ 19 + (pc - 19) = pc
        BY <3>3
      <4>2. RootDeployments[pc] = New(Root(RootToken(TypeList[pc - 19])), << >>)
        BY <4>1, DeploymentsAt
      <4>3. RootToken(TypeList[pc - 19]) \notin Proxies
        BY <1>1, <4>1, Types
      <4> QED
        BY <2>1, <2>3, <3>1, <4>2, <4>3 DEF New, Root
    <3>4. ASSUME NEW i \in 1..5, pc \in {3 * i + 1, 3 * i + 2, 3 * i + 3}
          PROVE  /\ Good(RootDeployments[pc])
                 /\ RootDeployments[pc].op = "new" /\ RootDeployments[pc].at[2] \in Proxies =>
                      pc # 23 /\ RootDeployments[pc + 1].op = "call" /\ RootDeployments[pc + 1].at[2] = RootDeployments[pc].at[2]
      <4>1. TypeList[i] \in TokenType
        BY Types
      <4>2. /\ RootDeployments[3 * i + 1] = New(Root(Predicate(TypeList[i])), << >>)
            /\ RootDeployments[3 * i + 2] = New(Root(PredicateProxy(TypeList[i])), << >>)
            /\ RootDeployments[3 * i + 3] = Call(Root(PredicateProxy(TypeList[i])), "updateAndCall",
                                                <<Root(Predicate(TypeList[i]))>>)
        BY DeploymentsAt
      <4>3. CASE pc = 3 * i + 1
        BY <1>1, <4>1, <4>2, <4>3 DEF New, Root
      <4>4. CASE pc = 3 * i + 2
        <5>1. pc + 1 = 3 * i + 3 /\ pc # 23
          BY <4>4
        <5> QED
          BY <1>1, <4>1, <4>2, <4>4, <5>1 DEF New, Root, Call
      <4>5. CASE pc = 3 * i + 3
        BY <1>1, <4>1, <4>2, <4>5 DEF Call, Root
      <4> QED
        BY <3>4, <4>3, <4>4, <4>5
    <3>5. CASE pc \in 4..18
      <4>1. \E i \in 1..5 : pc \in {3 * i + 1, 3 * i + 2, 3 * i + 3}
        <5>1. pc \in {4, 5, 6} \/ pc \in {7, 8, 9} \/ pc \in {10, 11, 12} \/ pc \in {13, 14, 15} \/ pc \in {16, 17, 18}
          BY <3>5
        <5>2. /\ pc \in {4, 5, 6} => pc \in {3 * 1 + 1, 3 * 1 + 2, 3 * 1 + 3}
              /\ pc \in {7, 8, 9} => pc \in {3 * 2 + 1, 3 * 2 + 2, 3 * 2 + 3}
              /\ pc \in {10, 11, 12} => pc \in {3 * 3 + 1, 3 * 3 + 2, 3 * 3 + 3}
              /\ pc \in {13, 14, 15} => pc \in {3 * 4 + 1, 3 * 4 + 2, 3 * 4 + 3}
              /\ pc \in {16, 17, 18} => pc \in {3 * 5 + 1, 3 * 5 + 2, 3 * 5 + 3}
          OBVIOUS
        <5>3. 1 \in 1..5 /\ 2 \in 1..5 /\ 3 \in 1..5 /\ 4 \in 1..5 /\ 5 \in 1..5
          OBVIOUS
        <5> QED
          BY <5>1, <5>2, <5>3
      <4> QED
        BY <2>1, <2>3, <3>1, <3>4, <4>1
    <3> QED
      BY <3>1, <3>2, <3>3, <3>5
  <2> QED
    BY <2>2, <2>3
<1> QED
  BY <1>2, <1>3

\* The names that they deploy.
LEMMA MigrationNames ==
  /\ \A name \in RootNames : \E j \in 1..23 : /\ Steps("migration2")[j].op = "new"
                                              /\ Steps("migration2")[j].at[2] = name
  /\ \A name \in ChildNames : \E j \in 1..8 : /\ Steps("migration3")[j].op = "new"
                                              /\ Steps("migration3")[j].at[2] = name
<1>1. \A t \in TokenType : \E i \in 1..5 : t = TypeList[i] /\ (t # "Ether" => i \in 1..4)
  BY Types DEF TokenType
<1>2. ASSUME NEW name \in RootNames
      PROVE  \E j \in 1..23 : Steps("migration2")[j].op = "new" /\ Steps("migration2")[j].at[2] = name
  <2>1. \A j \in 1..23 : Steps("migration2")[j] = RootDeployments[j]
    BY Migration2At DEF Steps
  <2>2. CASE name = RootManagerProxy
    <3>1. RootDeployments[2].op = "new" /\ RootDeployments[2].at[2] = name /\ 2 \in 1..23
      BY <2>2, DeploymentsAt DEF New, Root
    <3> QED
      BY <2>1, <3>1
  <2>3. CASE name = StateSender
    <3>1. RootDeployments[19].op = "new" /\ RootDeployments[19].at[2] = name /\ 19 \in 1..23
      BY <2>3, DeploymentsAt DEF New, Root
    <3> QED
      BY <2>1, <3>1
  <2>4. ASSUME NEW i \in 1..5, name = PredicateProxy(TypeList[i])
        PROVE  \E j \in 1..23 : Steps("migration2")[j].op = "new" /\ Steps("migration2")[j].at[2] = name
    <3>1. RootDeployments[3 * i + 2] = New(Root(PredicateProxy(TypeList[i])), << >>) /\ 3 * i + 2 \in 1..23
      BY DeploymentsAt
    <3>2. RootDeployments[3 * i + 2].op = "new" /\ RootDeployments[3 * i + 2].at[2] = name
      BY <2>4, <3>1 DEF New, Root
    <3> QED
      BY <2>1, <3>1, <3>2
  <2>5. ASSUME NEW i \in 1..4, name = RootToken(TypeList[i])
        PROVE  \E j \in 1..23 : Steps("migration2")[j].op = "new" /\ Steps("migration2")[j].at[2] = name
    <3>1. RootDeployments[19 + i] = New(Root(RootToken(TypeList[i])), << >>) /\ 19 + i \in 1..23
      BY DeploymentsAt
    <3>2. RootDeployments[19 + i].op = "new" /\ RootDeployments[19 + i].at[2] = name
      BY <2>5, <3>1 DEF New, Root
    <3> QED
      BY <2>1, <3>1, <3>2
  <2> QED
    BY <1>1, <2>2, <2>3, <2>4, <2>5 DEF RootNames
<1>3. ASSUME NEW name \in ChildNames
      PROVE  \E j \in 1..8 : Steps("migration3")[j].op = "new" /\ Steps("migration3")[j].at[2] = name
  <2>1. Steps("migration3") = Migration3
    BY DEF Steps
  <2>2. CASE name = ChildManagerProxy
    <3>1. Migration3[2].op = "new" /\ Migration3[2].at[2] = name /\ 2 \in 1..8
      BY <2>2, Migration3At DEF New, Child
    <3> QED
      BY <2>1, <3>1
  <2>3. ASSUME NEW i \in 1..5, name = ChildToken(TypeList[i])
        PROVE  \E j \in 1..8 : Steps("migration3")[j].op = "new" /\ Steps("migration3")[j].at[2] = name
    <3>1. Migration3[3 + i] = New(Child(ChildToken(TypeList[i])), <<Child(ChildManagerProxy)>>) /\ 3 + i \in 1..8
      BY Migration3At
    <3>2. Migration3[3 + i].op = "new" /\ Migration3[3 + i].at[2] = name
      BY <2>3, <3>1 DEF New, Child
    <3> QED
      BY <2>1, <3>1, <3>2
  <2> QED
    BY <1>1, <2>2, <2>3 DEF ChildNames
<1> QED
  BY <1>2, <1>3

\* Who sends a transaction: a script, the worker, or no one.
ScriptTransacts ==
  /\ script # NoScript /\ Step.op \in {"new", "call", "try"}
  /\ Sent(chain, chain', Step, script.book)
  /\ file' = file /\ status' = status /\ queue' = queue /\ worker' = worker

WorkerTransacts ==
  /\ SendTask /\ TaskOK /\ queue # << >> /\ next # 1 /\ next' = next /\ worker' = "sent"
  /\ Sent(chain, chain', Task.step, TaskBook)

ChainMoves == ScriptTransacts \/ WorkerTransacts \/ chain' = chain

\* The steps that change the contracts.
LEMMA ChainGoes == ASSUME Inv1, [Next]_vars PROVE ChainMoves /\ path' = path
<1>1. CASE DeployContract
  BY <1>1, DeployContractInv1 DEF ChainMoves, ScriptTransacts, DeployContract, workerVars
<1>2. CASE CallContract
  BY <1>2, CallContractInv1 DEF ChainMoves, ScriptTransacts, CallContract, workerVars
<1>3. CASE TryCall
  BY <1>3, TryCallInv1 DEF ChainMoves, ScriptTransacts, TryCall, workerVars
<1>4. CASE TryFails
  BY <1>4, TryFailsInv1 DEF ChainMoves, ScriptTransacts, TryFails, workerVars
<1>5. CASE SendTask
  <2>1. next' = next /\ path' = path
    BY <1>5 DEF SendTask
  <2> QED
    BY <1>5, <2>1, SendTaskInv1 DEF ChainMoves, WorkerTransacts
<1>6. CASE StartScript \/ CallReverts \/ InterruptScript \/ Restart
  BY <1>6 DEF ChainMoves, StartScript, CallReverts, InterruptScript, Restart
<1>7. CASE QueueTask \/ WriteFile \/ ExtractFile
  BY <1>7 DEF ChainMoves, QueueTask, WriteFile, ExtractFile
<1>8. CASE StartWorker \/ SaveStatus \/ AckTask \/ InterruptWorker \/ QueueProcessed
  BY <1>8 DEF ChainMoves, StartWorker, SaveStatus, AckTask, InterruptWorker, QueueProcessed
<1>9. CASE UNCHANGED vars
  BY <1>9 DEF ChainMoves, vars
<1> QED
  BY <1>1, <1>2, <1>3, <1>4, <1>5, <1>6, <1>7, <1>8, <1>9 DEF Next

\* The runbook goes on by a step when a script is through, or the queue was processed.
ScriptEnds == script # NoScript /\ next' = next + 1 /\ script' = NoScript

NextMoves ==
  \/ next' = next
  \/ Truffle /\ next' = 1 /\ script' = NoScript
  \/ ScriptEnds
  \/ QueueProcessed

\* A step of a script leaves the runbook where it is or ends the script.
LEMMA GoToMoves ==
  ASSUME Inv1, script # NoScript, NEW pc \in Nat, NEW book, NEW errors \in BOOLEAN, GoTo(pc, book, errors)
  PROVE  next' = next \/ ScriptEnds
BY Moves DEF ScriptMoves, ScriptEnds

\* The steps that go on in the runbook.
LEMMA NextGoes == ASSUME Inv1, [Next]_vars PROVE NextMoves
<1>1. script # NoScript =>
        /\ script.pc \in Nat /\ script.pc + 1 \in Nat /\ script.errors \in BOOLEAN
        /\ (Step.op = "try" => script.pc + 1 + Step.more \in Nat)
  <2> SUFFICES ASSUME script # NoScript
               PROVE  /\ script.pc \in Nat /\ script.pc + 1 \in Nat /\ script.errors \in BOOLEAN
                      /\ (Step.op = "try" => script.pc + 1 + Step.more \in Nat)
    OBVIOUS
  <2>1. script.pc \in Nat /\ script.errors \in BOOLEAN /\ KindOK(script.name, script.pc, Step)
    BY RunningIs
  <2>2. Step.op = "try" => Step.more \in {0, 1}
    BY <2>1 DEF KindOK
  <2> QED
    BY <2>1, <2>2
<1>2. CASE \E book : Advance(book) /\ script # NoScript
  <2>1. PICK book : Advance(book)
    BY <1>2
  <2> QED
    BY <1>1, <1>2, <2>1, GoToMoves DEF Advance, NextMoves
<1>3. CASE TryFails
  <2>1. script # NoScript /\ Step.op = "try" /\ GoTo(script.pc + 1 + Step.more, script.book, TRUE)
    BY <1>3 DEF TryFails, Running, Step
  <2>2. TRUE \in BOOLEAN
    OBVIOUS
  <2> QED
    BY <1>1, <2>1, <2>2, GoToMoves DEF NextMoves
<1>4. CASE DeployContract \/ CallContract \/ TryCall \/ QueueTask \/ WriteFile \/ ExtractFile
  <2>1. script # NoScript
    BY <1>4 DEF DeployContract, CallContract, TryCall, QueueTask, WriteFile, ExtractFile, Running
  <2>2. \E book : Advance(book)
    BY <1>4 DEF DeployContract, CallContract, TryCall, QueueTask, WriteFile, ExtractFile
  <2> QED
    BY <1>2, <2>1, <2>2
<1>5. CASE Restart
  BY <1>5 DEF NextMoves, Restart, Truffle
<1>6. CASE StartScript \/ CallReverts \/ InterruptScript
  BY <1>6 DEF NextMoves, StartScript, CallReverts, InterruptScript
<1>7. CASE StartWorker \/ SendTask \/ SaveStatus \/ AckTask \/ InterruptWorker
  BY <1>7 DEF NextMoves, StartWorker, SendTask, SaveStatus, AckTask, InterruptWorker
<1>8. CASE QueueProcessed \/ UNCHANGED vars
  BY <1>8 DEF NextMoves, vars
<1> QED
  BY <1>3, <1>4, <1>5, <1>6, <1>7, <1>8 DEF Next

\* The runbook of mainnet never goes back.
LEMMA NextGrows ==
  ASSUME Inv1, [Next]_vars
  PROVE  /\ next \in Nat \ {0} /\ next' \in Nat
         /\ Moonwalker => next' = next \/ next' = next + 1
<1>1. next \in 1..(Final + 1) /\ Final \in Nat
  BY DEF Inv1, Control, Final
<1>2. Moonwalker => ~Truffle
  BY DEF Moonwalker, Truffle
<1>3. QueueProcessed => next' = next + 1
  BY DEF QueueProcessed
<1> QED
  BY <1>1, <1>2, <1>3, NextGoes DEF NextMoves, ScriptEnds
-----------------------------------------------------------------------------
\* The only calls among the deployments are those that give a proxy its code.
LEMMA DeployCalls ==
  \A s \in RootDeploys \cup LibraryDeploys : s.op = "call" => s.method = "updateAndCall" /\ s.at[2] \in Proxies
<1>1. ASSUME NEW s \in RootDeploys \cup LibraryDeploys, s.op = "call"
      PROVE  s.method = "updateAndCall" /\ s.at[2] \in Proxies
  <2>1. \A ref, args : New(ref, args).op = "new"
    BY DEF New
  <2>2. \/ s = Call(Root(RootManagerProxy), "updateAndCall", <<Root(RootManager)>>)
        \/ \E t \in TokenType : s = Call(Root(PredicateProxy(t)), "updateAndCall", <<Root(Predicate(t))>>)
    BY <1>1, <2>1 DEF RootDeploys, LibraryDeploys
  <2>3. \A ref, m, args : Call(ref, m, args).method = m /\ Call(ref, m, args).at = ref
    BY DEF Call
  <2>4. \A n : Root(n)[2] = n
    BY DEF Root
  <2>5. CASE s = Call(Root(RootManagerProxy), "updateAndCall", <<Root(RootManager)>>)
    BY <2>3, <2>4, <2>5 DEF Proxies
  <2>6. ASSUME NEW t \in TokenType,
               s = Call(Root(PredicateProxy(t)), "updateAndCall", <<Root(Predicate(t))>>)
        PROVE  s.method = "updateAndCall" /\ s.at[2] \in Proxies
    <3>1. s.method = "updateAndCall" /\ s.at[2] = PredicateProxy(t)
      BY <2>3, <2>4, <2>6
    <3> QED
      BY <3>1 DEF Proxies
  <2> QED
    BY <2>2, <2>5, <2>6
<1> QED
  BY <1>1

InitMethods ==
  {"setStateSender", "setChildChainManagerAddress", "setCheckpointManager", "registerPredicate",
   "mapRootToken", "grantRole"}

\* The methods of the initializations.
LEMMA InitCalls == \A s \in RootInits : s.method \in InitMethods
<1>1. \A ref, m, args : Call(ref, m, args).method = m
  BY DEF Call
<1>2. \A t : GrantManager(t).method = "grantRole" /\ Register(t).method = "registerPredicate"
             /\ MapOf(t).method = "mapRootToken"
  BY <1>1 DEF GrantManager, Register, MapOf
<1>3. GrantPredicate.method = "grantRole"
  BY <1>1 DEF GrantPredicate
<1>4. /\ ManagerSettings[1].method = "setStateSender" /\ ManagerSettings[2].method = "setChildChainManagerAddress"
      /\ ManagerSettings[3].method = "setCheckpointManager"
  BY <1>1 DEF ManagerSettings
<1> QED
  BY <1>2, <1>3, <1>4 DEF RootInits, InitMethods

\* What is sent to the root chain, on mainnet and before the owners are changed.
RootSends(step) ==
  /\ step.op = "call" => \/ next \in {1, 2} /\ step.method = "updateAndCall" /\ step.at[2] \in Proxies
                         \/ next \in {5, 6} /\ step.method \in InitMethods
  /\ step.op \in {"new", "call"}

\* What changes the root chain on mainnet, before its owners change.
LEMMA RootMoves ==
  ASSUME Inv1, [Next]_vars, Moonwalker, next < 8
  PROVE  \/ chain'.root = chain.root
         \/ \E step, book : step.at[1] = "root" /\ Sent(chain, chain', step, book) /\ RootSends(step)
<1> SUFFICES ASSUME chain'.root # chain.root
             PROVE  \E step, book : step.at[1] = "root" /\ Sent(chain, chain', step, book) /\ RootSends(step)
  OBVIOUS
<1>1. CASE ScriptTransacts
  <2>1. Step.at[1] = "root"
    BY <1>1 DEF ScriptTransacts, Sent, Sides
  <2>2. /\ script.name = Current /\ next \in 1..Final /\ KindOK(script.name, script.pc, Step)
    BY <1>1, RunningIs DEF ScriptTransacts
  <2>3. script.name \notin {"migration2", "migration4", "changeRootOwners"}
    BY <2>2, CurrentIs DEF Inv1, Moonwalker, Truffle, Final
  <2>4. Step.op = "new"
    BY <1>1, <2>1, <2>2, <2>3 DEF KindOK, ScriptTransacts
  <2>5. RootSends(Step)
    BY <2>4 DEF RootSends
  <2> QED
    BY <1>1, <2>1, <2>5 DEF ScriptTransacts
<1>2. CASE WorkerTransacts
  <2>1. TaskOK /\ next # 1 /\ Sent(chain, chain', Task.step, TaskBook)
    BY <1>2 DEF WorkerTransacts
  <2>2. Task.step.at[1] = "root" /\ Task.step.op \in {"new", "call"} /\ next \in {1, 2, 5, 6}
    BY <2>1 DEF TaskOK
  <2>3. next \in {1, 2} /\ Task.step.op = "call" =>
          Task.step.method = "updateAndCall" /\ Task.step.at[2] \in Proxies
    <3>1. ASSUME next \in {1, 2} PROVE Task.step \in RootDeploys \cup LibraryDeploys
      <4>1. Task.id \in 0..27 /\ Task.step = QueuedDeployments[Task.id + 1]
        BY <2>1, <3>1 DEF TaskOK
      <4>2. Task.id + 1 \in 1..28
        BY <4>1
      <4>3. \A i \in 1..28 : QueuedDeployments[i] \in RootDeploys \cup LibraryDeploys
        BY QueuedAt, ListedAt
      <4> QED
        BY <4>1, <4>2, <4>3
    <3> QED
      BY <3>1, DeployCalls
  <2>4. next \in {5, 6} => Task.step.method \in InitMethods
    <3>1. ASSUME next \in {5, 6} PROVE Task.step.method \in InitMethods
      <4>1. Task.id \in 28..46 /\ Task.step = FixedStep(RootInitializations[Task.id - 27], file)
        BY <2>1, <3>1 DEF TaskOK
      <4>2. Task.id - 27 \in 1..19
        BY <4>1
      <4>3. RootInitializations[Task.id - 27] \in RootInits
        <5>1. Listed(RootInitializations, 19, RootInits)
          BY InitsAt DEF Listed
        <5>2. \A i \in 1..19 : RootInitializations[i] \in RootInits
          BY <5>1, ListedAt
        <5> QED
          BY <4>2, <5>2
      <4> QED
        BY <4>1, <4>3, FixedOK, InitCalls
    <3> QED
      BY <3>1
  <2>5. RootSends(Task.step)
    BY <2>2, <2>3, <2>4 DEF RootSends
  <2> QED
    BY <2>1, <2>2, <2>5
<1> QED
  BY <1>1, <1>2, ChainGoes DEF ChainMoves

\* A contract of the root chain that no one gave away.
KeptAt(c, name, early) ==
  /\ name \in Proxies => c.proxyOwner = Deployer
  /\ name \in Proxies /\ c.inited => InitialRoles(name) \subseteq c.roles
  /\ name = RootToken("MintableERC721") => Has(c, "DEFAULT_ADMIN")
  /\ early => c.slots = << >>

\* On mainnet every step keeps what the root chain's contracts know.
LEMMA RootKeptNext ==
  ASSUME Inv1, RootKept, [Next]_vars PROVE RootKept'
<1>1. path' = path /\ Inv1'
  BY ChainGoes, NextInv1
<1> SUFFICES ASSUME Moonwalker, next' < 8, NEW a \in DOMAIN chain'.root
             PROVE  KeptAt(chain'.root[a], a[1], next' < 5)
  BY <1>1 DEF RootKept, KeptAt, Moonwalker
<1>2. next < 8 /\ (next' < 5 => next < 5)
  BY NextGrows
<1>3. \A b \in DOMAIN chain.root : KeptAt(chain.root[b], b[1], next < 5)
  BY <1>2 DEF RootKept, KeptAt
<1>4. CASE chain'.root = chain.root
  BY <1>2, <1>3, <1>4 DEF KeptAt
<1>5. CASE chain'.root # chain.root
  <2>1. PICK step, book : step.at[1] = "root" /\ Sent(chain, chain', step, book) /\ RootSends(step)
    BY <1>2, <1>5, RootMoves
  <2>2. "root" \in Sides
    BY DEF Sides
  <2>3. CASE a \in DOMAIN chain["root"] /\ chain'["root"][a] = chain["root"][a]
    BY <1>2, <1>3, <2>3 DEF KeptAt
  <2>4. CASE Changed(chain, chain', step, book, a)
    <3> DEFINE c == chain.root[a]  r == chain'.root[a]
    <3>1. /\ step.op # "new" /\ a \in DOMAIN chain.root /\ a[1] = step.at[2]
          /\ IsResult(r, a[1], c, step.method, ResolveAll(step.args, book))
          /\ r = Result(a[1], c, step.method, ResolveAll(step.args, book))
      BY <2>1, <2>4 DEF Changed
    <3>2. \/ next \in {1, 2} /\ step.method = "updateAndCall" /\ step.at[2] \in Proxies
          \/ next \in {5, 6} /\ step.method \in InitMethods
      BY <2>1, <3>1 DEF RootSends
    <3>3. KeptAt(c, a[1], next < 5)
      BY <1>3, <3>1
    <3> HIDE DEF c, r
    <3>4. CASE next \in {1, 2} /\ step.method = "updateAndCall" /\ step.at[2] \in Proxies
      <4>1. a[1] \in Proxies /\ a[1] # RootToken("MintableERC721")
        BY <3>1, <3>4 DEF Proxies, RootManagerProxy, ChildManagerProxy, PredicateProxy, RootToken
      <4> QED
        BY <1>2, <3>1, <3>3, <3>4, <4>1 DEF IsResult, KeptAt, r
    <3>5. CASE next \in {5, 6} /\ step.method \in InitMethods
      <4>1. /\ r.proxyOwner = c.proxyOwner /\ r.inited = c.inited /\ c.roles \subseteq r.roles
        <5>1. step.method \notin {"updateAndCall", "transferProxyOwnership", "revokeRole"}
          BY <3>5 DEF InitMethods
        <5>2. c.inited \in BOOLEAN
          BY <3>1 DEF Inv1, ChainsOK, ChainOK, ContractOK, Sides, c
        <5>3. r.inited = c.inited
          BY <3>1, <5>1, <5>2 DEF IsResult
        <5> QED
          BY <3>1, <5>1, <5>3 DEF IsResult
      <4>2. ~(next' < 5)
        BY <1>2, <3>5, NextGrows
      <4> QED
        BY <3>1, <3>3, <4>1, <4>2 DEF KeptAt, r, Has
    <3> QED
      BY <3>2, <3>4, <3>5
  <2>5. CASE Added(chain, chain', step, book, a)
    <3>1. \E args : chain'.root[a] = Constructed(a[1], args)
      BY <2>1, <2>5 DEF Added
    <3>2. PICK args : chain'.root[a] = Constructed(a[1], args)
      BY <3>1
    <3>3. a[1] = RootToken("MintableERC721") => Has(chain'.root[a], "DEFAULT_ADMIN")
      BY <3>2 DEF Constructed, ConstructorRoles, Has
    <3>4. /\ a[1] \in Proxies => chain'.root[a].proxyOwner = Deployer
          /\ chain'.root[a].inited = FALSE /\ chain'.root[a].slots = << >>
      BY <3>2 DEF Constructed
    <3> QED
      BY <3>3, <3>4 DEF KeptAt
  <2> QED
    BY <2>1, <2>2, <2>3, <2>4, <2>5, SentAt
<1> QED
  BY <1>4, <1>5

SideOf(name) == IF name = "migration2" THEN "root" ELSE "child"

\* What migrations 2 and 3 have collected, after they deployed a contract.
LEMMA DeployCollects ==
  ASSUME NEW name \in {"migration2", "migration3"}, NEW pc \in 1..Length(name), pc + 1 <= Length(name),
         Steps(name)[pc].op = "new",
         NEW book, NEW after, NEW ch, NEW ch2, NEW args, NEW new,
         IsPut(after, book, Steps(name)[pc].at[2], new), new = NextAddress(ch, Steps(name)[pc].at[2]),
         Deploys(ch, ch2, Steps(name)[pc].at[2], args),
         \A n \in DOMAIN book : book[n] \in DOMAIN ch,
         CollectedIn(name, pc, book, ch)
  PROVE  CollectedIn(name, pc + 1, after, ch2)
<1> DEFINE nm == Steps(name)[pc].at[2]
<1>1. /\ DOMAIN after = DOMAIN book \cup {nm} /\ after[nm] = new
      /\ \A n \in DOMAIN book : n # nm => after[n] = book[n]
  BY DEF IsPut
<1>2. pc \in Nat
  OBVIOUS
<1>3. ASSUME NEW j \in 1..((pc + 1) - 1), Steps(name)[j].op = "new"
      PROVE  Steps(name)[j].at[2] \in DOMAIN after
  <2>1. CASE j = pc
    BY <1>1, <2>1
  <2>2. CASE j # pc
    <3>1. j \in 1..(pc - 1)
      BY <1>2, <2>2
    <3>2. Steps(name)[j].at[2] \in DOMAIN book
      BY <1>3, <3>1 DEF CollectedIn
    <3> QED
      BY <1>1, <3>2
  <2> QED
    BY <2>1, <2>2
<1>4. ASSUME NEW n \in DOMAIN after \cap Proxies
      PROVE  /\ ch2[after[n]].inited \/ (Steps(name)[pc + 1].op = "call" /\ Steps(name)[pc + 1].at[2] = n)
             /\ ch2[after[n]].slots = << >>
  <2>1. CASE n = nm
    <3>1. Steps(name)[pc + 1].op = "call" /\ Steps(name)[pc + 1].at[2] = n
      BY <1>4, <2>1, MigrationSteps
    <3>2. ch2[new] = Constructed(nm, args)
      BY DEF Deploys
    <3> QED
      BY <1>1, <2>1, <3>1, <3>2 DEF Constructed
  <2>2. CASE n # nm
    <3>1. n \in DOMAIN book \cap Proxies /\ after[n] = book[n] /\ book[n] \in DOMAIN ch
      BY <1>1, <1>4, <2>2
    <3>2. ch2[book[n]] = ch[book[n]]
      BY <3>1 DEF Deploys
    <3>3. ch[book[n]].inited /\ ch[book[n]].slots = << >>
      BY <3>1 DEF CollectedIn
    <3> QED
      BY <3>1, <3>2, <3>3
  <2> QED
    BY <2>1, <2>2
<1> QED
  BY <1>3, <1>4 DEF CollectedIn

\* After they called one.
LEMMA CallCollects ==
  ASSUME NEW name \in {"migration2", "migration3"}, NEW pc \in 1..Length(name), 
         Steps(name)[pc].op = "call",
         NEW book, NEW ch, NEW ch2, NEW args,
         Calls(ch, ch2, book[Steps(name)[pc].at[2]], Steps(name)[pc].method, args),
         \A n \in DOMAIN book : book[n] \in DOMAIN ch /\ book[n][1] = n,
         Steps(name)[pc].at[2] \in DOMAIN book,
         \A a \in DOMAIN ch : ch[a].inited \in BOOLEAN,
         CollectedIn(name, pc, book, ch)
  PROVE  CollectedIn(name, pc + 1, book, ch2)
<1> DEFINE nm == Steps(name)[pc].at[2]  a == book[nm]
<1>0. pc \in Nat
  OBVIOUS
<1>1. Steps(name)[pc].method = "updateAndCall" /\ nm \in Proxies
  BY MigrationSteps
<1>2. a \in DOMAIN ch /\ Reaches(ch, a, "updateAndCall")
  BY DEF Reaches, Forwards
<1>3. ch2[a].inited /\ ch2[a].slots = ch[a].slots /\ \A b \in DOMAIN ch : b # a => ch2[b] = ch[b]
  BY <1>1, <1>2 DEF Calls, IsResult
<1>4. ASSUME NEW j \in 1..((pc + 1) - 1), Steps(name)[j].op = "new"
      PROVE  Steps(name)[j].at[2] \in DOMAIN book
  <2>1. j \in 1..(pc - 1)
    BY <1>0, <1>4
  <2> QED
    BY <1>4, <2>1 DEF CollectedIn
<1>5. ASSUME NEW n \in DOMAIN book \cap Proxies
      PROVE  ch2[book[n]].inited /\ ch2[book[n]].slots = << >>
  <2>1. CASE n = nm
    BY <1>3, <1>5, <2>1 DEF CollectedIn
  <2>2. CASE n # nm
    <3>1. book[n] # a /\ book[n] \in DOMAIN ch
      BY <2>2
    <3> QED
      BY <1>3, <2>2, <3>1 DEF CollectedIn
  <2> QED
    BY <2>1, <2>2
<1> QED
  BY <1>4, <1>5 DEF CollectedIn

\* A migration that deploys is the only one that sends anything to its chain.
MigrationAt(name) == Collected(SideOf(name)) /\ (name = "migration3" => DOMAIN script.book.root = {})

\* MigrationOK, one migration at a time.
LEMMA MigrationIs == MigrationOK <=> \A name \in {"migration2", "migration3"} : Runs(name) => MigrationAt(name)
BY DEF MigrationOK, MigrationAt, SideOf

\* While a migration runs there are no tasks.
LEMMA MigrationNotQueued ==
  ASSUME Inv1, NEW name \in {"migration2", "migration3"}, Runs(name) PROVE ~TaskOK /\ next # Final + 1
<1>1. script.name = Current /\ next \in 1..Final
  BY RunningIs DEF Runs
<1> QED
  BY <1>1, CurrentIs DEF Inv1, Runs, TaskOK, Moonwalker, Truffle, Final

\* Every step keeps what a migration has collected.
LEMMA MigrationNext ==
  ASSUME Inv1, MigrationOK, [Next]_vars PROVE MigrationOK'
<1> SUFFICES ASSUME NEW name \in {"migration2", "migration3"}, Runs(name)' PROVE MigrationAt(name)'
  BY DEF MigrationOK, MigrationAt, SideOf
<1>0. \A n \in {"migration2", "migration3"} : Runs(n) => MigrationAt(n)
  BY MigrationIs
<1>n. script' # NoScript /\ script'.name = name
  BY DEF Runs, NoScript
<1>1. CASE StartScript
  <2>1. script' = [name |-> Current, pc |-> 1, errors |-> FALSE,
                   book |-> IF Current \in Readers THEN file ELSE NoAddresses]
    BY <1>1 DEF StartScript
  <2>2. script'.pc = 1 /\ script'.book = NoAddresses
    BY <1>n, <2>1 DEF Readers
  <2>3. DOMAIN NoAddresses["root"] = {} /\ DOMAIN NoAddresses["child"] = {}
    BY DEF NoAddresses
  <2> QED
    BY <2>2, <2>3 DEF MigrationAt, Collected, CollectedIn, SideOf
<1>2. ASSUME DeployContract \/ CallContract PROVE MigrationAt(name)'
  <2>1. script # NoScript /\ Sent(chain, chain', Step, script.book) /\ Step.op \in {"new", "call"}
    BY <1>2, DeployContractInv1, CallContractInv1
  <2>2. /\ script.pc \in 1..Length(script.name) /\ BookOK(script.book, chain) /\ Length(script.name) \in Nat
        /\ KindOK(script.name, script.pc, Step) /\ script.errors \in BOOLEAN
    BY <2>1, RunningIs
  <2>3. script.pc \in Nat /\ script.pc + 1 \in Nat
    BY <2>2
  <2>4. PICK book : /\ Advance(book)
                    /\ CallContract => book = script.book
                    /\ DeployContract => book = [script.book EXCEPT ![Step.at[1]] = Put(@, Step.at[2], AddressOfNew(Step))]
    BY <1>2, <2>1, DeployContractInv1, CallContractInv1 DEF DeployContract, CallContract, Running, Step
  <2>5. ScriptMoves(script.pc + 1, book, script.errors)
    BY <2>1, <2>2, <2>3, <2>4, Moves DEF Advance
  <2>6. /\ script.pc + 1 <= Length(name) /\ script.name = name
        /\ script'.pc = script.pc + 1 /\ script'.book = book
    BY <1>n, <2>5 DEF ScriptMoves
  <2>7. MigrationAt(name)
    BY <1>0, <2>1, <2>6 DEF Runs
  <2> DEFINE side == SideOf(name)
  <2>8. Step.at[1] = side /\ side \in Sides
    BY <2>1, <2>2, <2>6 DEF KindOK, SideOf, Sides
  <2>9. CollectedIn(name, script.pc, script.book[side], chain[side])
    BY <2>6, <2>7 DEF MigrationAt, Collected
  <2>10. /\ \A n \in DOMAIN script.book[side] :
              script.book[side][n] \in DOMAIN chain[side] /\ script.book[side][n][1] = n
         /\ \A a \in DOMAIN chain[side] : chain[side][a].inited \in BOOLEAN
    BY <2>2, <2>8 DEF BookOK, Inv1, ChainsOK, ChainOK, ContractOK
  <2>11. Step = Steps(name)[script.pc] /\ script.pc \in 1..Length(name)
    BY <2>2, <2>6 DEF Step
  <2> HIDE DEF side
  <2>12. CASE DeployContract
    <3>1. Step.op = "new"
      BY <2>12, DeployContractInv1
    <3>2. Deploys(chain[side], chain'[side], Step.at[2], ResolveAll(Step.args, script.book))
      BY <2>1, <2>8, <3>1 DEF Sent
    <3>3. AddressOfNew(Step) = NextAddress(chain[side], Step.at[2])
      BY <2>8 DEF AddressOfNew
    <3>4. /\ NextAddress(chain[side], Step.at[2]) \in DOMAIN chain'[side]
          /\ NextAddress(chain[side], Step.at[2])[1] = Step.at[2]
      BY <3>2 DEF Deploys
    <3>5. GrowsTo(chain, chain')
      BY <2>1, SentAt DEF GrowsTo
    <3>6. /\ \A s \in Sides : s # side => book[s] = script.book[s]
          /\ IsPut(book[side], script.book[side], Step.at[2], NextAddress(chain[side], Step.at[2]))
      <4> DEFINE new == NextAddress(chain[side], Step.at[2])
      <4>1. book = [script.book EXCEPT ![side] = Put(@, Step.at[2], new)]
        BY <2>4, <2>8, <2>12, <3>3
      <4> HIDE DEF new
      <4>2. new \in DOMAIN chain'[side] /\ new[1] = Step.at[2]
        BY <3>4 DEF new
      <4> DEFINE after == [script.book EXCEPT ![side] = Put(@, Step.at[2], new)]
      <4>3. /\ \A s \in Sides : s # side => after[s] = script.book[s]
            /\ IsPut(after[side], script.book[side], Step.at[2], new)
        <5>1. /\ BookOK(script.book, chain) /\ GrowsTo(chain, chain') /\ side \in Sides
              /\ new \in DOMAIN chain'[side] /\ new[1] = Step.at[2]
          BY <2>2, <2>8, <3>5, <4>2
        <5> QED
          <6>1. /\ after[side] = Put(script.book[side], Step.at[2], new)
                /\ \A s \in Sides : s # side => after[s] = script.book[s]
            BY <5>1 DEF BookOK
          <6> HIDE DEF after
          <6> QED
            BY <6>1, PutIs
      <4> QED
        BY <4>1, <4>3 DEF new
    <3>7. CollectedIn(name, script.pc + 1, book[side], chain'[side])
      BY <2>6, <2>9, <2>10, <2>11, <3>1, <3>2, <3>6, DeployCollects
    <3>8. name = "migration3" => DOMAIN book["root"] = {}
      <4>1. name = "migration3" => side # "root"
        BY DEF side, SideOf
      <4> QED
        BY <2>7, <3>6, <4>1 DEF MigrationAt, Sides
    <3> QED
      BY <1>n, <2>6, <3>7, <3>8 DEF MigrationAt, Collected, side
  <2>13. CASE CallContract
    <3>1. Step.op = "call" /\ book = script.book
      BY <2>4, <2>13, CallContractInv1
    <3>2. /\ Calls(chain[side], chain'[side], script.book[side][Step.at[2]], Step.method,
                   ResolveAll(Step.args, script.book))
          /\ Step.at[2] \in DOMAIN script.book[side]
      BY <2>1, <2>8, <3>1 DEF Sent
    <3>3. CollectedIn(name, script.pc + 1, book[side], chain'[side])
      BY <2>9, <2>10, <2>11, <3>1, <3>2, CallCollects
    <3> QED
      BY <1>n, <2>6, <2>7, <3>1, <3>3 DEF MigrationAt, Collected, side
  <2> QED
    BY <1>2, <2>12, <2>13
<1>3. ASSUME script' = script, chain' = chain \/ WorkerTransacts PROVE MigrationAt(name)'
  <2>1. Runs(name) /\ MigrationAt(name)
    BY <1>0, <1>3, <1>n DEF Runs
  <2>2. chain' = chain
    BY <1>3, <2>1, MigrationNotQueued DEF WorkerTransacts
  <2> QED
    BY <1>3, <2>1, <2>2 DEF MigrationAt, Collected
<1>4. CASE StartWorker \/ SaveStatus \/ AckTask \/ InterruptWorker \/ QueueProcessed \/ UNCHANGED vars
  BY <1>3, <1>4 DEF StartWorker, SaveStatus, AckTask, InterruptWorker, QueueProcessed, vars
<1>5. CASE SendTask
  <2>1. script' = script
    BY <1>5 DEF SendTask
  <2>2. ~ScriptTransacts
    BY <1>5 DEF ScriptTransacts, SendTask
  <2> QED
    BY <1>3, <1>5, <2>1, SendTaskInv1 DEF WorkerTransacts, SendTask
<1>6. CASE CallReverts \/ InterruptScript \/ Restart
  BY <1>6, <1>n DEF CallReverts, InterruptScript, Restart
<1>7. CASE TryCall \/ TryFails \/ QueueTask \/ WriteFile \/ ExtractFile
  <2>1. script # NoScript /\ Step.op \in {"try", "queue", "write", "extract"}
    BY <1>7 DEF TryCall, TryFails, QueueTask, WriteFile, ExtractFile, Running, Step
  <2>2. /\ script.pc \in 1..Length(script.name) /\ KindOK(script.name, script.pc, Step) 
        /\ script.errors \in BOOLEAN /\ Length(script.name) \in Nat
    BY <2>1, RunningIs
  <2>3. \/ \E book : Advance(book)
        \/ Step.op = "try" /\ GoTo(script.pc + 1 + Step.more, script.book, TRUE)
    BY <1>7, <2>1 DEF TryCall, TryFails, QueueTask, WriteFile, ExtractFile, Running, Step
  <2> DEFINE Goes(pc) == \E book : \E errors \in BOOLEAN : GoTo(pc, book, errors)
  <2>4. \E pc \in Nat : pc >= script.pc + 1 /\ Goes(pc)
    <3>1. script.pc \in Nat /\ script.pc + 1 \in Nat
      BY <2>2
    <3>2. Step.op = "try" => Step.more \in {0, 1}
      BY <2>2 DEF KindOK
    <3>3. CASE \E book : Advance(book)
      <4>1. Goes(script.pc + 1)
        BY <2>2, <3>3 DEF Advance
      <4> HIDE DEF Goes
      <4> QED
        BY <3>1, <4>1
    <3>4. CASE Step.op = "try" /\ GoTo(script.pc + 1 + Step.more, script.book, TRUE)
      <4>1. Goes(script.pc + 1 + Step.more)
        BY <3>4
      <4> HIDE DEF Goes
      <4>2. script.pc + 1 + Step.more \in Nat /\ script.pc + 1 + Step.more >= script.pc + 1
        BY <3>1, <3>2, <3>4
      <4> QED
        BY <4>1, <4>2
    <3> QED
      BY <2>3, <3>3, <3>4
  <2>5. PICK pc \in Nat : pc >= script.pc + 1 /\ Goes(pc)
    BY <2>4
  <2>55. PICK book : \E errors \in BOOLEAN : GoTo(pc, book, errors)
    BY <2>5
  <2>56. PICK errors \in BOOLEAN : GoTo(pc, book, errors)
    BY <2>55
  <2>6. ScriptMoves(pc, book, errors)
    BY <2>1, <2>56, Moves
  <2>7. script.name = name /\ pc <= Length(name)
    BY <1>n, <2>6 DEF ScriptMoves
  <2>8. Step.op = "write" /\ script.pc = Length(name)
    <3>1. script.pc \in 1..Length(name)
      BY <2>2, <2>7
    <3>2. Step.op \in {"new", "call", "write"} /\ (Step.op = "write" <=> script.pc = Length(name))
      BY <2>7, <3>1, MigrationSteps DEF Step
    <3> QED
      BY <2>1, <3>2
  <2> QED
    BY <2>2, <2>5, <2>7, <2>8
<1> QED
  BY <1>1, <1>2, <1>4, <1>5, <1>6, <1>7 DEF Next

\* The steps that change the file.
LEMMA FileGoes == ASSUME [Next]_vars PROVE file' = file \/ WriteFile \/ ExtractFile
<1>1. CASE StartScript \/ DeployContract \/ CallContract \/ CallReverts \/ TryCall \/ QueueTask
  BY <1>1 DEF StartScript, DeployContract, CallContract, CallReverts, TryCall, QueueTask
<1>2. CASE InterruptScript \/ TryFails \/ Restart \/ StartWorker \/ SendTask \/ SaveStatus \/ AckTask
  BY <1>2 DEF InterruptScript, TryFails, Restart, StartWorker, SendTask, SaveStatus, AckTask
<1>3. CASE InterruptWorker \/ QueueProcessed \/ UNCHANGED vars
  BY <1>3 DEF InterruptWorker, QueueProcessed, vars
<1> QED
  BY <1>1, <1>2, <1>3 DEF Next

\* The steps that change the status file.
LEMMA StatusGoes == ASSUME [Next]_vars PROVE status' = status \/ SaveStatus
<1>1. CASE StartScript \/ DeployContract \/ CallContract \/ CallReverts \/ TryCall \/ QueueTask
  BY <1>1 DEF StartScript, DeployContract, CallContract, CallReverts, TryCall, QueueTask, workerVars
<1>2. CASE InterruptScript \/ TryFails \/ Restart \/ StartWorker \/ SendTask \/ AckTask
  BY <1>2 DEF InterruptScript, TryFails, Restart, StartWorker, SendTask, AckTask, workerVars
<1>3. CASE InterruptWorker \/ QueueProcessed \/ WriteFile \/ ExtractFile \/ UNCHANGED vars
  BY <1>3 DEF InterruptWorker, QueueProcessed, WriteFile, ExtractFile, vars, workerVars
<1> QED
  BY <1>1, <1>2, <1>3 DEF Next

\* A proxy is deployed after its code, and initialized next.
LEMMA ProxyTasks ==
  ASSUME NEW id \in 0..27, NewProxy(id)
  PROVE  /\ id \in 1..26 /\ IsNew(id - 1)
         /\ QueuedDeployments[id + 2] = Call(Root(NameAt(id)), "updateAndCall", <<Root(NameAt(id - 1))>>)
<1>0. /\ \A ref, args : New(ref, args).op = "new" /\ New(ref, args).at = ref
      /\ \A ref, m, args : Call(ref, m, args).op = "call"
      /\ \A n : Root(n)[2] = n
  BY DEF New, Call, Root
<1>1. id + 1 \in 1..28
  OBVIOUS
<1>2. CASE id + 1 \in 1..5
  <2>1. QueuedDeployments[id + 1] = New(Root(<<Libraries[id + 1], "library">>), << >>)
    BY <1>2, QueuedNames
  <2>2. NameAt(id) = <<Libraries[id + 1], "library">>
    BY <1>0, <2>1 DEF NameAt
  <2>3. NameAt(id)[2] = "library"
    BY <2>2
  <2>4. \A n \in Proxies : n[2] \in {"proxy", "predicateProxy"}
    BY DEF Proxies, RootManagerProxy, ChildManagerProxy, PredicateProxy
  <2> QED
    BY <2>3, <2>4 DEF NewProxy
<1>3. CASE id + 1 \in {6, 24}
  <2>1. \/ QueuedDeployments[id + 1] = New(Root(RootManager), << >>)
        \/ QueuedDeployments[id + 1] = New(Root(StateSender), << >>)
    BY <1>3, QueuedNames
  <2>3. NameAt(id) \in {RootManager, StateSender}
    BY <1>0, <2>1 DEF NameAt
  <2>2. RootManager \notin Proxies /\ StateSender \notin Proxies
    BY DEF Proxies, RootManagerProxy, ChildManagerProxy, PredicateProxy, RootManager, StateSender
  <2> QED
    BY <2>2, <2>3 DEF NewProxy
<1>4. CASE id + 1 = 8
  BY <1>0, <1>4, QueuedNames DEF NewProxy, IsNew
<1>5. CASE id + 1 = 7
  <2>1. id = 6 /\ id + 2 = 8 /\ (id - 1) + 1 = 6
    BY <1>5
  <2>2. NameAt(id) = RootManagerProxy /\ NameAt(id - 1) = RootManager /\ IsNew(id - 1)
    BY <1>0, <1>5, <2>1, QueuedNames DEF NameAt, IsNew
  <2> QED
    BY <2>1, <2>2, QueuedNames
<1>6. ASSUME NEW i \in 1..5, id + 1 = 6 + 3 * i PROVE FALSE
  <2>1. QueuedDeployments[id + 1] = New(Root(Predicate(TypeList[i])), << >>)
    BY <1>6, QueuedNames
  <2>2. NameAt(id) = Predicate(TypeList[i])
    BY <1>0, <2>1 DEF NameAt
  <2>3. \A t : Predicate(t) \notin Proxies
    BY DEF Predicate, Proxies, RootManagerProxy, ChildManagerProxy, PredicateProxy
  <2> QED
    BY <2>2, <2>3 DEF NewProxy
<1>7. ASSUME NEW i \in 1..5, id + 1 = 8 + 3 * i PROVE FALSE
  <2>2. QueuedDeployments[id + 1] = Call(Root(PredicateProxy(TypeList[i])), "updateAndCall",
                                         <<Root(Predicate(TypeList[i]))>>)
    BY <1>7, QueuedNames
  <2>1. QueuedDeployments[id + 1].op = "call"
    BY <1>0, <2>2
  <2> QED
    BY <2>1 DEF NewProxy, IsNew
<1>8. ASSUME NEW i \in 1..4, id + 1 = 24 + i PROVE FALSE
  <2>1. QueuedDeployments[id + 1] = New(Root(RootToken(TypeList[i])), << >>)
    BY <1>8, QueuedNames
  <2>2. NameAt(id) = RootToken(TypeList[i])
    BY <1>0, <2>1 DEF NameAt
  <2>3. \A t : RootToken(t) \notin Proxies
    BY DEF RootToken, Proxies, RootManagerProxy, ChildManagerProxy, PredicateProxy
  <2> QED
    BY <2>2, <2>3 DEF NewProxy
<1>9. ASSUME NEW i \in 1..5, id + 1 = 7 + 3 * i
      PROVE  /\ id \in 1..26 /\ IsNew(id - 1)
             /\ QueuedDeployments[id + 2] = Call(Root(NameAt(id)), "updateAndCall", <<Root(NameAt(id - 1))>>)
  <2>1. id \in 1..26 /\ id + 2 = 8 + 3 * i /\ (id - 1) + 1 = 6 + 3 * i
    BY <1>9
  <2>2. /\ QueuedDeployments[id + 1] = New(Root(PredicateProxy(TypeList[i])), << >>)
        /\ QueuedDeployments[(id - 1) + 1] = New(Root(Predicate(TypeList[i])), << >>)
        /\ QueuedDeployments[id + 2] = Call(Root(PredicateProxy(TypeList[i])), "updateAndCall",
                                            <<Root(Predicate(TypeList[i]))>>)
    BY <1>9, <2>1, QueuedNames
  <2>3. NameAt(id) = PredicateProxy(TypeList[i]) /\ NameAt(id - 1) = Predicate(TypeList[i]) /\ IsNew(id - 1)
    BY <1>0, <2>2 DEF NameAt, IsNew
  <2> QED
    BY <2>1, <2>2, <2>3
<1> QED
  BY <1>1, <1>2, <1>3, <1>4, <1>5, <1>6, <1>7, <1>8, <1>9, Positions

\* While the queue is processed no script runs.
LEMMA Processing ==
  ASSUME Inv1, Moonwalker, next \in {2, 6} PROVE script = NoScript
<1>1. ASSUME script # NoScript PROVE FALSE
  <2>1. script.name \in ScriptNames /\ script.name = Current /\ next <= Final
    BY <1>1, RunningIs
  <2>2. Current = "processQueue"
    BY <2>1, CurrentIs DEF Inv1
  <2> QED
    BY <2>1, <2>2 DEF ScriptNames
<1> QED
  BY <1>1

WorkerMoves == StartWorker \/ SendTask \/ SaveStatus \/ AckTask \/ InterruptWorker \/ UNCHANGED vars

\* What happens while the queue is processed.
LEMMA ProcessingMoves ==
  ASSUME Inv1, [Next]_vars, Moonwalker, next \in {2, 6}
  PROVE  WorkerMoves \/ QueueProcessed
<1>1. script = NoScript /\ ~Truffle /\ Current = "processQueue"
  <2>1. next <= Final
    BY DEF Final, Moonwalker, Truffle
  <2> QED
    BY <2>1, Processing, CurrentIs DEF Moonwalker, Truffle, Inv1
<1>2. ~StartScript /\ ~DeployContract /\ ~CallContract /\ ~CallReverts /\ ~TryCall /\ ~QueueTask
  BY <1>1 DEF StartScript, DeployContract, CallContract, CallReverts, TryCall, QueueTask, Running
<1>3. ~WriteFile /\ ~ExtractFile /\ ~InterruptScript /\ ~TryFails /\ ~Restart
  BY <1>1 DEF WriteFile, ExtractFile, InterruptScript, TryFails, Restart, Running, Truffle
<1> QED
  BY <1>2, <1>3 DEF Next, WorkerMoves

\* The queue of the root chain's deployment is complete when the last task was queued.
LEMMA LastQueued ==
  ASSUME Inv1, [Next]_vars, Moonwalker, next = 1, next' = 2
  PROVE  QueueTask /\ script.name = "queueRootDeployment" /\ script.pc = 34 /\ worker' = "down" /\ worker = "down"
<1>0. ~Truffle /\ worker = "down"
  BY DEF Moonwalker, Truffle, Inv1, Control
<1>1. script # NoScript /\ script' = NoScript
  <2>1. ~QueueProcessed
    BY QueueProcessedInv1
  <2> QED
    BY <1>0, <2>1, NextGoes DEF NextMoves, ScriptEnds
<1>2. /\ script.name \in ScriptNames /\ script.name = Current /\ next <= Final
      /\ script.pc \in 1..Length(script.name) /\ script.errors \in BOOLEAN
      /\ KindOK(script.name, script.pc, Step)
  BY <1>1, RunningIs
<1>3. script.name = "queueRootDeployment"
  BY <1>0, <1>2, RunbookIs DEF Current, Moonwalker
<1>4. Step.op \in {"new", "queue"}
  BY <1>2, <1>3 DEF KindOK
<1>5. Length(script.name) = 34
  BY <1>3 DEF Length
<1>6. script.pc \in 1..34 /\ (Step.op = "new" => script.pc \in 1..6)
  <2>1. script.pc \in 1..34
    BY <1>2, <1>5
  <2>2. ASSUME Step.op = "new", script.pc \notin 1..6 PROVE FALSE
    <3>1. PICK i \in 1..28 : script.pc = 6 + i
      <4>1. script.pc - 6 \in 1..28 /\ script.pc = 6 + (script.pc - 6)
        BY <2>1, <2>2
      <4> QED
        BY <4>1
    <3>2. Step = Queue(i - 1, QueuedDeployments[i])
      <4>1. Steps("queueRootDeployment") = QueueRootDeployment
        BY DEF Steps
      <4> QED
        BY <1>3, <3>1, <4>1, QueueRootDeploymentAt DEF Step
    <3>3. Step.op = "queue"
      BY <3>2 DEF Queue
    <3> QED
      BY <2>2, <3>3
  <2> QED
    BY <2>1, <2>2
<1>7. ASSUME NEW book, Advance(book) PROVE script.pc = 34
  <2>1. script.pc \in Nat /\ script.pc + 1 \in Nat
    BY <1>6
  <2>2. ScriptMoves(script.pc + 1, book, script.errors)
    BY <1>1, <1>2, <1>7, <2>1, Moves DEF Advance
  <2>3. script.pc + 1 > 34
    BY <1>1, <1>5, <2>2 DEF ScriptMoves
  <2> QED
    BY <1>6, <2>3
<1>8. ~DeployContract
  <2> SUFFICES ASSUME DeployContract PROVE FALSE
    OBVIOUS
  <2>1. Step.op = "new" /\ \E book : Advance(book)
    BY DeployContractInv1 DEF DeployContract
  <2>2. script.pc = 34
    BY <1>7, <2>1
  <2> QED
    BY <1>6, <2>1, <2>2
<1>9. ~CallContract /\ ~CallReverts /\ ~TryCall /\ ~WriteFile /\ ~ExtractFile /\ ~TryFails
  BY <1>1, <1>4 DEF CallContract, CallReverts, TryCall, WriteFile, ExtractFile, TryFails, Running, Step
<1>10. ~StartScript /\ ~InterruptScript /\ ~Restart /\ ~StartWorker /\ ~QueueProcessed
  BY <1>0, <1>1 DEF StartScript, InterruptScript, Restart, StartWorker, QueueProcessed, Truffle
<1>11. ~SendTask /\ ~SaveStatus /\ ~AckTask /\ ~InterruptWorker /\ ~UNCHANGED vars
  BY <1>0, <1>1 DEF SendTask, SaveStatus, AckTask, InterruptWorker, vars
<1>12. QueueTask
  BY <1>8, <1>9, <1>10, <1>11 DEF Next
<1> QED
  BY <1>0, <1>3, <1>7, <1>12 DEF QueueTask, workerVars

\* Where a script that goes on came from.
LEMMA ScriptGoes ==
  ASSUME Inv1, [Next]_vars, script' # NoScript
  PROVE  \/ StartScript /\ script'.pc = 1 /\ script'.name = Current /\ script'.errors = FALSE
         \/ script' = script
         \/ /\ script # NoScript /\ script'.name = script.name /\ next' = next
            /\ \/ script'.pc = script.pc + 1
               \/ script'.pc = script.pc + 1 + Step.more /\ TryFails
<1>1. CASE StartScript
  <2>1. script' = [name |-> Current, pc |-> 1, errors |-> FALSE,
                   book |-> IF Current \in Readers THEN file ELSE NoAddresses]
    BY <1>1 DEF StartScript
  <2> QED
    BY <1>1, <2>1
<1>2. ASSUME script # NoScript, NEW book, Advance(book)
      PROVE  script'.name = script.name /\ next' = next /\ script'.pc = script.pc + 1
  <2>1. script.pc \in Nat /\ script.pc + 1 \in Nat /\ script.errors \in BOOLEAN
    BY <1>2, RunningIs
  <2>2. ScriptMoves(script.pc + 1, book, script.errors)
    BY <1>2, <2>1, Moves DEF Advance
  <2> QED
    BY <2>2 DEF ScriptMoves
<1>3. CASE DeployContract \/ CallContract \/ TryCall \/ QueueTask \/ WriteFile \/ ExtractFile
  <2>1. script # NoScript /\ \E book : Advance(book)
    BY <1>3 DEF DeployContract, CallContract, TryCall, QueueTask, WriteFile, ExtractFile, Running
  <2> QED
    BY <1>2, <2>1
<1>4. CASE TryFails
  <2>1. script # NoScript /\ GoTo(script.pc + 1 + Step.more, script.book, TRUE) /\ Step.op = "try"
    BY <1>4 DEF TryFails, Running, Step
  <2>2. script.pc \in Nat /\ KindOK(script.name, script.pc, Step)
    BY <2>1, RunningIs
  <2>3. script.pc + 1 + Step.more \in Nat /\ TRUE \in BOOLEAN
    BY <2>1, <2>2 DEF KindOK
  <2>4. ScriptMoves(script.pc + 1 + Step.more, script.book, TRUE)
    BY <2>1, <2>3, Moves
  <2> QED
    BY <1>4, <2>1, <2>4 DEF ScriptMoves
<1>5. CASE CallReverts \/ InterruptScript \/ Restart
  BY <1>5 DEF CallReverts, InterruptScript, Restart
<1>6. CASE StartWorker \/ SendTask \/ SaveStatus \/ AckTask \/ InterruptWorker \/ QueueProcessed \/ UNCHANGED vars
  BY <1>6 DEF StartWorker, SendTask, SaveStatus, AckTask, InterruptWorker, QueueProcessed, vars
<1> QED
  BY <1>1, <1>3, <1>4, <1>5, <1>6 DEF Next

\* Only the worker takes from the queue, and only a script puts something in.
LEMMA QueueGoes == ASSUME [Next]_vars PROVE queue' = queue \/ QueueTask \/ AckTask
<1>1. CASE StartScript \/ DeployContract \/ CallContract \/ CallReverts \/ TryCall \/ WriteFile
  BY <1>1 DEF StartScript, DeployContract, CallContract, CallReverts, TryCall, WriteFile
<1>2. CASE InterruptScript \/ TryFails \/ Restart \/ StartWorker \/ SendTask \/ SaveStatus
  BY <1>2 DEF InterruptScript, TryFails, Restart, StartWorker, SendTask, SaveStatus
<1>3. CASE InterruptWorker \/ QueueProcessed \/ ExtractFile \/ UNCHANGED vars
  BY <1>3 DEF InterruptWorker, QueueProcessed, ExtractFile, vars
<1> QED
  BY <1>1, <1>2, <1>3 DEF Next

\* Every step keeps what was queued, while it is queued.
LEMMA QueueingNext ==
  ASSUME Inv1, Queueing, [Next]_vars PROVE Queueing'
<1> DEFINE Q(k) == k <= Len(queue) /\ queue[Len(queue) - k + 1].id = script.pc - 7 - k
<1> SUFFICES ASSUME Moonwalker, Runs("queueRootDeployment")', NEW k \in 1..(script'.pc - 7)
             PROVE  Q(k)'
  BY ChainGoes DEF Queueing, Moonwalker
<1>1. script' # NoScript /\ script'.name = "queueRootDeployment" /\ Inv1'
  BY NextInv1 DEF Runs, NoScript
<1>2. script'.pc \in Nat
  <2>1. (script.pc \in 1..Length(script.name) /\ Length(script.name) \in Nat)'
    BY <1>1, RunningIs, NextInv1 DEF Inv1, ScriptOK, ScriptNames, Length
  <2> QED
    BY <2>1
<1>k. k \in Int /\ k >= 1 /\ k <= script'.pc - 7
  BY <1>2
<1>3. CASE script'.pc = 1
  BY <1>3, <1>k
<1>4. CASE script # NoScript /\ script.name = "queueRootDeployment" /\ script'.pc # 1
  <2>1. /\ script.pc \in 1..Length(script.name) /\ script.name = Current /\ next \in 1..Final
        /\ KindOK(script.name, script.pc, Step)
    BY <1>4, RunningIs
  <2>2. script.pc \in 1..34
    BY <1>4, <2>1 DEF Length
  <2>3. next = 1 /\ worker = "down"
    BY <1>4, <2>1, CurrentIs DEF Inv1, Control
  <2>4. \A j \in 1..(script.pc - 7) : Q(j)
    BY <1>4 DEF Queueing, Runs
  <2>5. CASE QueueTask
    <3>0. /\ Len(queue') = Len(queue) + 1 /\ Len(queue) \in Nat
          /\ \A i \in 1..Len(queue) : queue'[i] = queue[i]
          /\ script.pc \in 7..34
          /\ queue'[Len(queue) + 1] = [id |-> script.pc - 7, step |-> QueuedDeployments[script.pc - 6]]
      BY <2>3, <2>5, QueueTaskInv1
    <3>1. /\ Len(queue') = Len(queue) + 1 /\ Len(queue) \in Nat
          /\ \A i \in 1..Len(queue) : queue'[i] = queue[i]
          /\ queue'[Len(queue) + 1].id = script.pc - 7 /\ script.pc \in 7..34
      BY <3>0
    <3>2. script'.pc = script.pc + 1
      <4>1. Advance(script.book) /\ script.errors \in BOOLEAN /\ script.pc + 1 \in Nat
        BY <1>4, <2>2, <2>5, RunningIs DEF QueueTask
      <4> QED
        <5>1. ScriptMoves(script.pc + 1, script.book, script.errors)
          BY <1>4, <4>1, Moves DEF Advance
        <5> QED
          BY <1>1, <5>1 DEF ScriptMoves
    <3>3. CASE k = 1
      <4>1. Len(queue') - k + 1 = Len(queue) + 1 /\ script'.pc - 7 - k = script.pc - 7 /\ k <= Len(queue')
        <5>1. k = 1 /\ Len(queue') = Len(queue) + 1 /\ Len(queue) \in Nat
          BY ONLY <3>1, <3>3
        <5>2. script'.pc = script.pc + 1 /\ script.pc \in Int
          BY ONLY <2>2, <3>2
        <5> QED
          BY ONLY <5>1, <5>2
      <4> QED
        BY <3>1, <4>1
    <3>4. CASE k # 1
      <4>1. k - 1 \in 1..(script.pc - 7)
        BY <1>k, <2>2, <3>2, <3>4
      <4>2. k - 1 <= Len(queue) /\ queue[Len(queue) - (k - 1) + 1].id = script.pc - 7 - (k - 1)
        BY <2>4, <4>1
      <4>3. /\ Len(queue') - k + 1 = Len(queue) - (k - 1) + 1
            /\ Len(queue) - (k - 1) + 1 \in 1..Len(queue)
            /\ script.pc - 7 - (k - 1) = script'.pc - 7 - k
        <5>2. k \in Int /\ k >= 2
          BY ONLY <1>k, <3>4
        <5>3. script.pc \in Int
          BY ONLY <2>2
        <5>4. Len(queue) \in Nat
          BY ONLY <3>1
        <5>5. k - 1 <= Len(queue)
          BY ONLY <4>2
        <5>1. k \in Int /\ k >= 2 /\ k - 1 <= Len(queue) /\ script.pc \in Int /\ Len(queue) \in Nat
          BY ONLY <5>2, <5>3, <5>4, <5>5
        <5> QED
          BY <3>1, <3>2, <5>1
      <4> QED
        BY <3>1, <4>2, <4>3
    <3> QED
      BY <3>3, <3>4
  <2>6. CASE ~QueueTask
    <3>1. queue' = queue
      BY <2>3, <2>6, QueueGoes DEF AckTask
    <3>2. CASE script' = script
      BY <2>4, <3>1, <3>2
    <3>3. CASE script' # script
      <4>1. script.pc <= 6
        <5>1. Step.op \in {"new", "queue"}
          BY <1>4, <2>1 DEF KindOK
        <5>2. ~StartScript /\ ~TryFails
          BY <1>4, <5>1 DEF StartScript, TryFails, Running, Step
        <5>3. Step.op # "queue"
          <6>1. DeployContract
            <7>1. ~CallContract /\ ~CallReverts /\ ~TryCall /\ ~WriteFile /\ ~ExtractFile /\ ~TryFails
              BY <5>1 DEF CallContract, CallReverts, TryCall, WriteFile, ExtractFile, TryFails, Running, Step
            <7>2. ~InterruptScript /\ ~Restart
              BY <1>1 DEF InterruptScript, Restart
            <7>3. /\ ~StartWorker /\ ~SendTask /\ ~SaveStatus /\ ~AckTask /\ ~InterruptWorker
                  /\ ~QueueProcessed /\ ~UNCHANGED vars
              BY <3>3 DEF StartWorker, SendTask, SaveStatus, AckTask, InterruptWorker, QueueProcessed, vars
            <7> QED
              BY <2>6, <5>2, <7>1, <7>2, <7>3 DEF Next
          <6> QED
            BY <6>1, DeployContractInv1
        <5>4. script.pc <= 6
          <6> SUFFICES ASSUME ~(script.pc <= 6) PROVE FALSE
            OBVIOUS
          <6>1. PICK i \in 1..28 : script.pc = 6 + i
            <7>1. script.pc - 6 \in 1..28 /\ script.pc = 6 + (script.pc - 6)
              BY <2>2
            <7> QED
              BY <7>1
          <6>2. Step = Queue(i - 1, QueuedDeployments[i])
            BY <1>4, <6>1, QueueRootDeploymentAt DEF Step, Steps
          <6> QED
            BY <5>3, <6>2 DEF Queue
        <5> QED
          BY <5>4
      <4>2. script'.pc = script.pc + 1
        <5>1. ~StartScript /\ ~TryFails
          <6>1. Step.op # "try"
            BY <1>4, <2>1 DEF KindOK
          <6> QED
            BY <1>4, <6>1 DEF StartScript, TryFails, Running, Step
        <5> QED
          BY <1>1, <1>4, <3>3, <5>1, ScriptGoes
      <4> QED
        <5>1. script'.pc - 7 <= 0 /\ script'.pc \in Int
          BY ONLY <2>2, <4>1, <4>2
        <5> QED
          BY ONLY <1>k, <5>1
    <3> QED
      BY <3>2, <3>3
  <2> QED
    BY <2>5, <2>6
<1> QED
  BY <1>1, <1>3, <1>4, ScriptGoes

\* How the queue of the deployments, or what is left of it, comes about.
LEMMA ToProcessing ==
  ASSUME Inv1, [Next]_vars, Moonwalker, next' = 2
  PROVE  \/ /\ QueueTask /\ script.name = "queueRootDeployment" /\ script.pc = 34 /\ next = 1
            /\ worker' = "down"
         \/ next = 2 /\ WorkerMoves
<1>1. next \in Nat \ {0} /\ (next' = next \/ next' = next + 1)
  BY NextGrows
<1>2. CASE next = 1
  BY <1>2, LastQueued
<1>3. CASE next = 2
  <2>1. ~QueueProcessed
    BY <1>3 DEF QueueProcessed
  <2> QED
    BY <1>3, <2>1, ProcessingMoves
<1> QED
  BY <1>1, <1>2, <1>3

\* With the last task the queue is complete.
LEMMA LastTask ==
  ASSUME Inv1, Queueing, QueueTask, Moonwalker, script.name = "queueRootDeployment", script.pc = 34
  PROVE  /\ Len(queue') \in Nat /\ Len(queue') >= 28
         /\ \A k \in 0..27 : queue'[Len(queue') - k].id = 27 - k
<1>1. next = 1
  <2>1. script # NoScript
    BY DEF QueueTask, Running
  <2> QED
    BY <2>1, RunningIs, CurrentIs DEF Inv1
<1>2. /\ Len(queue') = Len(queue) + 1 /\ Len(queue) \in Nat
      /\ \A i \in 1..Len(queue) : queue'[i] = queue[i]
      /\ queue'[Len(queue) + 1] = [id |-> script.pc - 7, step |-> QueuedDeployments[script.pc - 6]]
  BY <1>1, QueueTaskInv1
<1>3. queue'[Len(queue) + 1].id = 27
  BY <1>2
<1>4. \A k \in 1..27 : k <= Len(queue) /\ queue[Len(queue) - k + 1].id = 27 - k
  <2>1. script # NoScript
    BY DEF QueueTask, Running
  <2>2. \A k \in 1..(script.pc - 7) : k <= Len(queue) /\ queue[Len(queue) - k + 1].id = script.pc - 7 - k
    BY <2>1 DEF Queueing, Runs
  <2>3. script.pc - 7 = 27
    OBVIOUS
  <2> QED
    BY <2>2, <2>3
<1>5. Len(queue) >= 27
  BY <1>4, 27 \in 1..27
<1>6. ASSUME NEW k \in 0..27 PROVE queue'[Len(queue') - k].id = 27 - k
  <2>1. CASE k = 0
    BY <1>2, <1>3, <2>1
  <2>2. CASE k # 0
    <3>1. k \in 1..27
      BY <2>2
    <3>2. k <= Len(queue) /\ queue[Len(queue) - k + 1].id = 27 - k
      BY <1>4, <3>1
    <3>3. Len(queue') - k = Len(queue) - k + 1 /\ Len(queue) - k + 1 \in 1..Len(queue)
      BY <1>2, <3>1, <3>2
    <3> QED
      BY <1>2, <3>2, <3>3
  <2> QED
    BY <2>1, <2>2
<1> QED
  BY <1>2, <1>5, <1>6

\* The worker only takes tasks out of the queue.
LEMMA WorkerQueue ==
  ASSUME WorkerMoves PROVE queue' = queue \/ AckTask
BY DEF WorkerMoves, StartWorker, SendTask, SaveStatus, InterruptWorker, vars

\* Every step keeps the order of the queue.
LEMMA QueuedNext ==
  ASSUME Inv1, Queueing, Queued, [Next]_vars PROVE Queued'
<1> SUFFICES ASSUME Moonwalker, next' = 2, NEW k \in 0..27, k < Len(queue')
             PROVE  queue'[Len(queue') - k].id = 27 - k
  BY ChainGoes DEF Queued, Moonwalker
<1>1. CASE next = 1
  <2>1. QueueTask /\ script.name = "queueRootDeployment" /\ script.pc = 34
    BY <1>1, ToProcessing
  <2>2. \A j \in 0..27 : queue'[Len(queue') - j].id = 27 - j
    BY <2>1, LastTask
  <2> QED
    BY <2>2
<1>2. CASE next = 2 /\ WorkerMoves
  <2>1. \A j \in 0..27 : j < Len(queue) => queue[Len(queue) - j].id = 27 - j
    BY <1>2 DEF Queued
  <2>2. CASE queue' = queue
    BY <2>1, <2>2
  <2>3. CASE AckTask
    <3>1. /\ Len(queue) \in Nat \ {0} /\ Len(queue') = Len(queue) - 1
          /\ \A i \in 1..(Len(queue) - 1) : queue'[i] = queue[i + 1]
      BY <2>3, AckTaskInv1
    <3>2. k < Len(queue) /\ Len(queue') - k \in 1..(Len(queue) - 1) /\ (Len(queue') - k) + 1 = Len(queue) - k
      BY <3>1
    <3> QED
      BY <2>1, <3>1, <3>2
  <2> QED
    BY <1>2, <2>2, <2>3, WorkerQueue
<1> QED
  BY <1>1, <1>2, ToProcessing

\* The first task, if it is one of the last.
LEMMA FirstOfLast ==
  ASSUME Inv1, Queued, Moonwalker, next = 2, queue # << >>, Len(queue) <= 28
  PROVE  Task.id = 28 - Len(queue) /\ Len(queue) \in Nat \ {0}
<1>1. Len(queue) \in Nat \ {0} /\ Task = queue[1]
  BY TaskIs DEF Inv1
<1>0. Len(queue) <= 28
  OBVIOUS
<1>2. Len(queue) - 1 \in 0..27 /\ Len(queue) - 1 < Len(queue) /\ Len(queue) - (Len(queue) - 1) = 1
  <2>1. ASSUME NEW n \in Nat \ {0}, n <= 28 PROVE n - 1 \in 0..27 /\ n - 1 < n /\ n - (n - 1) = 1
    BY ONLY <2>1
  <2> QED
    BY <1>0, <1>1, <2>1
<1>3. queue[Len(queue) - (Len(queue) - 1)].id = 27 - (Len(queue) - 1)
  BY <1>2 DEF Queued
<1>4. queue[1].id = 27 - (Len(queue) - 1)
  BY <1>2, <1>3
<1>5. 27 - (Len(queue) - 1) = 28 - Len(queue)
  BY <1>1
<1> QED
  BY <1>1, <1>4, <1>5

\* At the tasks of the deployment.
LEMMA DeploymentTask ==
  ASSUME Inv1, queue # << >>, Moonwalker, next = 2
  PROVE  /\ TaskOK /\ Task.id \in 0..27 /\ Task.step = QueuedDeployments[Task.id + 1]
         /\ (Task.step.op = "new" <=> IsNew(Task.id)) /\ Task.step.at[2] = NameAt(Task.id)
         /\ Len(queue) \in Nat \ {0}
BY TaskIs DEF Inv1, TaskOK, IsNew, NameAt

\* Every step keeps the record of the deployments that left the queue.
LEMMA DeployingNext ==
  ASSUME Inv1, Queueing, Queued, Deploying, [Next]_vars PROVE Deploying'
<1> DEFINE Recorded(id) == IsNew(id) => id \in DOMAIN status \/ Len(queue) > 27 - id
           Handled == worker = "handled" /\ Task.step.op = "new" => Task.id \in DOMAIN status
<1> SUFFICES ASSUME Moonwalker, next' = 2 PROVE (\A id \in 0..27 : Recorded(id)') /\ Handled'
  BY ChainGoes DEF Deploying, Moonwalker, IsNew
<1>1. CASE next = 1
  <2>1. QueueTask /\ script.name = "queueRootDeployment" /\ script.pc = 34 /\ worker' = "down"
    BY <1>1, ToProcessing
  <2>2. Len(queue') \in Nat /\ Len(queue') >= 28
    BY <2>1, LastTask
  <2> QED
    BY <2>1, <2>2
<1>2. CASE next = 2 /\ WorkerMoves
  <2>1. (\A id \in 0..27 : Recorded(id)) /\ Handled
    BY <1>2 DEF Deploying
  <2>2. CASE StartWorker \/ InterruptWorker \/ UNCHANGED vars
    <3>1. queue' = queue /\ status' = status /\ (worker' # "handled" \/ worker' = worker)
      BY <2>2 DEF StartWorker, InterruptWorker, vars, workerVars
    <3> QED
      BY <2>1, <3>1 DEF Task
  <2>3. CASE SendTask
    <3>1. queue' = queue /\ status' = status /\ queue # << >>
      BY <2>3 DEF SendTask
    <3>2. worker' = "handled" => ~Succeeds(Task.step, TaskBook)
      BY <2>3, SendTaskInv1
    <3>3. Task.step.op = "new" => Succeeds(Task.step, TaskBook)
      BY DEF Succeeds
    <3> QED
      BY <2>1, <3>1, <3>2, <3>3 DEF Task
  <2>4. CASE SaveStatus
    <3>1. queue' = queue /\ DOMAIN status' = DOMAIN status \cup {Task.id}
      BY <2>4, SaveStatusInv1 DEF SaveStatus, IsPut
    <3> QED
      BY <2>1, <3>1 DEF Task
  <2>5. CASE AckTask
    <3>1. /\ Len(queue) \in Nat \ {0} /\ Len(queue') = Len(queue) - 1
          /\ status' = status /\ worker = "handled" /\ worker' = "idle" /\ queue # << >>
      BY <2>5, AckTaskInv1 DEF AckTask
    <3>2. ASSUME NEW id \in 0..27, IsNew(id), id \notin DOMAIN status, ~(Len(queue') > 27 - id) PROVE FALSE
      <4>1. Len(queue) = 28 - id
        <5>1. Len(queue) > 27 - id /\ ~(Len(queue') > 27 - id) /\ id \in 0..27
          BY <2>1, <3>2
        <5> QED
          BY ONLY <3>1, <5>1
      <4>2. Len(queue) <= 28 /\ 28 - Len(queue) = id
        BY <4>1
      <4>3. Task.id = id
        BY <1>2, <3>1, <4>2, FirstOfLast
      <4>4. Task.step.op = "new"
        BY <1>2, <3>1, <3>2, <4>3, DeploymentTask
      <4> QED
        BY <2>1, <3>1, <3>2, <4>3, <4>4
    <3> QED
      BY <3>1, <3>2
  <2> QED
    BY <1>2, <2>2, <2>3, <2>4, <2>5 DEF WorkerMoves
<1> QED
  BY <1>1, <1>2, ToProcessing

\* What was recorded of a deployment.
LEMMA RecordedIs ==
  ASSUME StatusOK(status, chain), NEW id \in 0..27, IsNew(id), id \in DOMAIN status
  PROVE  /\ status[id].type = "new" /\ status[id].name = NameAt(id)
         /\ status[id].address \in DOMAIN chain.root /\ status[id].address[1] = NameAt(id)
         /\ NameAt(id) \in DOMAIN Extracted(status) /\ Extracted(status)[NameAt(id)] = status[id].address
<1>1. EntryOK(id, status[id], chain)
  BY DEF StatusOK
<1>2. /\ status[id].type = "new" /\ status[id].name = NameAt(id)
      /\ status[id].address \in DOMAIN chain.root /\ status[id].address[1] = NameAt(id)
  BY <1>1 DEF EntryOK, IsNew, NameAt
<1> QED
  BY <1>2, ExtractedIs

\* What is initialized stays so.
LEMMA StaysInited ==
  ASSUME Inv1, [Next]_vars, NEW side \in Sides, NEW a \in DOMAIN chain[side]
  PROVE  /\ a \in DOMAIN chain'[side]
         /\ chain[side][a].inited => chain'[side][a].inited
<1>1. CASE chain' = chain
  BY <1>1
<1>2. ASSUME NEW step, NEW book, Sent(chain, chain', step, book)
      PROVE  /\ a \in DOMAIN chain'[side]
             /\ chain[side][a].inited => chain'[side][a].inited
  BY <1>2, SentAt, SentInited
<1> QED
  BY <1>1, <1>2, ChainGoes DEF ChainMoves, ScriptTransacts, WorkerTransacts

\* The task that initializes a proxy, once the proxy and its code were recorded.
LEMMA ProxyCall ==
  ASSUME Inv1, NEW id \in 0..27, NewProxy(id), id \in DOMAIN status, id - 1 \in DOMAIN status
  PROVE  LET step == QueuedDeployments[id + 2]
             at == status[id].address
         IN  /\ step.op = "call" /\ step.method = "updateAndCall" /\ step.at[1] = "root"
             /\ Resolve(step.at, TaskBook) = at /\ at \in DOMAIN chain.root
             /\ Succeeds(step, TaskBook) \/ chain.root[at].inited \/ chain.root[at].proxyOwner # Deployer
<1> DEFINE step == QueuedDeployments[id + 2]  at == status[id].address  code == status[id - 1].address
<1>1. /\ id \in 1..26 /\ IsNew(id - 1)
      /\ step = Call(Root(NameAt(id)), "updateAndCall", <<Root(NameAt(id - 1))>>)
  BY ProxyTasks
<1>2. id - 1 \in 0..27 /\ IsNew(id)
  BY <1>1 DEF NewProxy
<1>3. /\ at \in DOMAIN chain.root /\ NameAt(id) \in DOMAIN Extracted(status)
      /\ Extracted(status)[NameAt(id)] = at
  BY <1>2, RecordedIs DEF Inv1
<1>4. /\ code \in DOMAIN chain.root /\ NameAt(id - 1) \in DOMAIN Extracted(status)
      /\ Extracted(status)[NameAt(id - 1)] = code
  BY <1>1, <1>2, RecordedIs DEF Inv1
<1> HIDE DEF step, at, code
<1>5. /\ step.op = "call" /\ step.method = "updateAndCall" /\ step.at = Root(NameAt(id))
      /\ step.args = <<Root(NameAt(id - 1))>>
  BY <1>1 DEF Call
<1>6. \A n : Root(n)[1] = "root" /\ Root(n)[2] = n
  BY DEF Root
<1>7. TaskBook["root"] = Extracted(status)
  BY DEF TaskBook
<1>8. \A n \in DOMAIN Extracted(status) :
        Known(Root(n), TaskBook) /\ Resolve(Root(n), TaskBook) = Extracted(status)[n]
  BY <1>6, <1>7 DEF Known, Resolve, Lookup
<1>9. Resolve(step.at, TaskBook) = at /\ Known(step.at, TaskBook)
  BY <1>3, <1>5, <1>8
<1>10. /\ DOMAIN step.args = 1..1 /\ \A i \in DOMAIN step.args : Known(step.args[i], TaskBook)
       /\ ResolveAll(step.args, TaskBook)[1] = code
  BY <1>4, <1>5, <1>8 DEF ResolveAll
<1>11. code # None
  <2>1. AddressesOK(chain.root)
    BY DEF Inv1, ChainsOK, ChainOK, Sides
  <2> QED
    BY <1>4, <2>1, ExternalAddresses
<1>12. Passes(chain.root[at], "updateAndCall", ResolveAll(step.args, TaskBook))
         <=> chain.root[at].proxyOwner = Deployer /\ ~chain.root[at].inited
  BY <1>10, <1>11 DEF Passes
<1>13. ASSUME ~Succeeds(step, TaskBook) PROVE chain.root[at].inited \/ chain.root[at].proxyOwner # Deployer
  <2>1. ~CallPasses(chain.root, at, "updateAndCall", ResolveAll(step.args, TaskBook))
    <3>1. chain[step.at[1]] = chain.root
      BY <1>5, <1>6
    <3> QED
      BY <1>5, <1>9, <1>10, <1>13, <3>1 DEF Succeeds
  <2> QED
    BY <1>12, <2>1 DEF CallPasses
<1> QED
  BY <1>3, <1>5, <1>6, <1>9, <1>13 DEF step, at

\* After it was sent, or would not be taken, the proxy is initialized.
LEMMA ProxyCalled ==
  ASSUME Inv1, RootKept, SendTask, Moonwalker, next = 2, NEW id \in 1..27, Task.id = id + 1, NewProxy(id),
         id \in DOMAIN status, id - 1 \in DOMAIN status
  PROVE  chain'.root[status[id].address].inited
<1> DEFINE step == QueuedDeployments[id + 2]  at == status[id].address
<1>1. /\ step.op = "call" /\ step.method = "updateAndCall" /\ step.at[1] = "root"
      /\ Resolve(step.at, TaskBook) = at /\ at \in DOMAIN chain.root
      /\ Succeeds(step, TaskBook) \/ chain.root[at].inited \/ chain.root[at].proxyOwner # Deployer
  <2>1. id \in 0..27
    OBVIOUS
  <2> QED
    BY <2>1, ProxyCall
<1>2. Task.step = step
  <2>1. queue # << >>
    BY DEF SendTask
  <2>2. Task.step = QueuedDeployments[(id + 1) + 1]
    BY <2>1, DeploymentTask
  <2>3. (id + 1) + 1 = id + 2
    OBVIOUS
  <2> QED
    BY <2>2, <2>3
<1>3. chain.root[at].proxyOwner = Deployer
  <2>1. at[1] \in Proxies
    BY RecordedIs, 0..27 = 0..27 DEF Inv1, NewProxy
  <2> QED
    BY <1>1, <2>1 DEF RootKept
<1> HIDE DEF step, at
<1>4. CASE Sent(chain, chain', Task.step, TaskBook)
  <2>1. Calls(chain.root, chain'.root, at, "updateAndCall", ResolveAll(step.args, TaskBook))
    BY <1>1, <1>2, <1>4 DEF Sent
  <2>2. Reaches(chain.root, at, "updateAndCall")
    BY <1>1 DEF Reaches, Forwards
  <2> QED
    BY <1>1, <2>1, <2>2 DEF Calls, IsResult, at
<1>5. CASE chain' = chain /\ ~Succeeds(Task.step, TaskBook)
  BY <1>1, <1>2, <1>3, <1>5 DEF at
<1> QED
  BY <1>4, <1>5, SendTaskInv1

Inits(id) == NewProxy(id) /\ id \in DOMAIN status => InitedAt(id) \/ Len(queue) > 26 - id
Called(id) ==
  /\ worker \in {"sent", "handled"} /\ Task.id = id + 1 /\ NewProxy(id)
  /\ id \in DOMAIN status /\ id - 1 \in DOMAIN status
  => InitedAt(id)

\* Every step keeps the proxies of the deployments that left the queue initialized.
LEMMA InitializingNext ==
  ASSUME Inv1, Queueing, Queued, Deploying, Initializing, RootKept, [Next]_vars PROVE Initializing'
<1> SUFFICES ASSUME Moonwalker, next' = 2
             PROVE  (\A id \in 0..27 : Inits(id)') /\ (\A id \in 1..27 : Called(id)')
  BY ChainGoes DEF Initializing, Inits, Called, Moonwalker, NewProxy, IsNew, NameAt, InitedAt
<1>1. CASE next = 1
  <2>1. QueueTask /\ script.name = "queueRootDeployment" /\ script.pc = 34 /\ worker' = "down"
    BY <1>1, ToProcessing
  <2>2. Len(queue') \in Nat /\ Len(queue') >= 28
    BY <2>1, LastTask
  <2> QED
    BY <2>1, <2>2 DEF Inits, Called
<1>2. CASE next = 2 /\ WorkerMoves
  <2>1. (\A id \in 0..27 : Inits(id)) /\ (\A id \in 1..27 : Called(id))
    BY <1>2 DEF Initializing, Inits, Called
  <2>2. ASSUME NEW id \in 0..27, NewProxy(id), id \in DOMAIN status, InitedAt(id)
        PROVE  chain'.root[status[id].address].inited
    <3>1. status[id].address \in DOMAIN chain["root"] /\ "root" \in Sides
      BY <2>2, RecordedIs DEF Inv1, NewProxy, Sides
    <3> QED
      BY <2>2, <3>1, StaysInited DEF InitedAt
  <2>3. CASE StartWorker \/ InterruptWorker \/ UNCHANGED vars
    <3>1. queue' = queue /\ status' = status /\ chain' = chain /\ (worker' \notin {"sent", "handled"} \/ worker' = worker)
      BY <2>3 DEF StartWorker, InterruptWorker, vars, workerVars
    <3> QED
      BY <2>1, <3>1 DEF Task, Inits, Called, InitedAt
  <2>4. CASE SendTask
    <3>1. queue' = queue /\ status' = status
      BY <2>4 DEF SendTask
    <3>2. \A id \in 0..27 : Inits(id)'
      BY <2>1, <2>2, <3>1 DEF Inits, InitedAt
    <3>3. \A id \in 1..27 : Called(id)'
      BY <1>2, <2>4, <3>1, ProxyCalled DEF Called, InitedAt, Task
    <3> QED
      BY <3>2, <3>3
  <2>5. CASE SaveStatus
    <3> DEFINE entry == [type |-> Task.step.op, name |-> Task.step.at[2], address |-> mined]
    <3>1. /\ queue' = queue /\ chain' = chain /\ queue # << >> /\ worker = "sent"
          /\ IsPut(status', status, Task.id, entry)
      BY <2>5, SaveStatusInv1 DEF SaveStatus, Inv1, WorkerOK
    <3> HIDE DEF entry
    <3>2. \A id \in DOMAIN status : id # Task.id => status'[id] = status[id]
      BY <3>1 DEF IsPut
    <3>3. DOMAIN status' = DOMAIN status \cup {Task.id}
      BY <3>1 DEF IsPut
    <3>4. ASSUME NEW id \in 0..27 PROVE Inits(id)'
      <4>1. CASE id # Task.id
        BY <2>1, <3>1, <3>2, <3>3, <4>1 DEF Inits, InitedAt
      <4>2. CASE id = Task.id
        <5>1. Len(queue) > 26 - id
          <6>1. Len(queue) \in Nat \ {0}
            BY <1>2, <3>1, DeploymentTask
          <6>2. CASE Len(queue) <= 28
            <7>1. id = 28 - Len(queue)
              BY <1>2, <3>1, <4>2, <6>2, FirstOfLast
            <7> QED
              BY ONLY <6>1, <7>1
          <6>3. CASE ~(Len(queue) <= 28)
            <7>1. id \in 0..27
              OBVIOUS
            <7> QED
              BY ONLY <6>1, <6>3, <7>1
          <6> QED
            BY <6>2, <6>3
        <5> QED
          BY <3>1, <5>1 DEF Inits
      <4> QED
        BY <4>1, <4>2
    <3>5. ASSUME NEW id \in 1..27 PROVE Called(id)'
      <4>1. SUFFICES ASSUME Task.id = id + 1, NewProxy(id), id \in DOMAIN status', id - 1 \in DOMAIN status'
                     PROVE  InitedAt(id)'
        BY <3>1 DEF Called, Task
      <4>2. id # Task.id /\ id - 1 # Task.id
        BY <4>1
      <4>3. id \in DOMAIN status /\ id - 1 \in DOMAIN status
        BY <3>3, <4>1, <4>2
      <4>4. InitedAt(id)
        BY <2>1, <3>1, <4>1, <4>3 DEF Called
      <4> QED
        BY <3>1, <3>2, <4>2, <4>3, <4>4 DEF InitedAt
    <3> QED
      BY <3>4, <3>5
  <2>6. CASE AckTask
    <3>1. /\ Len(queue) \in Nat \ {0} /\ Len(queue') = Len(queue) - 1
          /\ status' = status /\ chain' = chain /\ worker = "handled" /\ worker' = "idle" /\ queue # << >>
      BY <2>6, AckTaskInv1 DEF AckTask
    <3>2. ASSUME NEW id \in 0..27, NewProxy(id), id \in DOMAIN status, ~(Len(queue') > 26 - id), ~InitedAt(id)
          PROVE FALSE
      <4>1. Len(queue) = 27 - id
        <5>1. Len(queue) > 26 - id /\ ~(Len(queue') > 26 - id) /\ id \in 0..27
          BY <2>1, <3>2 DEF Inits
        <5> QED
          BY ONLY <3>1, <5>1
      <4>2. id \in 1..26 /\ IsNew(id - 1)
        BY <3>2, ProxyTasks
      <4>3. Len(queue) <= 28 /\ 28 - Len(queue) = id + 1 /\ id - 1 \in 0..27 /\ ~(Len(queue) > 27 - (id - 1))
        BY ONLY <4>1, <4>2
      <4>4. Task.id = id + 1
        BY <1>2, <3>1, <4>3, FirstOfLast
      <4>5. id - 1 \in DOMAIN status
        BY <1>2, <4>2, <4>3 DEF Deploying
      <4>6. id \in 1..27
        BY <4>2
      <4> QED
        BY <2>1, <3>1, <3>2, <4>4, <4>5, <4>6 DEF Called
    <3>3. \A id \in 0..27 : Inits(id)'
      BY <3>1, <3>2 DEF Inits, InitedAt
    <3> QED
      BY <3>1, <3>3 DEF Called
  <2> QED
    BY <1>2, <2>3, <2>4, <2>5, <2>6 DEF WorkerMoves
<1> QED
  BY <1>1, <1>2, ToProcessing

\* Once its deployments were processed, the worker records no other ones.
LEMMA RecordsStay ==
  ASSUME Inv1, [Next]_vars, Moonwalker, next > 2, NEW id \in 0..27, id \in DOMAIN status
  PROVE  id \in DOMAIN status' /\ status'[id] = status[id]
<1>1. CASE status' = status
  BY <1>1
<1>2. CASE SaveStatus
  <2> DEFINE entry == [type |-> Task.step.op, name |-> Task.step.at[2], address |-> mined]
  <2>1. TaskOK /\ IsPut(status', status, Task.id, entry)
    BY <1>2, SaveStatusInv1
  <2> HIDE DEF entry
  <2>2. Task.id \in 28..46
    <3>1. next \notin {1, 2}
      BY NextGrows
    <3> QED
      BY <2>1, <3>1 DEF TaskOK
  <2>3. id # Task.id
    BY <2>2
  <2> QED
    BY <2>1, <2>3 DEF IsPut
<1> QED
  BY <1>1, <1>2, StatusGoes

\* When the queue was processed all deployments are recorded, and stay so.
LEMMA AllDeployedNext ==
  ASSUME Inv1, Deploying, Initializing, AllDeployed, [Next]_vars PROVE AllDeployed'
<1> DEFINE D(id) == id \in DOMAIN status /\ (NewProxy(id) => InitedAt(id))
<1> SUFFICES ASSUME Moonwalker, next' > 2, NEW id \in 0..27, IsNew(id)
             PROVE  /\ id \in DOMAIN status'
                    /\ (NewProxy(id) => chain'.root[status'[id].address].inited)
  BY ChainGoes DEF AllDeployed, Moonwalker, InitedAt, IsNew, NewProxy, NameAt
<1>1. next \in Nat \ {0} /\ (next' = next \/ next' = next + 1)
  BY NextGrows
<1>2. CASE next = 2
  <2>1. next' = 3
    BY <1>1, <1>2
  <2>2. QueueProcessed
    <3>1. WorkerMoves => next' = next
      BY DEF WorkerMoves, StartWorker, SendTask, SaveStatus, AckTask, InterruptWorker, vars
    <3> QED
      BY <1>2, <2>1, <3>1, ProcessingMoves
  <2>3. Len(queue) = 0 /\ status' = status /\ chain' = chain
    BY <2>2 DEF QueueProcessed
  <2>4. id \in DOMAIN status \/ Len(queue) > 27 - id
    BY <1>2 DEF Deploying
  <2>5. id \in DOMAIN status
    <3>1. id \in 0..27
      OBVIOUS
    <3> QED
      BY ONLY <2>3, <2>4, <3>1
  <2>6. NewProxy(id) => InitedAt(id) \/ Len(queue) > 26 - id
    BY <1>2, <2>5 DEF Initializing
  <2>7. NewProxy(id) => id \in 1..26
    BY ProxyTasks
  <2>8. NewProxy(id) => InitedAt(id)
    <3>1. id \in 1..26 => ~(Len(queue) > 26 - id)
      BY ONLY <2>3
    <3> QED
      BY <2>6, <2>7, <3>1
  <2> QED
    BY <2>3, <2>5, <2>8 DEF InitedAt
<1>3. CASE next > 2
  <2>1. D(id)
    BY <1>3 DEF AllDeployed
  <2>2. id \in DOMAIN status' /\ status'[id] = status[id]
    BY <1>3, <2>1, RecordsStay
  <2>3. NewProxy(id) => chain'.root[status[id].address].inited
    <3>1. status[id].address \in DOMAIN chain["root"] /\ "root" \in Sides
      BY <2>1, RecordedIs DEF Inv1, Sides
    <3> QED
      BY <2>1, <3>1, StaysInited DEF InitedAt
  <2> QED
    BY <2>2, <2>3
<1> QED
  <2>1. next = 2 \/ next > 2
    BY <1>1
  <2> QED
    BY <1>2, <1>3, <2>1

\* A book that is kept under another one.
IsOver(g, new, old) ==
  /\ DOMAIN g = DOMAIN new \cup DOMAIN old
  /\ \A n \in DOMAIN new : g[n] = new[n]
  /\ \A n \in DOMAIN old : n \notin DOMAIN new => g[n] = old[n]

\* Over takes the values of its first argument where it has them.
LEMMA OverIs == ASSUME NEW new, NEW old PROVE IsOver(Over(new, old), new, old)
BY DEF Over, IsOver

\* What the scripts that end with the file do to it.
LEMMA WriteIs ==
  ASSUME Inv1, WriteFile
  PROVE  /\ script # NoScript /\ script.pc = Length(script.name) /\ chain' = chain /\ status' = status
         /\ IsOver(file'.root, script.book.root, file.root)
         /\ IsOver(file'.child, script.book.child, file.child)
         /\ \/ Truffle /\ next = 1 /\ script.name = "migration2"
            \/ /\ next = (IF Truffle THEN 2 ELSE 4) /\ script.name = "migration3"
<1>1. script # NoScript /\ Step.op = "write"
  BY WriteFileInv1
<1>2. /\ script.name \in ScriptNames /\ script.name = Current /\ next \in 1..Final
      /\ script.pc \in 1..Length(script.name) /\ KindOK(script.name, script.pc, Step)
  BY <1>1, RunningIs
<1>3. script.name \in {"migration2", "migration3"}
  BY <1>1, <1>2 DEF KindOK
<1>4. script.pc = Length(script.name)
  BY <1>1, <1>2, <1>3, MigrationSteps DEF Step
<1>5. \/ Truffle /\ next = 1 /\ script.name = "migration2"
      \/ /\ next = (IF Truffle THEN 2 ELSE 4) /\ script.name = "migration3"
  <2>1. next <= Final
    BY <1>2
  <2> QED
    BY <1>2, <1>3, <2>1, CurrentIs DEF Inv1
<1>6. file'.root = Over(script.book.root, file.root) /\ file'.child = Over(script.book.child, file.child)
  BY DEF WriteFile
<1> QED
  BY <1>1, <1>4, <1>5, <1>6, OverIs DEF WriteFile, workerVars

\* Every step keeps the file's root chain the one that was recorded.
LEMMA RootFileNext ==
  ASSUME Inv1, MigrationOK, AllDeployed, RootFile, [Next]_vars PROVE RootFile'
<1> SUFFICES ASSUME Moonwalker, next' > 3, NEW id \in 0..27, IsNew(id)
             PROVE  NameAt(id) \in DOMAIN file'.root /\ file'.root[NameAt(id)] = status'[id].address
  BY ChainGoes DEF RootFile, Moonwalker, IsNew, NameAt
<1>0. ~Truffle
  BY DEF Moonwalker, Truffle
<1>1. next \in Nat \ {0} /\ (next' = next \/ next' = next + 1) /\ next > 2
  <2>1. next \in Nat \ {0} /\ (next' = next \/ next' = next + 1)
    BY NextGrows
  <2> QED
    BY <2>1
<1>2. id \in DOMAIN status
  BY <1>1 DEF AllDeployed
<1>3. status'[id] = status[id]
  BY <1>1, <1>2, RecordsStay
<1>4. CASE next = 3
  <2>1. ExtractFile
    <3>1. script # NoScript /\ script' = NoScript
      <4>1. ~QueueProcessed
        BY <1>4, QueueProcessedInv1
      <4> QED
        BY <1>0, <1>4, <4>1, NextGoes DEF NextMoves, ScriptEnds
    <3>2. script.name = Current /\ KindOK(script.name, script.pc, Step) /\ script.name \in ScriptNames
      BY <3>1, RunningIs
    <3>3. script.name = "extractAddresses"
      <4>1. next <= Final
        BY <3>1, RunningIs
      <4> QED
        BY <1>0, <1>4, <3>2, <4>1, RunbookIs DEF Current, Moonwalker
    <3>4. Step.op = "extract"
      BY <3>2, <3>3 DEF KindOK
    <3>5. ~DeployContract /\ ~CallContract /\ ~CallReverts /\ ~TryCall /\ ~WriteFile /\ ~QueueTask /\ ~TryFails
      BY <3>4 DEF DeployContract, CallContract, CallReverts, TryCall, WriteFile, QueueTask, TryFails, Running, Step
    <3>6. ~StartScript /\ ~InterruptScript /\ ~Restart /\ ~StartWorker /\ ~QueueProcessed
      BY <1>0, <1>4, <3>1 DEF StartScript, InterruptScript, Restart, StartWorker, QueueProcessed, Truffle
    <3>7. ~SendTask /\ ~SaveStatus /\ ~AckTask /\ ~InterruptWorker /\ ~UNCHANGED vars
      BY <3>1 DEF SendTask, SaveStatus, AckTask, InterruptWorker, vars
    <3> QED
      BY <3>5, <3>6, <3>7 DEF Next
  <2>2. IsOver(file'.root, Extracted(status), file.root)
    BY <2>1, ExtractFileInv1, OverIs
  <2>3. NameAt(id) \in DOMAIN Extracted(status) /\ Extracted(status)[NameAt(id)] = status[id].address
    BY <1>2, RecordedIs DEF Inv1
  <2> QED
    BY <1>3, <2>2, <2>3 DEF IsOver
<1>5. CASE next > 3
  <2>1. NameAt(id) \in DOMAIN file.root /\ file.root[NameAt(id)] = status[id].address
    BY <1>5 DEF RootFile
  <2>2. CASE file' = file
    BY <1>3, <2>1, <2>2
  <2>3. CASE WriteFile
    <3>1. script # NoScript /\ script.name = "migration3" /\ IsOver(file'.root, script.book.root, file.root)
      BY <1>0, <2>3, WriteIs
    <3>2. DOMAIN script.book.root = {}
      BY <3>1 DEF MigrationOK, Runs
    <3> QED
      BY <1>3, <2>1, <3>1, <3>2 DEF IsOver
  <2>4. CASE ExtractFile
    BY <1>5, <2>4, ExtractFileInv1
  <2> QED
    BY <2>2, <2>3, <2>4, FileGoes
<1> QED
  <2>1. next = 3 \/ next > 3
    BY <1>1
  <2> QED
    BY <1>4, <1>5, <2>1

\* The last step of a script.
LEMMA EndsWith ==
  ASSUME Inv1, [Next]_vars, ScriptEnds
  PROVE  /\ Step.op = "write" => WriteFile
         /\ Step.op = "extract" => ExtractFile
         /\ Step.op = "try" => TryCall /\ script.errors = FALSE
         /\ script.pc = Length(script.name)
         /\ \E book : Advance(book)
<1>0. script # NoScript /\ script' = NoScript /\ next' = next + 1 /\ next' # next
  BY NextGrows DEF ScriptEnds
<1>1. /\ script.pc \in 1..Length(script.name) /\ Length(script.name) \in Nat /\ script.errors \in BOOLEAN
      /\ KindOK(script.name, script.pc, Step)
  BY <1>0, RunningIs
<1>2. ~StartScript /\ ~InterruptScript /\ ~Restart /\ ~StartWorker /\ ~QueueProcessed /\ ~CallReverts
  BY <1>0 DEF StartScript, InterruptScript, Restart, StartWorker, QueueProcessed, CallReverts
<1>3. ~SendTask /\ ~SaveStatus /\ ~AckTask /\ ~InterruptWorker /\ ~UNCHANGED vars
  BY <1>0 DEF SendTask, SaveStatus, AckTask, InterruptWorker, vars
<1>4. ~TryFails
  <2> SUFFICES ASSUME TryFails PROVE FALSE
    OBVIOUS
  <2>1. GoTo(script.pc + 1 + Step.more, script.book, TRUE) /\ Step.op = "try"
    BY DEF TryFails, Running, Step
  <2>2. next' = next
    BY <2>1 DEF GoTo
  <2> QED
    BY <1>0, <2>2
<1>5. DeployContract \/ CallContract \/ TryCall \/ QueueTask \/ WriteFile \/ ExtractFile
  BY <1>2, <1>3, <1>4 DEF Next
<1>6. /\ DeployContract => Step.op = "new"
      /\ CallContract => Step.op = "call"
      /\ TryCall => Step.op = "try"
      /\ QueueTask => Step.op = "queue"
      /\ WriteFile => Step.op = "write"
      /\ ExtractFile => Step.op = "extract"
  BY DEF DeployContract, CallContract, TryCall, QueueTask, WriteFile, ExtractFile, Running, Step
<1>7. \E book : Advance(book)
  BY <1>5 DEF DeployContract, CallContract, TryCall, QueueTask, WriteFile, ExtractFile
<1>8. script.pc = Length(script.name) /\ script.errors = FALSE
  <2>1. PICK book : Advance(book)
    BY <1>7
  <2>2. script.pc \in Nat /\ script.pc + 1 \in Nat
    BY <1>1
  <2>3. ScriptMoves(script.pc + 1, book, script.errors)
    BY <1>0, <1>1, <2>1, <2>2, Moves DEF Advance
  <2>4. script.pc + 1 > Length(script.name) /\ ~script.errors
    BY <1>0, <2>3 DEF ScriptMoves
  <2>5. script.pc = Length(script.name)
    BY ONLY <1>1, <2>4
  <2> QED
    BY <1>1, <2>4, <2>5
<1> QED
  BY <1>5, <1>6, <1>7, <1>8

\* Every contract of the root chain that the file must have is deployed by the queue.
LEMMA QueueDeploys ==
  ASSUME NEW name \in RootNames PROVE \E id \in 0..27 : IsNew(id) /\ NameAt(id) = name
<1>1. PICK j \in 1..23 : Steps("migration2")[j].op = "new" /\ Steps("migration2")[j].at[2] = name
  BY MigrationNames
<1>2. Steps("migration2")[j] = RootDeployments[j]
  BY Migration2At DEF Steps
<1>3. QueuedDeployments[5 + j] = RootDeployments[j]
  BY QueuedAt
<1>4. PICK id \in 0..27 : id + 1 = 5 + j
  <2>1. j + 4 \in 0..27 /\ (j + 4) + 1 = 5 + j
    OBVIOUS
  <2> QED
    BY <2>1
<1>5. IsNew(id) /\ NameAt(id) = name
  BY <1>1, <1>2, <1>3, <1>4 DEF IsNew, NameAt
<1> QED
  BY <1>5

FiledAt(side) == IF side = "root" THEN RootFiled ELSE ChildFiled

\* A file that is complete stays so while its entries stay.
LEMMA CompleteStays ==
  ASSUME Inv1, [Next]_vars, NEW side \in Sides, Complete(file, side),
         \A name \in Names(side) : name \in DOMAIN file'[side] /\ file'[side][name] = file[side][name]
  PROVE  Complete(file, side)'
<1>1. Names(side) \subseteq DOMAIN file'[side]
  OBVIOUS
<1>2. ASSUME NEW name \in Names(side) \cap Proxies PROVE chain'[side][file'[side][name]].inited
  <2>1. /\ name \in DOMAIN file[side] /\ file'[side][name] = file[side][name]
        /\ chain[side][file[side][name]].inited
    BY DEF Complete
  <2>2. file[side][name] \in DOMAIN chain[side]
    BY <2>1 DEF Inv1, BookOK
  <2> QED
    BY <2>1, <2>2, StaysInited
<1> QED
  BY <1>1, <1>2 DEF Complete

\* A migration's file is complete.
LEMMA MigrationCompletes ==
  ASSUME Inv1, MigrationOK, WriteFile, NEW name \in {"migration2", "migration3"}, script.name = name
  PROVE  Complete(file, SideOf(name))'
<1> DEFINE side == SideOf(name)
<1>1. /\ script # NoScript /\ script.pc = Length(name) /\ chain' = chain
      /\ IsOver(file'.root, script.book.root, file.root)
      /\ IsOver(file'.child, script.book.child, file.child)
      /\ Step.op = "write"
  BY WriteIs, WriteFileInv1
<1>2. CollectedIn(name, Length(name), script.book[side], chain[side])
  BY <1>1 DEF MigrationOK, Runs, Collected, SideOf
<1>3. Names(side) \subseteq DOMAIN script.book[side]
  <2>1. ASSUME NEW n \in Names(side) PROVE n \in DOMAIN script.book[side]
    <3>1. PICK j \in 1..(Length(name) - 1) : Steps(name)[j].op = "new" /\ Steps(name)[j].at[2] = n
      <4>1. CASE name = "migration2"
        <5>1. Length(name) - 1 = 23 /\ n \in RootNames
          BY <4>1 DEF Length, Names, SideOf
        <5> QED
          BY <4>1, <5>1, MigrationNames
      <4>2. CASE name = "migration3"
        <5>1. Length(name) - 1 = 8 /\ n \in ChildNames
          BY <4>2 DEF Length, Names, SideOf
        <5> QED
          BY <4>2, <5>1, MigrationNames
      <4> QED
        BY <4>1, <4>2
    <3> QED
      BY <1>2, <3>1 DEF CollectedIn
  <2> QED
    BY <2>1
<1>4. IsOver(file'[side], script.book[side], file[side])
  BY <1>1 DEF SideOf
<1>5. \A n \in DOMAIN script.book[side] \cap Proxies : chain[side][script.book[side][n]].inited
  <2>1. Steps(name)[Length(name)].op # "call"
    BY <1>1 DEF Step
  <2> QED
    BY <1>2, <2>1 DEF CollectedIn
<1> HIDE DEF side
<1>6. Names(side) \subseteq DOMAIN file'[side]
  BY <1>3, <1>4 DEF IsOver
<1>7. \A n \in Names(side) \cap Proxies : chain'[side][file'[side][n]].inited
  BY <1>1, <1>3, <1>4, <1>5 DEF IsOver
<1> QED
  BY <1>6, <1>7 DEF Complete, side

\* What is extracted is complete.
LEMMA ExtractCompletes ==
  ASSUME Inv1, AllDeployed, ExtractFile PROVE Complete(file, "root")'
<1>1. /\ Moonwalker /\ next = 3 /\ IsOver(file'.root, Extracted(status), file.root) /\ chain' = chain
  BY ExtractFileInv1, OverIs DEF ExtractFile
<1>2. ASSUME NEW name \in RootNames
      PROVE  /\ name \in DOMAIN file'.root
             /\ name \in Proxies => chain.root[file'.root[name]].inited
  <2>1. PICK id \in 0..27 : IsNew(id) /\ NameAt(id) = name
    BY QueueDeploys
  <2>2. id \in DOMAIN status /\ (NewProxy(id) => InitedAt(id))
    BY <1>1, <2>1 DEF AllDeployed
  <2>3. name \in DOMAIN Extracted(status) /\ Extracted(status)[name] = status[id].address
    BY <2>1, <2>2, RecordedIs DEF Inv1
  <2> QED
    BY <1>1, <2>1, <2>2, <2>3 DEF IsOver, NewProxy, InitedAt
<1> QED
  BY <1>1, <1>2 DEF Complete, Names

\* Every step keeps the file complete for the runbook's next step.
LEMMA FileReadyNext ==
  ASSUME Inv1, MigrationOK, AllDeployed, FileReady, [Next]_vars PROVE FileReady'
<1>0. path' = path /\ next \in Nat \ {0} /\ next' \in Nat
  BY ChainGoes, NextGrows
<1>1. RootFiled' = RootFiled /\ ChildFiled' = ChildFiled
  BY <1>0 DEF RootFiled, ChildFiled, Truffle
<1> SUFFICES ASSUME NEW side \in Sides, next' > FiledAt(side) PROVE Complete(file, side)'
  BY <1>1 DEF FileReady, FiledAt, Sides
<1>2. FiledAt(side) \in 1..4 /\ RootFiled \in 1..4 /\ ChildFiled = RootFiled + 1
  BY DEF FiledAt, RootFiled, ChildFiled
<1>3. CASE WriteFile
  <2>1. /\ script # NoScript
        /\ IsOver(file'.root, script.book.root, file.root)
        /\ \/ Truffle /\ next = 1 /\ script.name = "migration2"
           \/ next = (IF Truffle THEN 2 ELSE 4) /\ script.name = "migration3"
    BY <1>3, WriteIs
  <2>2. next' = next \/ next' = next + 1
    BY <1>3, NextGoes, <2>1 DEF NextMoves, ScriptEnds, WriteFile, QueueProcessed, Advance, GoTo
  <2>3. CASE script.name = "migration2"
    <3>1. side = "root"
      BY <1>2, <2>1, <2>2, <2>3 DEF FiledAt, RootFiled, ChildFiled, Sides
    <3> QED
      BY <1>3, <2>3, <3>1, MigrationCompletes DEF SideOf
  <2>4. CASE script.name = "migration3"
    <3>1. Complete(file, "child")'
      BY <1>3, <2>4, MigrationCompletes DEF SideOf
    <3>2. next > RootFiled
      BY <2>1, <2>4 DEF RootFiled
    <3>3. DOMAIN script.book.root = {} /\ Complete(file, "root")
      BY <2>1, <2>4, <3>2 DEF MigrationOK, Runs, FileReady
    <3>4. Complete(file, "root")'
      <4>1. \A name \in Names("root") : name \in DOMAIN file'["root"] /\ file'["root"][name] = file["root"][name]
        BY <2>1, <3>3 DEF IsOver, Complete
      <4> QED
        BY <3>3, <4>1, CompleteStays DEF Sides
    <3> QED
      BY <3>1, <3>4 DEF Sides
  <2> QED
    BY <2>1, <2>3, <2>4
<1>4. CASE ExtractFile
  <2>1. Moonwalker /\ next = 3
    BY <1>4, ExtractFileInv1
  <2>2. next' = 3 \/ next' = 4
    BY <2>1, NextGrows
  <2>3. side = "root"
    BY <2>1, <2>2 DEF FiledAt, RootFiled, ChildFiled, Sides, Moonwalker, Truffle
  <2> QED
    BY <1>4, <2>3, ExtractCompletes
<1>5. CASE file' = file /\ ~WriteFile /\ ~ExtractFile
  <2>1. CASE next > FiledAt(side)
    <3>1. Complete(file, side)
      BY <2>1 DEF FileReady, FiledAt, Sides
    <3> QED
      BY <1>5, <3>1, CompleteStays DEF Complete
  <2>2. CASE ~(next > FiledAt(side))
    <3>1. next' = next + 1 /\ next = FiledAt(side)
      <4>1. next' = next \/ next' = next + 1 \/ next' = 1
        BY NextGoes DEF NextMoves, ScriptEnds, QueueProcessed
      <4> QED
        BY <1>0, <1>2, <2>2, <4>1
    <3>2. Current # "processQueue" /\ ~QueueProcessed
      <4>1. next \notin {2, 6} \/ Truffle
        BY <3>1 DEF FiledAt, RootFiled, ChildFiled
      <4>2. next <= Final
        BY <3>1 DEF FiledAt, RootFiled, ChildFiled, Final
      <4> QED
        BY <4>1, <4>2, CurrentIs DEF Inv1, QueueProcessed, Moonwalker, Truffle
    <3>3. ScriptEnds
      BY <1>0, <1>2, <3>1, <3>2, NextGoes DEF NextMoves
    <3>4. /\ script # NoScript /\ script.name = Current /\ next <= Final
          /\ script.pc \in 1..Length(script.name) /\ KindOK(script.name, script.pc, Step)
      BY <3>3, RunningIs DEF ScriptEnds
    <3>5. script.name \in {"migration2", "migration3", "extractAddresses"}
      <4>1. path \in {"truffle", "moonwalker"}
        BY DEF Inv1, Control
      <4> QED
        BY <3>1, <3>4, <4>1, RunbookIs DEF Current, FiledAt, RootFiled, ChildFiled, Truffle
    <3>6. Step.op # "extract" /\ Step.op # "write"
      BY <1>5, <3>3, EndsWith
    <3>7. Step.op # "try" /\ script.name # "extractAddresses"
      BY <3>4, <3>5, <3>6 DEF KindOK
    <3>8. script.pc = Length(script.name)
      BY <3>3, <3>7, EndsWith
    <3> QED
      BY <3>4, <3>5, <3>6, <3>7, <3>8, MigrationSteps DEF Step
  <2> QED
    BY <2>1, <2>2
<1> QED
  BY <1>3, <1>4, <1>5, FileGoes

\* The second invariant holds at the start.
LEMMA InitInv2 == Init => Inv2
<1> SUFFICES ASSUME Init PROVE Inv2
  OBVIOUS
<1>1. /\ script = NoScript /\ next = 1 /\ chain = [root |-> << >>, child |-> << >>] /\ NoScript.name = "none"
  BY DEF Init, NoScript
<1>2. MigrationOK /\ DeploymentsQueued
  BY <1>1 DEF MigrationOK, DeploymentsQueued, Runs, Queueing, Queued, Deploying, Initializing, AllDeployed, RootFile
<1>3. FileReady
  BY <1>1 DEF FileReady, RootFiled, ChildFiled
<1>4. RootKept
  <2>1. DOMAIN chain.root = {}
    BY <1>1
  <2> QED
    BY <2>1 DEF RootKept
<1> QED
  BY <1>2, <1>3, <1>4 DEF Inv2

\* Every step keeps the second invariant.
LEMMA NextInv2 == Inv1 /\ Inv2 /\ [Next]_vars => Inv2'
BY RootKeptNext, MigrationNext, QueueingNext, QueuedNext, DeployingNext, InitializingNext, AllDeployedNext,
   RootFileNext, FileReadyNext DEF Inv2, DeploymentsQueued

\* The second invariant: what is deployed is recorded and in the file.
LEMMA Inv2Holds == Spec => []Inv2
<1> QED
  BY InitInv2, NextInv2, Inv1Holds, PTL DEF Spec

OwnerCount(side) == IF side = "root" THEN 7 ELSE 6

TransferOf(side, name) == Try(<<side, name>>, "transferProxyOwnership", <<Value(NewOwner)>>, 0)
GrantOf(side, name) == Try(<<side, name>>, "grantRole", <<Value("DEFAULT_ADMIN"), Value(NewOwner)>>, 1)
RevokeOf(side, name) == Try(<<side, name>>, "revokeRole", <<Value("DEFAULT_ADMIN"), Value(Deployer)>>, 0)

\* The contracts that are given away, and the scripts that do that.
LEMMA OwnersAre ==
  ASSUME NEW side \in Sides
  PROVE  /\ DOMAIN Owners[side] = 1..OwnerCount(side)
         /\ \A k \in 1..OwnerCount(side) : Owners[side][k] \in OwnedNames(side)
         /\ OwnerCount(side) \in Nat \ {0}
         /\ ChangeOf[side] \in ScriptNames /\ Length(ChangeOf[side]) = 3 * OwnerCount(side)
         /\ ChangeOf[side] = IF side = "root" THEN "changeRootOwners" ELSE "changeChildOwners"
         /\ ChangeOf[side] \in Readers
<1>1. /\ DOMAIN OwnedRoot = 1..7 /\ \A k \in 1..7 : OwnedRoot[k] \in OwnedNames("root")
  <2>1. Listed(OwnedRoot, 7, OwnedNames("root"))
    BY OwnedLists
  <2> QED
    BY <2>1, ListedAt
<1>2. /\ DOMAIN OwnedChild = 1..6 /\ \A k \in 1..6 : OwnedChild[k] \in OwnedNames("child")
  <2>1. Listed(OwnedChild, 6, OwnedNames("child"))
    BY OwnedLists
  <2> QED
    BY <2>1, ListedAt
<1>3. Length("changeRootOwners") = 21 /\ Length("changeChildOwners") = 18
  BY DEF Length
<1>4. CASE side = "root"
  BY <1>1, <1>3, <1>4 DEF OwnerCount, Owners, ChangeOf, ScriptNames, Readers
<1>5. CASE side = "child"
  BY <1>2, <1>3, <1>5 DEF OwnerCount, Owners, ChangeOf, ScriptNames, Readers
<1> QED
  BY <1>4, <1>5 DEF Sides

\* The three steps for the k-th contract that is given away.
LEMMA OwnerStepAt ==
  ASSUME NEW side \in Sides, NEW k \in 1..OwnerCount(side)
  PROVE  LET steps == Steps(ChangeOf[side])
             name == Owners[side][k]
         IN  /\ steps[3 * k - 2] = TransferOf(side, name)
             /\ steps[3 * k - 1] = GrantOf(side, name)
             /\ steps[3 * k] = RevokeOf(side, name)
<1> DEFINE n == OwnerCount(side)  list == Owners[side]
           seqs == [i \in 1..n |-> GiveAway(<<side, list[i]>>)]
           steps == ChangeOwners([i \in 1..n |-> <<side, list[i]>>])
<1>1. Steps(ChangeOf[side]) = steps
  <2>1. CASE side = "root"
    BY <2>1, OwnersAt DEF Owners, ChangeOf, OwnerCount
  <2>2. CASE side = "child"
    BY <2>2, OwnersAt DEF Owners, ChangeOf, OwnerCount
  <2> QED
    BY <2>1, <2>2 DEF Sides
<1>2. Listed(list, n, OwnedNames(side)) /\ n \in Nat \ {0}
  <2>1. CASE side = "root"
    BY <2>1, OwnedLists DEF Owners, OwnerCount
  <2>2. CASE side = "child"
    BY <2>2, OwnedLists DEF Owners, OwnerCount
  <2> QED
    BY <2>1, <2>2 DEF Sides
<1>3. seqs[k] = GiveAway(<<side, list[k]>>)
  OBVIOUS
<1> HIDE DEF n, list
<1>4. IsTriples(steps, seqs, n)
  BY <1>2, ChangeOwnersAt
<1> HIDE DEF seqs, steps
<1>5. steps[3 * k - 2] = seqs[k][1] /\ steps[3 * k - 1] = seqs[k][2] /\ steps[3 * k] = seqs[k][3]
  BY <1>4 DEF IsTriples, n
<1>6. /\ GiveAway(<<side, list[k]>>)[1] = TransferOf(side, list[k])
      /\ GiveAway(<<side, list[k]>>)[2] = GrantOf(side, list[k])
      /\ GiveAway(<<side, list[k]>>)[3] = RevokeOf(side, list[k])
  BY DEF GiveAway, TransferOf, GrantOf, RevokeOf
<1> QED
  BY <1>1, <1>3, <1>5, <1>6 DEF list

\* Every step of a change of owners is one of some contract's three.
LEMMA OwnerPosition ==
  ASSUME NEW side \in Sides, NEW pc \in 1..Length(ChangeOf[side])
  PROVE  \E k \in 1..OwnerCount(side) : pc \in {3 * k - 2, 3 * k - 1, 3 * k}
<1>1. CASE side = "root"
  <2>1. pc \in 1..21 /\ OwnerCount(side) = 7
    BY <1>1, OwnersAre DEF OwnerCount
  <2>2. PICK k \in 1..7 : pc \in {3 * k - 2, 3 * k - 1, 3 * k}
    BY <2>1
  <2> QED
    BY <2>1, <2>2
<1>2. CASE side = "child"
  <2>1. pc \in 1..18 /\ OwnerCount(side) = 6
    BY <1>2, OwnersAre DEF OwnerCount
  <2>2. PICK k \in 1..6 : pc \in {3 * k - 2, 3 * k - 1, 3 * k}
    BY <2>1
  <2> QED
    BY <2>1, <2>2
<1> QED
  BY <1>1, <1>2 DEF Sides

\* A step of a change of owners.
GivesAway(s, side, name) == s \in {TransferOf(side, name), GrantOf(side, name), RevokeOf(side, name)}

\* The three steps of giving a contract away.
LEMMA OwnerStepIs ==
  ASSUME NEW side, NEW name
  PROVE  /\ TransferOf(side, name).op = "try" /\ TransferOf(side, name).method = "transferProxyOwnership"
         /\ TransferOf(side, name).at = <<side, name>> /\ TransferOf(side, name).more = 0
         /\ TransferOf(side, name).args = <<Value(NewOwner)>>
         /\ GrantOf(side, name).op = "try" /\ GrantOf(side, name).method = "grantRole"
         /\ GrantOf(side, name).at = <<side, name>> /\ GrantOf(side, name).more = 1
         /\ GrantOf(side, name).args = <<Value("DEFAULT_ADMIN"), Value(NewOwner)>>
         /\ RevokeOf(side, name).op = "try" /\ RevokeOf(side, name).method = "revokeRole"
         /\ RevokeOf(side, name).at = <<side, name>> /\ RevokeOf(side, name).more = 0
         /\ RevokeOf(side, name).args = <<Value("DEFAULT_ADMIN"), Value(Deployer)>>
BY DEF TransferOf, GrantOf, RevokeOf, Try

\* The values that its calls get.
LEMMA OwnerArgs ==
  ASSUME NEW side, NEW name, NEW book
  PROVE  /\ ResolveAll(TransferOf(side, name).args, book) = <<NewOwner>>
         /\ ResolveAll(GrantOf(side, name).args, book) = <<"DEFAULT_ADMIN", NewOwner>>
         /\ ResolveAll(RevokeOf(side, name).args, book) = <<"DEFAULT_ADMIN", Deployer>>
         /\ \A s : GivesAway(s, side, name) => \A i \in DOMAIN s.args : Known(s.args[i], book)
<1>1. \A v : Resolve(Value(v), book) = v /\ Known(Value(v), book)
  BY DEF Resolve, Value, Known
<1>2. /\ ResolveAll(<<Value(NewOwner)>>, book) = <<NewOwner>>
  BY <1>1 DEF ResolveAll
<1>3. \A u, v : ResolveAll(<<Value(u), Value(v)>>, book) = <<u, v>>
  BY <1>1 DEF ResolveAll
<1>4. /\ \A i \in DOMAIN <<Value(NewOwner)>> : Known(<<Value(NewOwner)>>[i], book)
      /\ \A u, v : \A i \in DOMAIN <<Value(u), Value(v)>> : Known(<<Value(u), Value(v)>>[i], book)
  BY <1>1
<1>5. ASSUME NEW s, GivesAway(s, side, name) PROVE \A i \in DOMAIN s.args : Known(s.args[i], book)
  <2>1. \/ s.args = <<Value(NewOwner)>>
        \/ s.args = <<Value("DEFAULT_ADMIN"), Value(NewOwner)>>
        \/ s.args = <<Value("DEFAULT_ADMIN"), Value(Deployer)>>
    BY <1>5, OwnerStepIs DEF GivesAway
  <2> QED
    BY <1>4, <2>1
<1>6. ResolveAll(TransferOf(side, name).args, book) = <<NewOwner>>
  BY <1>2, OwnerStepIs
<1>7. ResolveAll(GrantOf(side, name).args, book) = <<"DEFAULT_ADMIN", NewOwner>>
  <2>1. GrantOf(side, name).args = <<Value("DEFAULT_ADMIN"), Value(NewOwner)>>
    BY OwnerStepIs
  <2>2. ResolveAll(<<Value("DEFAULT_ADMIN"), Value(NewOwner)>>, book) = <<"DEFAULT_ADMIN", NewOwner>>
    BY <1>3
  <2> QED
    BY ONLY <2>1, <2>2
<1>8. ResolveAll(RevokeOf(side, name).args, book) = <<"DEFAULT_ADMIN", Deployer>>
  <2>1. RevokeOf(side, name).args = <<Value("DEFAULT_ADMIN"), Value(Deployer)>>
    BY OwnerStepIs
  <2>2. ResolveAll(<<Value("DEFAULT_ADMIN"), Value(Deployer)>>, book) = <<"DEFAULT_ADMIN", Deployer>>
    BY <1>3
  <2> QED
    BY ONLY <2>1, <2>2
<1> QED
  BY <1>5, <1>6, <1>7, <1>8

\* Only the change of owners revokes a role.
ChangesOwners(side) == script # NoScript /\ script.name = ChangeOf[side]

\* Nothing on the child chain revokes a role before its owners change.
LEMMA NoRevoke ==
  /\ \A s \in ChildDeploys : s.op = "call" => s.method = "updateAndCall"
  /\ \A s \in ChildInits : s.method \in {"grantRole", "mapChildToken"}
<1>1. /\ \A ref, args : New(ref, args).op = "new"
      /\ \A ref, m, args : Call(ref, m, args).method = m
  BY DEF New, Call
<1>2. ASSUME NEW s \in ChildDeploys, s.op = "call" PROVE s.method = "updateAndCall"
  <2>1. s = Call(Child(ChildManagerProxy), "updateAndCall", <<Child(ChildManager)>>)
    BY <1>1, <1>2 DEF ChildDeploys
  <2> QED
    BY <1>1, <2>1
<1>3. ASSUME NEW s \in ChildInits PROVE s.method \in {"grantRole", "mapChildToken"}
  <2>1. GrantSyncer.method = "grantRole" /\ \A t : MapChild(t).method = "mapChildToken"
    BY <1>1 DEF GrantSyncer, MapChild
  <2> QED
    BY <1>3, <2>1 DEF ChildInits
<1> QED
  BY <1>2, <1>3

\* The step of a script that runs is one of its steps.
LEMMA StepIn ==
  ASSUME Inv1, script # NoScript PROVE Step \in StepSet(script.name)
<1>1. script.name \in ScriptNames /\ script.pc \in 1..Length(script.name) /\ Length(script.name) \in Nat
  BY RunningIs
<1>2. Listed(Steps(script.name), Length(script.name), StepSet(script.name))
  BY <1>1, StepsAt
<1>3. \A i \in 1..Length(script.name) : Steps(script.name)[i] \in StepSet(script.name)
  BY <1>1, <1>2, ListedAt
<1> QED
  BY <1>1, <1>3 DEF Step

\* Only a change of owners revokes roles.
LEMMA WhoRevokes ==
  ASSUME Inv1, [Next]_vars, NEW side \in Sides, chain'[side] # chain[side]
  PROVE  \/ ChangesOwners(side) /\ ScriptTransacts /\ Step.op = "try" /\ Step.at[1] = side
         \/ /\ \A s \in Sides : ~ChangesOwners(s)
            /\ \E step, book : /\ Sent(chain, chain', step, book) /\ step.at[1] = side
                               /\ step.op # "new" => step.method \in InitMethods \cup {"mapChildToken", "updateAndCall"}
<1>1. CASE ScriptTransacts
  <2>1. /\ script # NoScript /\ Step.at[1] = side /\ KindOK(script.name, script.pc, Step)
        /\ script.name \in ScriptNames /\ Step \in StepSet(script.name)
        /\ Sent(chain, chain', Step, script.book)
    BY <1>1, RunningIs, StepIn DEF ScriptTransacts, Sent
  <2>2. CASE Step.op = "try"
    <3>1. script.name = ChangeOf[side]
      BY <2>1, <2>2, OwnersAre DEF KindOK, Sides
    <3> QED
      BY <1>1, <2>1, <2>2, <3>1 DEF ChangesOwners
  <2>3. CASE Step.op \in {"new", "call"}
    <3>1. \A s \in Sides : ~ChangesOwners(s)
      BY <2>1, <2>3, OwnersAre DEF KindOK, ChangesOwners
    <3>2. Step.op = "call" => Step.method \in InitMethods \cup {"mapChildToken", "updateAndCall"}
      <4>1. SUFFICES ASSUME Step.op = "call" PROVE Step.method \in InitMethods \cup {"mapChildToken", "updateAndCall"}
        OBVIOUS
      <4>2. CASE script.name = "migration2"
        <5>1. Step \in RootDeploys
          BY <2>1, <4>1, <4>2 DEF StepSet, WriteAddresses
        <5> QED
          BY <4>1, <5>1, DeployCalls
      <4>3. CASE script.name = "migration3"
        <5>1. Step \in ChildDeploys
          BY <2>1, <4>1, <4>3 DEF StepSet, WriteAddresses
        <5> QED
          BY <4>1, <5>1, NoRevoke
      <4>4. CASE script.name = "migration4"
        BY <2>1, <4>4, InitCalls DEF StepSet
      <4>5. CASE script.name = "migration5"
        BY <2>1, <4>5, NoRevoke DEF StepSet, InitMethods
      <4> QED
        BY <2>1, <4>1, <4>2, <4>3, <4>4, <4>5 DEF KindOK
    <3> QED
      BY <2>1, <2>3, <3>1, <3>2
  <2> QED
    BY <1>1, <2>2, <2>3 DEF ScriptTransacts
<1>2. CASE WorkerTransacts
  <2>1. TaskOK /\ next # 1 /\ Sent(chain, chain', Task.step, TaskBook)
    BY <1>2 DEF WorkerTransacts
  <2>2. Task.step.at[1] = side
    BY <2>1 DEF Sent
  <2>3. chain'.root # chain.root
    BY <2>1, <2>2 DEF TaskOK
  <2>4. Moonwalker /\ next \in {1, 2, 5, 6}
    BY <2>1 DEF TaskOK
  <2>5. \A s \in Sides : ~ChangesOwners(s)
    <3>1. ASSUME NEW s \in Sides, ChangesOwners(s) PROVE FALSE
      <4>1. script # NoScript /\ script.name = Current /\ next <= Final
        BY <3>1, RunningIs DEF ChangesOwners
      <4> QED
        <5>1. Final = 9
          BY <2>4 DEF Moonwalker, Truffle, Final
        <5>2. Current = "changeRootOwners" \/ Current = "changeChildOwners"
          BY <3>1, <4>1, OwnersAre DEF ChangesOwners
        <5>3. next = 8 \/ next = 9
          BY <4>1, <5>1, <5>2, CurrentIs DEF Inv1
        <5> QED
          BY <2>4, <5>3
    <3> QED
      BY <3>1
  <2>6. Task.step.op # "new" => Task.step.method \in InitMethods \cup {"mapChildToken", "updateAndCall"}
    <3>1. CASE next \in {1, 2}
      <4>1. Task.id + 1 \in 1..28 /\ Task.step = QueuedDeployments[Task.id + 1]
        BY <2>1, <3>1 DEF TaskOK
      <4>2. \A i \in 1..28 : QueuedDeployments[i] \in RootDeploys \cup LibraryDeploys
        BY QueuedAt, ListedAt
      <4>3. Task.step \in RootDeploys \cup LibraryDeploys
        BY <4>1, <4>2
      <4> QED
        BY <2>1, <4>3, DeployCalls DEF TaskOK
    <3>2. CASE next \in {5, 6}
      <4>1. Task.id - 27 \in 1..19 /\ Task.step = FixedStep(RootInitializations[Task.id - 27], file)
        BY <2>1, <3>2 DEF TaskOK
      <4>2. Listed(RootInitializations, 19, RootInits)
        BY InitsAt DEF Listed
      <4>3. \A i \in 1..19 : RootInitializations[i] \in RootInits
        BY <4>2, ListedAt
      <4> QED
        BY <4>1, <4>3, FixedOK, InitCalls
    <3> QED
      BY <2>4, <3>1, <3>2
  <2> QED
    BY <2>1, <2>2, <2>5, <2>6
<1>3. CASE chain' = chain
  BY <1>3
<1> QED
  BY <1>1, <1>2, <1>3, ChainGoes DEF ChainMoves

OwnerAt(c) == Has(c, "DEFAULT_ADMIN") \/ Admin(c)

\* The new owner is another account than the deployer.
LEMMA Accounts2 == NewOwner # Deployer
BY DEF NewOwner, Deployer, External

\* A contract's initial and constructor's roles make the deployer its admin.
LEMMA NewOwned ==
  ASSUME NEW side \in Sides, NEW name \in OwnedNames(side), NEW args
  PROVE  /\ name \notin Proxies => OwnerAt(Constructed(name, args))
         /\ ~Constructed(name, args).inited
<1>1. CASE name = RootToken("MintableERC721")
  BY <1>1 DEF Constructed, ConstructorRoles, OwnerAt, Has
<1>2. CASE name \in {ChildToken(t) : t \in TokenType} /\ name # RootToken("MintableERC721")
  BY <1>2 DEF Constructed, ConstructorRoles, OwnerAt, Has
<1>3. CASE name \in Proxies
  BY <1>3 DEF Constructed
<1> QED
  BY <1>1, <1>2, <1>3 DEF OwnedNames, Proxies, Sides

\* What initialize gives has an owner.
LEMMA InitialOwned ==
  ASSUME NEW name, NEW c, c.roles = InitialRoles(name) PROVE OwnerAt(c)
BY DEF InitialRoles, OwnerAt, Has

\* Where a change of owners is.
LEMMA OwnersRun ==
  ASSUME Inv1, NEW side \in Sides, ChangesOwners(side)
  PROVE  /\ script.book = file /\ script.pc \in 1..Length(script.name) /\ script.pc \in Nat
         /\ \E k \in 1..OwnerCount(side) : script.pc \in {3 * k - 2, 3 * k - 1, 3 * k}
         /\ next = IF side = "root" THEN Final - 1 ELSE Final
         /\ next > ChildFiled /\ next > RootFiled
         /\ Runs(ChangeOf[side]) /\ script.errors \in BOOLEAN
<1>1. /\ script # NoScript /\ script.name = Current /\ next \in 1..Final
      /\ script.pc \in 1..Length(script.name) /\ Length(script.name) \in Nat /\ script.errors \in BOOLEAN
  BY RunningIs DEF ChangesOwners
<1>2. script.book = file
  BY <1>1, OwnersAre DEF Inv1, ScriptOK, ChangesOwners
<1>3. next = IF side = "root" THEN Final - 1 ELSE Final
  <2>1. next <= Final
    BY <1>1
  <2> QED
    BY <1>1, <2>1, OwnersAre, CurrentIs DEF Inv1, ChangesOwners, Sides
<1>4. next > ChildFiled /\ next > RootFiled
  BY <1>3 DEF Final, ChildFiled, RootFiled
<1>5. \E k \in 1..OwnerCount(side) : script.pc \in {3 * k - 2, 3 * k - 1, 3 * k}
  BY <1>1, OwnerPosition DEF ChangesOwners
<1> QED
  BY <1>1, <1>2, <1>3, <1>4, <1>5 DEF Runs, ChangesOwners

\* Which of its steps is next.
LEMMA OwnerStepNow ==
  ASSUME Inv1, NEW side \in Sides, ChangesOwners(side), NEW k \in 1..OwnerCount(side)
  PROVE  /\ script.pc = 3 * k - 2 => Step = TransferOf(side, Owners[side][k])
         /\ script.pc = 3 * k - 1 => Step = GrantOf(side, Owners[side][k])
         /\ script.pc = 3 * k => Step = RevokeOf(side, Owners[side][k])
BY OwnerStepAt DEF Step, ChangesOwners

\* Every step keeps an owner for every contract that is given away.
LEMMA HasOwnerNext ==
  ASSUME Inv1, HasOwner, RevokeOK, [Next]_vars PROVE HasOwner'
<1> SUFFICES ASSUME NEW side \in Sides, NEW a \in DOMAIN chain'[side], a[1] \in OwnedNames(side),
                    a[1] \in Proxies => chain'[side][a].inited
             PROVE  OwnerAt(chain'[side][a])
  BY DEF HasOwner, OwnerAt, Has, Admin
<1>1. ASSUME NEW b \in DOMAIN chain[side], b[1] \in OwnedNames(side), b[1] \in Proxies => chain[side][b].inited
      PROVE  OwnerAt(chain[side][b])
  BY <1>1 DEF HasOwner, OwnerAt
<1>2. CASE chain'[side] = chain[side]
  BY <1>1, <1>2
<1>3. ASSUME NEW step, NEW book, Sent(chain, chain', step, book), step.at[1] = side,
             step.op # "new" => step.method \in InitMethods \cup {"mapChildToken", "updateAndCall"}
      PROVE  OwnerAt(chain'[side][a])
  <2>1. CASE a \in DOMAIN chain[side] /\ chain'[side][a] = chain[side][a]
    BY <1>1, <2>1
  <2>2. CASE Added(chain, chain', step, book, a)
    <3>1. PICK args : chain'[side][a] = Constructed(a[1], args)
      BY <1>3, <2>2 DEF Added
    <3> QED
      BY <3>1, NewOwned
  <2>3. CASE Changed(chain, chain', step, book, a)
    <3> DEFINE c == chain[side][a]  r == chain'[side][a]
    <3>1. /\ IsResult(r, a[1], c, step.method, ResolveAll(step.args, book))
          /\ step.op # "new" /\ a \in DOMAIN chain[side]
      BY <1>3, <2>3 DEF Changed
    <3>2. c.inited \in BOOLEAN
      BY <3>1 DEF Inv1, ChainsOK, ChainOK, ContractOK
    <3>3. a[1] \in OwnedNames(side) /\ (a[1] \in Proxies => r.inited)
      OBVIOUS
    <3>4. (a[1] \in Proxies => c.inited) => OwnerAt(c)
      BY <1>1, <3>1
    <3> HIDE DEF c, r
    <3>5. CASE step.method = "updateAndCall"
      <4>1. r.roles = InitialRoles(a[1])
        BY <3>1, <3>5 DEF IsResult
      <4> QED
        BY <4>1, InitialOwned DEF r
    <3>6. CASE step.method # "updateAndCall"
      <4>1. step.method # "revokeRole"
        BY <1>3, <3>1 DEF InitMethods
      <4>2. r.inited = c.inited
        BY <3>1, <3>2, <3>6 DEF IsResult
      <4>3. c.roles \subseteq r.roles
        BY <3>1, <3>6, <4>1 DEF IsResult
      <4>4. OwnerAt(c)
        BY <3>3, <3>4, <4>2
      <4>5. OwnerAt(r)
        BY <4>3, <4>4 DEF OwnerAt, Has, Admin
      <4> QED
        BY <4>5 DEF r
    <3> QED
      BY <3>5, <3>6
  <2> QED
    BY <1>3, <2>1, <2>2, <2>3, SentAt
<1>4. ASSUME ChangesOwners(side), ScriptTransacts, Step.op = "try", Step.at[1] = side
      PROVE  OwnerAt(chain'[side][a])
  <2>1. Sent(chain, chain', Step, script.book) /\ script.book = file
    BY <1>4, OwnersRun DEF ScriptTransacts
  <2>2. CASE a \in DOMAIN chain[side] /\ chain'[side][a] = chain[side][a]
    BY <1>1, <2>2
  <2>3. CASE Added(chain, chain', Step, file, a)
    BY <1>4, <2>3 DEF Added
  <2>4. CASE Changed(chain, chain', Step, file, a)
    <3> DEFINE c == chain[side][a]  r == chain'[side][a]
    <3>1. /\ IsResult(r, a[1], c, Step.method, ResolveAll(Step.args, file)) /\ a \in DOMAIN chain[side]
          /\ Step.at[2] \in DOMAIN file[side] /\ a = file[side][Step.at[2]] /\ a[1] = Step.at[2]
      BY <1>4, <2>4 DEF Changed
    <3>2. c.inited \in BOOLEAN
      BY <3>1 DEF Inv1, ChainsOK, ChainOK, ContractOK
    <3>3. (a[1] \in Proxies => c.inited) => OwnerAt(c)
      BY <1>1, <3>1
    <3>4. a[1] \in Proxies => r.inited
      OBVIOUS
    <3>5. PICK k \in 1..OwnerCount(side) : script.pc \in {3 * k - 2, 3 * k - 1, 3 * k}
      BY <1>4, OwnersRun
    <3>6. k \in DOMAIN Owners[side]
      BY OwnersAre
    <3>7. script.pc = 3 * k =>
            (Step.at[2] = Owners[side][k] /\ (Has(c, "DEFAULT_ADMIN") /\ (a[1] \in Proxies => c.inited) => Admin(c)))
      <4> SUFFICES ASSUME script.pc = 3 * k
                   PROVE  Step.at[2] = Owners[side][k]
                            /\ (Has(c, "DEFAULT_ADMIN") /\ (a[1] \in Proxies => c.inited) => Admin(c))
        OBVIOUS
      <4>1. Step.at[2] = Owners[side][k]
        BY <1>4, OwnerStepNow, OwnerStepIs
      <4>2. a = file[side][Owners[side][k]] /\ a[1] = Owners[side][k] /\ Owners[side][k] \in DOMAIN file[side]
        BY <3>1, <4>1
      <4>3. Runs(ChangeOf[side])
        BY <1>4, OwnersRun
      <4> QED
        BY <3>6, <4>1, <4>2, <4>3 DEF RevokeOK
    <3> HIDE DEF c, r
    <3>8. Step \in {TransferOf(side, Owners[side][k]), GrantOf(side, Owners[side][k])}
            \/ (script.pc = 3 * k /\ Step = RevokeOf(side, Owners[side][k]))
      <4>1. ChangesOwners(side)
        BY <1>4
      <4>2. /\ script.pc = 3 * k - 2 => Step = TransferOf(side, Owners[side][k])
            /\ script.pc = 3 * k - 1 => Step = GrantOf(side, Owners[side][k])
            /\ script.pc = 3 * k => Step = RevokeOf(side, Owners[side][k])
        BY <4>1, OwnerStepNow
      <4>3. CASE script.pc = 3 * k - 2
        BY <4>2, <4>3, Zenon
      <4>4. CASE script.pc = 3 * k - 1
        BY <4>2, <4>4, Zenon
      <4>5. CASE script.pc = 3 * k
        BY <4>2, <4>5, Zenon
      <4> QED
        BY <3>5, <4>3, <4>4, <4>5, Zenon
    <3>9. CASE Step \in {TransferOf(side, Owners[side][k]), GrantOf(side, Owners[side][k])}
      <4>1. Step.method \in {"transferProxyOwnership", "grantRole"}
        BY <3>9, OwnerStepIs
      <4>2. r.inited = c.inited
        BY <3>1, <3>2, <4>1 DEF IsResult
      <4>3. c.roles \subseteq r.roles
        BY <3>1, <4>1 DEF IsResult
      <4>4. OwnerAt(c)
        BY <3>3, <3>4, <4>2
      <4>5. OwnerAt(r)
        BY <4>3, <4>4 DEF OwnerAt, Has, Admin
      <4> QED
        BY <4>5 DEF r
    <3>10. CASE script.pc = 3 * k /\ Step = RevokeOf(side, Owners[side][k])
      <4>1. Step.method = "revokeRole" /\ ResolveAll(Step.args, file) = <<"DEFAULT_ADMIN", Deployer>>
        <5> DEFINE s == RevokeOf(side, Owners[side][k])
        <5>1. s.method = "revokeRole"
          BY OwnerStepIs
        <5>2. ResolveAll(s.args, file) = <<"DEFAULT_ADMIN", Deployer>>
          BY OwnerArgs
        <5>3. Step = s
          BY <3>10
        <5> HIDE DEF s
        <5> QED
          BY ONLY <5>1, <5>2, <5>3
      <4>2. r.inited = c.inited
        BY <3>1, <3>2, <4>1 DEF IsResult
      <4>3. r.roles = c.roles \ {<<"DEFAULT_ADMIN", Deployer>>}
        BY <3>1, <4>1 DEF IsResult
      <4>4. Admin(c)
        BY <3>3, <3>4, <3>7, <3>10, <4>2 DEF OwnerAt
      <4>5. Admin(r)
        BY <4>3, <4>4, Accounts2 DEF Admin
      <4> QED
        BY <4>5 DEF r, OwnerAt
    <3> QED
      BY <3>8, <3>9, <3>10
  <2> QED
    BY <1>4, <2>1, <2>2, <2>3, <2>4, SentAt
<1> QED
  BY <1>2, <1>3, <1>4, WhoRevokes

FinalAt(side) == IF side = "root" THEN Final - 1 ELSE Final

\* The k-th contract that a change of owners gives away.
Owned(side, k) == file[side][Owners[side][k]]

\* What is given away is in the file.
LEMMA OwnedAreNamed == ASSUME NEW side \in Sides PROVE OwnedNames(side) \subseteq Names(side)
<1>1. "MintableERC721" \in TokenType \ {"Ether"}
  BY Types
<1> QED
  BY <1>1 DEF OwnedNames, Names, RootNames, ChildNames, Sides

\* What is given away is at the file's address and can be called.
LEMMA OwnedIs ==
  ASSUME Inv1, FileReady, HasOwner, NEW side \in Sides, next >= FinalAt(side), NEW k \in 1..OwnerCount(side)
  PROVE  LET a == Owned(side, k)
             c == chain[side][a]
         IN  /\ Owners[side][k] \in DOMAIN file[side] /\ a \in DOMAIN chain[side] /\ a[1] = Owners[side][k]
             /\ a[1] \in Proxies => c.inited /\ c.impl # None
             /\ OwnerAt(c)
<1> DEFINE name == Owners[side][k]
           a == file[side][name]
<1>1. name \in OwnedNames(side) /\ name \in Names(side)
  BY OwnersAre, OwnedAreNamed
<1>2. Complete(file, side)
  <2>1. next \in Nat
    BY DEF Inv1, Control
  <2>2. next > RootFiled /\ next > ChildFiled
    BY <2>1 DEF FinalAt, Final, RootFiled, ChildFiled
  <2> QED
    BY <2>2 DEF FileReady, Sides
<1>3. name \in DOMAIN file[side] /\ (name \in Proxies => chain[side][a].inited)
  BY <1>1, <1>2 DEF Complete
<1>4. a \in DOMAIN chain[side] /\ a[1] = name
  BY <1>3 DEF Inv1, BookOK
<1>5. OwnerAt(chain[side][a])
  BY <1>1, <1>3, <1>4 DEF HasOwner, OwnerAt
<1>6. ContractOK(chain[side], chain[side][a]) /\ None \notin DOMAIN chain[side]
  BY <1>4, ExternalAddresses DEF Inv1, ChainsOK, ChainOK
<1>7. chain[side][a].inited => chain[side][a].impl # None
  BY <1>6 DEF ContractOK
<1> QED
  BY <1>3, <1>4, <1>5, <1>7 DEF Owned

\* What was given away stays so, whichever contract a step is about.
Gives(c, r) ==
  /\ c.proxyOwner # Deployer => r.proxyOwner # Deployer
  /\ Admin(c) => Admin(r)
  /\ ~Has(c, "DEFAULT_ADMIN") => ~Has(r, "DEFAULT_ADMIN")

\* What a step of a change of owners calls, and with what.
LEMMA OwnerCalls ==
  ASSUME NEW side, NEW name, NEW book, NEW step
  PROVE  /\ step = TransferOf(side, name) =>
              step.method = "transferProxyOwnership" /\ ResolveAll(step.args, book) = <<NewOwner>>
         /\ step = GrantOf(side, name) =>
              step.method = "grantRole" /\ ResolveAll(step.args, book) = <<"DEFAULT_ADMIN", NewOwner>>
         /\ step = RevokeOf(side, name) =>
              step.method = "revokeRole" /\ ResolveAll(step.args, book) = <<"DEFAULT_ADMIN", Deployer>>
<1> DEFINE t == TransferOf(side, name)  g == GrantOf(side, name)  r == RevokeOf(side, name)
<1>1. t.method = "transferProxyOwnership" /\ g.method = "grantRole" /\ r.method = "revokeRole"
  BY OwnerStepIs
<1>2. /\ ResolveAll(t.args, book) = <<NewOwner>>
      /\ ResolveAll(g.args, book) = <<"DEFAULT_ADMIN", NewOwner>>
      /\ ResolveAll(r.args, book) = <<"DEFAULT_ADMIN", Deployer>>
  BY OwnerArgs
<1> HIDE DEF t, g, r
<1>3. /\ step = t => step.method = "transferProxyOwnership" /\ ResolveAll(step.args, book) = <<NewOwner>>
      /\ step = g => step.method = "grantRole" /\ ResolveAll(step.args, book) = <<"DEFAULT_ADMIN", NewOwner>>
      /\ step = r => step.method = "revokeRole" /\ ResolveAll(step.args, book) = <<"DEFAULT_ADMIN", Deployer>>
  BY ONLY <1>1, <1>2
<1> QED
  BY <1>3 DEF t, g, r

\* A step of a change of owners takes nothing from the new owner.
LEMMA OwnerStepGives ==
  ASSUME NEW side, NEW name, NEW c, NEW r, NEW book, NEW n, NEW step, GivesAway(step, side, name),
         IsResult(r, n, c, step.method, ResolveAll(step.args, book))
  PROVE  Gives(c, r)
<1>0. NewOwner # Deployer
  BY Accounts2
<1>1. CASE step = TransferOf(side, name)
  <2>1. step.method = "transferProxyOwnership" /\ ResolveAll(step.args, book) = <<NewOwner>>
    BY <1>1, OwnerCalls
  <2>2. r.proxyOwner = NewOwner /\ r.roles = c.roles
    BY <2>1 DEF IsResult
  <2> QED
    BY <1>0, <2>2 DEF Gives, Admin, Has
<1>2. CASE step = GrantOf(side, name)
  <2>1. step.method = "grantRole" /\ ResolveAll(step.args, book) = <<"DEFAULT_ADMIN", NewOwner>>
    BY <1>2, OwnerCalls
  <2>2. r.proxyOwner = c.proxyOwner /\ r.roles = c.roles \cup {<<"DEFAULT_ADMIN", NewOwner>>}
    BY <2>1 DEF IsResult
  <2> QED
    BY <1>0, <2>2 DEF Gives, Admin, Has
<1>3. CASE step = RevokeOf(side, name)
  <2>1. step.method = "revokeRole" /\ ResolveAll(step.args, book) = <<"DEFAULT_ADMIN", Deployer>>
    BY <1>3, OwnerCalls
  <2>2. r.proxyOwner = c.proxyOwner /\ r.roles = c.roles \ {<<"DEFAULT_ADMIN", Deployer>>}
    BY <2>1 DEF IsResult
  <2> QED
    BY <1>0, <2>2 DEF Gives, Admin, Has
<1> QED
  BY <1>1, <1>2, <1>3 DEF GivesAway

\* The step of a change of owners that runs.
LEMMA OwnersStepIs ==
  ASSUME Inv1, NEW side \in Sides, ChangesOwners(side)
  PROVE  \E k \in 1..OwnerCount(side) :
           /\ script.pc \in {3 * k - 2, 3 * k - 1, 3 * k}
           /\ GivesAway(Step, side, Owners[side][k])
<1>1. PICK k \in 1..OwnerCount(side) : script.pc \in {3 * k - 2, 3 * k - 1, 3 * k}
  BY OwnersRun
<1>2. /\ script.pc = 3 * k - 2 => Step = TransferOf(side, Owners[side][k])
      /\ script.pc = 3 * k - 1 => Step = GrantOf(side, Owners[side][k])
      /\ script.pc = 3 * k => Step = RevokeOf(side, Owners[side][k])
  BY OwnerStepNow
<1>3. GivesAway(Step, side, Owners[side][k])
  BY <1>1, <1>2 DEF GivesAway
<1> QED
  BY <1>1, <1>3

\* A step of a change of owners takes nothing from the new owner, on any contract.
LEMMA OwnersGive ==
  ASSUME Inv1, [Next]_vars, NEW side \in Sides, ChangesOwners(side), NEW a \in DOMAIN chain[side]
  PROVE  a \in DOMAIN chain'[side] /\ Gives(chain[side][a], chain'[side][a])
<1>1. CASE chain'[side] = chain[side]
  BY <1>1 DEF Gives
<1>2. CASE chain'[side] # chain[side]
  <2>1. ScriptTransacts /\ Step.op = "try" /\ Step.at[1] = side
    BY <1>2, WhoRevokes
  <2>2. Sent(chain, chain', Step, script.book)
    BY <2>1 DEF ScriptTransacts
  <2>3. a \in DOMAIN chain'[side] /\ (chain'[side][a] = chain[side][a] \/ Changed(chain, chain', Step, script.book, a))
    BY <2>2, SentAt
  <2>4. CASE Changed(chain, chain', Step, script.book, a)
    <3>1. PICK k \in 1..OwnerCount(side) : GivesAway(Step, side, Owners[side][k])
      BY OwnersStepIs
    <3>2. IsResult(chain'[side][a], a[1], chain[side][a], Step.method, ResolveAll(Step.args, script.book))
      BY <2>1, <2>4 DEF Changed
    <3> QED
      BY <2>3, <3>1, <3>2, OwnerStepGives
  <2> QED
    BY <2>3, <2>4 DEF Gives
<1> QED
  BY <1>1, <1>2

\* A step of the change of owners that is tried has its effect, whether the call is
\* made or refused.
LEMMA TryTakes ==
  ASSUME Inv1, FileReady, HasOwner, NEW side \in Sides, ChangesOwners(side), TryCall,
         NEW k \in 1..OwnerCount(side)
  PROVE  LET r == chain'[side][Owned(side, k)]
         IN  /\ script.pc = 3 * k - 2 => r.proxyOwner # Deployer
             /\ script.pc = 3 * k - 1 => Admin(r)
             /\ script.pc = 3 * k => ~Has(r, "DEFAULT_ADMIN")
<1> DEFINE a == Owned(side, k)
           c == chain[side][a]
           r == chain'[side][a]
           name == Owners[side][k]
           args == ResolveAll(Step.args, file)
<1>1. /\ script # NoScript /\ Step.op = "try"
      /\ \/ Sent(chain, chain', Step, script.book) /\ Succeeds(Step, script.book)
         \/ chain' = chain /\ ~Succeeds(Step, script.book)
  BY TryCallInv1
<1>2. /\ script.book = file /\ next >= FinalAt(side)
      /\ script.pc = 3 * k - 2 => Step = TransferOf(side, name)
      /\ script.pc = 3 * k - 1 => Step = GrantOf(side, name)
      /\ script.pc = 3 * k => Step = RevokeOf(side, name)
  <2>1. script.book = file /\ next = FinalAt(side) /\ next \in Nat
    BY OwnersRun DEF FinalAt, Inv1, Control
  <2> QED
    BY <2>1, OwnerStepNow
<1>3. /\ name \in DOMAIN file[side] /\ a \in DOMAIN chain[side] /\ a[1] = name
      /\ a[1] \in Proxies => c.inited /\ c.impl # None
      /\ OwnerAt(c)
  BY <1>2, OwnedIs
<1>4. a = file[side][name]
  BY DEF Owned
<1>5. /\ Step = TransferOf(side, name) => Step.method = "transferProxyOwnership" /\ args = <<NewOwner>>
      /\ Step = GrantOf(side, name) => Step.method = "grantRole" /\ args = <<"DEFAULT_ADMIN", NewOwner>>
      /\ Step = RevokeOf(side, name) => Step.method = "revokeRole" /\ args = <<"DEFAULT_ADMIN", Deployer>>
  BY OwnerCalls
<1>6. GivesAway(Step, side, name) =>
        Step.at = <<side, name>> /\ \A i \in DOMAIN Step.args : Known(Step.args[i], file)
  <2>1. /\ TransferOf(side, name).at = <<side, name>> /\ GrantOf(side, name).at = <<side, name>>
        /\ RevokeOf(side, name).at = <<side, name>>
    BY OwnerStepIs
  <2>2. \A s : GivesAway(s, side, name) => \A i \in DOMAIN s.args : Known(s.args[i], file)
    BY OwnerArgs
  <2>3. GivesAway(Step, side, name) => Step.at = <<side, name>>
    BY <2>1 DEF GivesAway
  <2> QED
    BY <2>2, <2>3
<1>7. SUFFICES ASSUME GivesAway(Step, side, name)
               PROVE  /\ Step = TransferOf(side, name) => r.proxyOwner # Deployer
                      /\ Step = GrantOf(side, name) => Admin(r)
                      /\ Step = RevokeOf(side, name) => ~Has(r, "DEFAULT_ADMIN")
  BY <1>2 DEF GivesAway
<1>8. /\ Step.at = <<side, name>> /\ (\A i \in DOMAIN Step.args : Known(Step.args[i], file))
      /\ Step.at[1] = side /\ Step.at[2] = name
  BY <1>6, <1>7
<1>9. Resolve(Step.at, file) = a /\ Known(Step.at, file)
  BY <1>3, <1>4, <1>8 DEF Resolve, Known, Lookup, Sides
<1>10. Reaches(chain[side], a, Step.method)
  BY <1>3 DEF Reaches, Forwards
<1>11. /\ Step = TransferOf(side, name) => (Passes(c, Step.method, args) <=> c.proxyOwner = Deployer)
       /\ Step \in {GrantOf(side, name), RevokeOf(side, name)} =>
            (Passes(c, Step.method, args) <=> Has(c, "DEFAULT_ADMIN"))
  <2> HIDE DEF c, args, name
  <2> QED
    BY <1>5 DEF Passes
<1>12. CASE chain' = chain /\ ~Succeeds(Step, script.book)
  <2>1. ~CallPasses(chain[side], a, Step.method, args)
    BY <1>1, <1>2, <1>8, <1>9, <1>12 DEF Succeeds
  <2>2. ~Passes(c, Step.method, args) /\ r = c
    BY <1>10, <1>12, <2>1 DEF CallPasses
  <2> HIDE DEF a, c, r, args, name
  <2> QED
    BY <1>3, <1>11, <2>2 DEF OwnerAt
<1>13. CASE Sent(chain, chain', Step, script.book)
  <2>1. Calls(chain[side], chain'[side], a, Step.method, args)
    BY <1>1, <1>2, <1>8, <1>9, <1>13 DEF Sent
  <2>2. IsResult(r, a[1], c, Step.method, args)
    BY <1>3, <1>10, <2>1 DEF Calls
  <2>3. NewOwner # Deployer
    BY Accounts2
  <2> HIDE DEF a, c, r, args, name
  <2>4. Step = TransferOf(side, name) => r.proxyOwner = NewOwner
    BY <1>5, <2>2 DEF IsResult
  <2>5. Step = GrantOf(side, name) => r.roles = c.roles \cup {<<"DEFAULT_ADMIN", NewOwner>>}
    BY <1>5, <2>2 DEF IsResult
  <2>6. Step = RevokeOf(side, name) => r.roles = c.roles \ {<<"DEFAULT_ADMIN", Deployer>>}
    BY <1>5, <2>2 DEF IsResult
  <2> QED
    BY <2>3, <2>4, <2>5, <2>6 DEF Admin, Has
<1> QED
  BY <1>1, <1>12, <1>13

\* How a change of owners goes on.
LEMMA OwnersGo ==
  ASSUME Inv1, [Next]_vars, NEW side \in Sides, ChangesOwners(side)'
  PROVE  /\ file' = file
         /\ \/ script'.pc = 1
            \/ script' = script /\ ChangesOwners(side)
            \/ /\ ChangesOwners(side) /\ TryCall
               /\ script'.pc = script.pc + 1 /\ script'.errors = script.errors
            \/ /\ ChangesOwners(side) /\ TryFails
               /\ script'.pc = script.pc + 1 + Step.more /\ script'.errors = TRUE
<1>0. script' # NoScript /\ script'.name = ChangeOf[side]
  BY DEF ChangesOwners, NoScript
<1>1. CASE StartScript
  <2>1. file' = file
    BY <1>1 DEF StartScript
  <2>2. script' = [name |-> Current, pc |-> 1, errors |-> FALSE,
                   book |-> IF Current \in Readers THEN file ELSE NoAddresses]
    BY <1>1 DEF StartScript
  <2> QED
    BY <2>1, <2>2
<1>2. CASE ~StartScript /\ script' # script
  <2>1. script # NoScript /\ script'.name = script.name
    BY <1>0, <1>2, ScriptGoes
  <2>2. ChangesOwners(side) /\ KindOK(script.name, script.pc, Step)
        /\ script.pc \in Nat /\ script.errors \in BOOLEAN /\ script.pc + 1 \in Nat
    BY <1>0, <2>1, RunningIs DEF ChangesOwners
  <2>3. Step.op = "try" /\ Step.more \in {0, 1}
    <3>1. script.name \in {"changeRootOwners", "changeChildOwners"}
      BY <2>2, OwnersAre DEF ChangesOwners
    <3> QED
      BY <2>2, <3>1 DEF KindOK
  <2>4. TryCall \/ TryFails
    <3>1. /\ ~DeployContract /\ ~CallContract /\ ~CallReverts /\ ~WriteFile /\ ~ExtractFile /\ ~QueueTask
      BY <2>3 DEF DeployContract, CallContract, CallReverts, WriteFile, ExtractFile, QueueTask, Running, Step
    <3>2. ~InterruptScript /\ ~Restart
      BY <1>0, <1>2 DEF InterruptScript, Restart
    <3>3. /\ ~StartWorker /\ ~SendTask /\ ~SaveStatus /\ ~AckTask /\ ~InterruptWorker
          /\ ~QueueProcessed /\ ~UNCHANGED vars
      BY <1>2 DEF StartWorker, SendTask, SaveStatus, AckTask, InterruptWorker, QueueProcessed, vars
    <3> QED
      BY <1>2, <3>1, <3>2, <3>3 DEF Next
  <2>5. CASE TryCall
    <3>1. file' = file /\ GoTo(script.pc + 1, script.book, script.errors)
      BY <2>5 DEF TryCall, Advance
    <3>2. ScriptMoves(script.pc + 1, script.book, script.errors)
      BY <2>1, <2>2, <3>1, Moves
    <3> QED
      BY <1>0, <2>2, <2>5, <3>1, <3>2 DEF ScriptMoves
  <2>6. CASE TryFails
    <3>1. file' = file /\ GoTo(script.pc + 1 + Step.more, script.book, TRUE)
      BY <2>6 DEF TryFails
    <3>2. script.pc + 1 + Step.more \in Nat /\ TRUE \in BOOLEAN
      BY <2>2, <2>3
    <3>3. ScriptMoves(script.pc + 1 + Step.more, script.book, TRUE)
      BY <2>1, <3>1, <3>2, Moves
    <3> QED
      BY <1>0, <2>2, <2>6, <3>1, <3>3 DEF ScriptMoves
  <2> QED
    BY <2>4, <2>5, <2>6
<1>3. CASE script' = script
  <2>1. ChangesOwners(side)
    BY <1>0, <1>3 DEF ChangesOwners
  <2>2. ~WriteFile /\ ~ExtractFile
    <3>1. KindOK(script.name, script.pc, Step)
      BY <1>0, <1>3, RunningIs
    <3>2. Step.op \notin {"write", "extract"}
      BY <2>1, <3>1, OwnersAre DEF KindOK, ChangesOwners
    <3> QED
      BY <3>2 DEF WriteFile, ExtractFile, Running, Step
  <2> QED
    BY <1>3, <2>1, <2>2, FileGoes
<1> QED
  BY <1>1, <1>2, <1>3

\* After its change of owners a chain's contracts stay as they are.
LEMMA LateStays ==
  ASSUME Inv1, [Next]_vars, NEW side \in Sides, next > FinalAt(side)
  PROVE  chain'[side] = chain[side] /\ file' = file
<1>0. next \in Nat /\ Final \in {6, 9} /\ next > Final - 1 /\ (side = "child" => next > Final) /\ (Moonwalker => Final = 9)
  BY DEF Inv1, Control, Final, FinalAt, Sides, Moonwalker, Truffle
<1>1. ASSUME script # NoScript PROVE side = "root" /\ Step.op = "try" /\ Step.at[1] = "child"
  <2>1. /\ script.name = Current /\ next \in 1..Final /\ KindOK(script.name, script.pc, Step)
        /\ script.name \in ScriptNames
    BY <1>1, RunningIs
  <2>2. next <= Final /\ next = Final /\ side = "root"
    BY <1>0, <2>1 DEF Sides
  <2>3. script.name = "changeChildOwners"
    <3>1. CASE Truffle
      BY <2>1, <2>2, <3>1, RunbookIs DEF Current, Truffle, Final
    <3>2. CASE Moonwalker
      BY <1>0, <2>1, <2>2, <3>2, RunbookIs DEF Current, Moonwalker
    <3> QED
      BY <3>1, <3>2 DEF Inv1, Control, Truffle, Moonwalker
  <2> QED
    BY <2>1, <2>2, <2>3 DEF KindOK
<1>2. file' = file
  <2>1. ~WriteFile /\ ~ExtractFile
    BY <1>1 DEF WriteFile, ExtractFile, Running, Step
  <2> QED
    BY <2>1, FileGoes
<1>3. CASE ScriptTransacts
  <2>1. Sent(chain, chain', Step, script.book) /\ side # Step.at[1]
    BY <1>1, <1>3 DEF ScriptTransacts
  <2> QED
    BY <1>2, <2>1 DEF Sent
<1>4. CASE WorkerTransacts
  <2>1. Moonwalker /\ next \in {1, 2, 5, 6}
    BY <1>4 DEF WorkerTransacts, TaskOK
  <2> QED
    BY <1>0, <2>1
<1> QED
  BY <1>2, <1>3, <1>4, ChainGoes DEF ChainMoves

\* Every step keeps this: the deployer's role is revoked only after it was given.
LEMMA RevokeOKNext ==
  ASSUME Inv1, FileReady, HasOwner, RevokeOK, [Next]_vars PROVE RevokeOK'
<1> SUFFICES ASSUME NEW side \in Sides, Runs(ChangeOf[side])', NEW k \in DOMAIN Owners[side], script'.pc = 3 * k,
                    Has(chain'[side][file'[side][Owners[side][k]]], "DEFAULT_ADMIN")
             PROVE  Admin(chain'[side][file'[side][Owners[side][k]]])
  BY DEF RevokeOK, Has, Admin
<1>1. k \in 1..OwnerCount(side) /\ k \in Nat /\ k >= 1
  BY OwnersAre
<1>2. ChangesOwners(side)'
  BY DEF Runs, ChangesOwners
<1>3. /\ file' = file
      /\ \/ script'.pc = 1
         \/ script' = script /\ ChangesOwners(side)
         \/ ChangesOwners(side) /\ TryCall /\ script'.pc = script.pc + 1
         \/ ChangesOwners(side) /\ TryFails /\ script'.pc = script.pc + 1 + Step.more
  BY <1>2, OwnersGo
<1>4. script'.pc # 1
  BY <1>1
<1>5. ASSUME ChangesOwners(side)
      PROVE  /\ Owned(side, k) \in DOMAIN chain[side]
             /\ Owners[side][k] \in DOMAIN file[side]
             /\ Owners[side][k] \in Proxies => chain[side][Owned(side, k)].inited
             /\ OwnerAt(chain[side][Owned(side, k)])
             /\ Gives(chain[side][Owned(side, k)], chain'[side][Owned(side, k)])
             /\ script.pc \in Nat
  <2>1. next >= FinalAt(side) /\ script.pc \in Nat
    BY <1>5, OwnersRun DEF FinalAt, Inv1, Control
  <2> QED
    BY <1>1, <1>5, <2>1, OwnedIs, OwnersGive
<1>6. CASE script' = script /\ ChangesOwners(side)
  <2>1. Has(chain[side][Owned(side, k)], "DEFAULT_ADMIN")
    BY <1>3, <1>5, <1>6 DEF Gives, Owned
  <2>2. Admin(chain[side][Owned(side, k)])
    BY <1>5, <1>6, <2>1 DEF RevokeOK, Owned, Runs, ChangesOwners
  <2> QED
    BY <1>3, <1>5, <1>6, <2>2 DEF Gives, Owned
<1>7. CASE ChangesOwners(side) /\ TryCall /\ script'.pc = script.pc + 1
  <2>1. script.pc \in Nat /\ script.pc + 1 = 3 * k
    BY <1>5, <1>7
  <2>2. script.pc = 3 * k - 1
    BY ONLY <1>1, <2>1
  <2>3. Admin(chain'[side][Owned(side, k)])
    BY <1>1, <1>7, <2>2, TryTakes
  <2> QED
    BY <1>3, <2>3 DEF Owned
<1>8. CASE ChangesOwners(side) /\ TryFails /\ script'.pc = script.pc + 1 + Step.more
  <2>1. PICK j \in 1..OwnerCount(side) : script.pc \in {3 * j - 2, 3 * j - 1, 3 * j}
    BY <1>8, OwnersRun
  <2>2. /\ script.pc = 3 * j - 2 => Step = TransferOf(side, Owners[side][j])
        /\ script.pc = 3 * j - 1 => Step = GrantOf(side, Owners[side][j])
        /\ script.pc = 3 * j => Step = RevokeOf(side, Owners[side][j])
    BY <1>8, OwnerStepNow
  <2>3. /\ TransferOf(side, Owners[side][j]).more = 0 /\ GrantOf(side, Owners[side][j]).more = 1
        /\ RevokeOf(side, Owners[side][j]).more = 0
    BY OwnerStepIs
  <2>4. script.pc + 1 + Step.more \in {3 * j - 1, 3 * j + 1}
    <3>1. j \in Nat
      BY OwnersAre
    <3>2. CASE script.pc = 3 * j - 2
      <4>1. Step.more = 0
        BY <2>2, <2>3, <3>2
      <4> QED
        BY ONLY <3>1, <3>2, <4>1
    <3>3. CASE script.pc = 3 * j - 1
      <4>1. Step.more = 1
        BY <2>2, <2>3, <3>3
      <4> QED
        BY ONLY <3>1, <3>3, <4>1
    <3>4. CASE script.pc = 3 * j
      <4>1. Step.more = 0
        BY <2>2, <2>3, <3>4
      <4> QED
        BY ONLY <3>1, <3>4, <4>1
    <3> QED
      BY <2>1, <3>2, <3>3, <3>4
  <2>5. 3 * k \in {3 * j - 1, 3 * j + 1}
    BY <1>8, <2>4
  <2>6. j \in Nat
    BY OwnersAre
  <2> QED
    BY ONLY <1>1, <2>5, <2>6
<1> QED
  BY <1>3, <1>4, <1>6, <1>7, <1>8

\* How far a contract was given away before the step pc, k being its place.
GivenUpTo(c, pc, k) ==
  /\ pc > 3 * k - 2 => c.proxyOwner # Deployer
  /\ pc > 3 * k - 1 => Admin(c)
  /\ pc > 3 * k => ~Has(c, "DEFAULT_ADMIN")

\* Handed, contract by contract.
LEMMA HandedIs ==
  Handed <=> \A side \in Sides :
    /\ ChangesOwners(side) /\ ~script.errors =>
         \A k \in DOMAIN Owners[side] : GivenUpTo(chain[side][Owned(side, k)], script.pc, k)
    /\ next > FinalAt(side) => \A k \in DOMAIN Owners[side] : GivenTo(chain[side][Owned(side, k)])
BY DEF Handed, ChangesOwners, Runs, GivenUpTo, FinalAt, Owned

\* The step that is tried adds its effect.
LEMMA TryGives ==
  ASSUME Inv1, FileReady, HasOwner, Handed, [Next]_vars, NEW side \in Sides, ChangesOwners(side), TryCall,
         ~script.errors, NEW k \in 1..OwnerCount(side)
  PROVE  GivenUpTo(chain'[side][Owned(side, k)], script.pc + 1, k)
<1> DEFINE c == chain[side][Owned(side, k)]
           r == chain'[side][Owned(side, k)]
<1>1. script.pc \in Nat /\ k \in Nat /\ k \in DOMAIN Owners[side] /\ next >= FinalAt(side)
  BY OwnersRun, OwnersAre DEF FinalAt, Inv1, Control
<1>2. GivenUpTo(c, script.pc, k)
  BY <1>1, HandedIs
<1>3. Owned(side, k) \in DOMAIN chain[side]
  BY <1>1, OwnedIs
<1>4. Gives(c, r)
  BY <1>3, OwnersGive
<1>5. /\ script.pc = 3 * k - 2 => r.proxyOwner # Deployer
      /\ script.pc = 3 * k - 1 => Admin(r)
      /\ script.pc = 3 * k => ~Has(r, "DEFAULT_ADMIN")
  BY TryTakes
<1>6. /\ script.pc + 1 > 3 * k - 2 => script.pc > 3 * k - 2 \/ script.pc = 3 * k - 2
      /\ script.pc + 1 > 3 * k - 1 => script.pc > 3 * k - 1 \/ script.pc = 3 * k - 1
      /\ script.pc + 1 > 3 * k => script.pc > 3 * k \/ script.pc = 3 * k
  BY ONLY <1>1
<1> HIDE DEF c, r
<1>7. script.pc + 1 > 3 * k - 2 => r.proxyOwner # Deployer
  <2>1. script.pc > 3 * k - 2 => c.proxyOwner # Deployer
    BY <1>2 DEF GivenUpTo
  <2>2. c.proxyOwner # Deployer => r.proxyOwner # Deployer
    BY <1>4 DEF Gives
  <2> QED
    BY ONLY <1>5, <1>6, <2>1, <2>2
<1>8. script.pc + 1 > 3 * k - 1 => Admin(r)
  <2>1. script.pc > 3 * k - 1 => Admin(c)
    BY <1>2 DEF GivenUpTo
  <2>2. Admin(c) => Admin(r)
    BY <1>4 DEF Gives
  <2> QED
    BY ONLY <1>5, <1>6, <2>1, <2>2
<1>9. script.pc + 1 > 3 * k => ~Has(r, "DEFAULT_ADMIN")
  <2>1. script.pc > 3 * k => ~Has(c, "DEFAULT_ADMIN")
    BY <1>2 DEF GivenUpTo
  <2>2. ~Has(c, "DEFAULT_ADMIN") => ~Has(r, "DEFAULT_ADMIN")
    BY <1>4 DEF Gives
  <2> QED
    BY ONLY <1>5, <1>6, <2>1, <2>2
<1> QED
  BY <1>7, <1>8, <1>9 DEF GivenUpTo, r

\* Every step keeps given away what was given away.
LEMMA HandedNext ==
  ASSUME Inv1, FileReady, HasOwner, Handed, [Next]_vars PROVE Handed'
<1>1. ASSUME NEW side \in Sides, ChangesOwners(side)', ~script'.errors, NEW k \in DOMAIN Owners[side]
      PROVE  GivenUpTo(chain[side][Owned(side, k)], script.pc, k)'
  <2>1. k \in 1..OwnerCount(side) /\ k \in Nat /\ k >= 1
    BY OwnersAre
  <2>2. /\ file' = file
        /\ \/ script'.pc = 1
           \/ script' = script /\ ChangesOwners(side)
           \/ /\ ChangesOwners(side) /\ TryCall
              /\ script'.pc = script.pc + 1 /\ script'.errors = script.errors
    BY <1>1, OwnersGo
  <2>3. Owned(side, k)' = Owned(side, k)
    BY <2>2 DEF Owned
  <2>4. CASE script'.pc = 1
    <3>1. ~(script'.pc > 3 * k - 2) /\ ~(script'.pc > 3 * k - 1) /\ ~(script'.pc > 3 * k)
      BY ONLY <2>1, <2>4
    <3> QED
      BY <3>1 DEF GivenUpTo
  <2>5. CASE script' = script /\ ChangesOwners(side)
    <3>1. GivenUpTo(chain[side][Owned(side, k)], script.pc, k)
      BY <1>1, <2>5, HandedIs
    <3>2. next >= FinalAt(side)
      BY <2>5, OwnersRun DEF FinalAt, Inv1, Control
    <3>3. Gives(chain[side][Owned(side, k)], chain'[side][Owned(side, k)])
      BY <2>1, <2>5, <3>2, OwnedIs, OwnersGive
    <3>4. GivenUpTo(chain'[side][Owned(side, k)], script'.pc, k)
      BY <2>5, <3>1, <3>3 DEF GivenUpTo, Gives
    <3> QED
      BY <2>3, <3>4
  <2>6. CASE ChangesOwners(side) /\ TryCall /\ script'.pc = script.pc + 1 /\ script'.errors = script.errors
    <3>1. GivenUpTo(chain'[side][Owned(side, k)], script.pc + 1, k)
      BY <1>1, <2>1, <2>6, TryGives
    <3> QED
      BY <2>3, <2>6, <3>1
  <2> QED
    BY <2>2, <2>4, <2>5, <2>6
<1>2. ASSUME NEW side \in Sides, next' > FinalAt(side)', NEW k \in DOMAIN Owners[side]
      PROVE  GivenTo(chain[side][Owned(side, k)])'
  <2>1. k \in 1..OwnerCount(side) /\ k \in Nat /\ k >= 1 /\ OwnerCount(side) \in Nat
    BY OwnersAre
  <2>2. FinalAt(side)' = FinalAt(side) /\ FinalAt(side) \in {5, 6, 8, 9} /\ next \in Nat
    BY ChainGoes DEF FinalAt, Final, Truffle, Inv1, Control
  <2>3. CASE next > FinalAt(side)
    <3>1. chain'[side] = chain[side] /\ file' = file
      BY <2>3, LateStays
    <3>2. GivenTo(chain[side][Owned(side, k)])
      BY <2>3, HandedIs
    <3> QED
      BY <3>1, <3>2 DEF Owned
  <2>4. CASE ~(next > FinalAt(side))
    <3>1. next' # next /\ next' # 1
      BY <1>2, <2>2, <2>4
    <3>2. ~QueueProcessed
      <4> SUFFICES ASSUME QueueProcessed PROVE FALSE
        OBVIOUS
      <4>1. next' = next + 1
        BY DEF QueueProcessed
      <4>2. next = FinalAt(side)
        <5>1. next' > FinalAt(side)
          BY <1>2, <2>2
        <5> QED
          BY ONLY <2>2, <2>4, <4>1, <5>1
      <4>3. Moonwalker /\ next \in {2, 6} /\ next <= Final
        <5>1. next <= Final
          BY <4>2 DEF FinalAt, Final
        <5> QED
          BY <5>1, CurrentIs DEF QueueProcessed, Inv1
      <4> QED
        BY <4>2, <4>3 DEF FinalAt, Final, Moonwalker, Truffle
    <3>3. ScriptEnds
      BY <3>1, <3>2, NextGoes DEF NextMoves
    <3>4. next = FinalAt(side)
      <4>1. next' = next + 1 /\ next' > FinalAt(side)
        BY <1>2, <2>2, <3>3 DEF ScriptEnds
      <4> QED
        BY ONLY <2>2, <2>4, <4>1
    <3>5. script # NoScript /\ script.name = Current
      BY <3>3, RunningIs DEF ScriptEnds
    <3>6. ChangesOwners(side)
      <4>1. CASE Truffle
        BY <3>4, <3>5, <4>1, RunbookIs, OwnersAre DEF Current, Truffle, FinalAt, Final, ChangesOwners, Sides
      <4>2. CASE Moonwalker
        <5>1. Final = 9
          BY <4>2 DEF Moonwalker, Truffle, Final
        <5> QED
          BY <3>4, <3>5, <4>2, <5>1, RunbookIs, OwnersAre DEF Current, Moonwalker, FinalAt, ChangesOwners, Sides
      <4> QED
        BY <4>1, <4>2 DEF Inv1, Control, Truffle, Moonwalker
    <3>7. Step.op = "try"
      <4>1. KindOK(script.name, script.pc, Step)
        BY <3>5, RunningIs
      <4> QED
        BY <3>6, <4>1, OwnersAre DEF KindOK, ChangesOwners
    <3>8. TryCall /\ ~script.errors /\ script.pc = Length(script.name)
      BY <3>3, <3>7, EndsWith
    <3>9. script.pc = 3 * OwnerCount(side)
      BY <3>6, <3>8, OwnersAre DEF ChangesOwners
    <3>10. GivenUpTo(chain'[side][Owned(side, k)], script.pc + 1, k)
      BY <2>1, <3>6, <3>8, TryGives
    <3>11. script.pc + 1 > 3 * k - 2 /\ script.pc + 1 > 3 * k - 1 /\ script.pc + 1 > 3 * k
      BY ONLY <2>1, <3>9
    <3>12. GivenTo(chain'[side][Owned(side, k)])
      BY <3>10, <3>11 DEF GivenUpTo, GivenTo
    <3>13. file' = file
      BY <3>8 DEF TryCall
    <3> QED
      BY <3>12, <3>13 DEF Owned
  <2> QED
    BY <2>3, <2>4
<1>3. Handed' <=> \A side \in Sides :
    /\ ChangesOwners(side)' /\ ~script'.errors =>
         \A k \in DOMAIN Owners[side] : GivenUpTo(chain[side][Owned(side, k)], script.pc, k)'
    /\ next' > FinalAt(side)' => \A k \in DOMAIN Owners[side] : GivenTo(chain[side][Owned(side, k)])'
  BY DEF Handed, ChangesOwners, Runs, GivenUpTo, FinalAt, Owned
<1> QED
  BY <1>1, <1>2, <1>3

\* The third invariant holds at the start.
LEMMA InitInv3 == Init => Inv3
<1> SUFFICES ASSUME Init PROVE Inv3
  OBVIOUS
<1>1. /\ script = NoScript /\ next = 1 /\ chain = [root |-> << >>, child |-> << >>] /\ NoScript.name = "none"
  BY DEF Init, NoScript
<1>2. \A side \in Sides : DOMAIN chain[side] = {}
  BY <1>1 DEF Sides
<1>3. HasOwner
  BY <1>2 DEF HasOwner
<1>4. RevokeOK /\ Handed
  <2>1. \A side \in Sides : ~Runs(ChangeOf[side]) /\ ~(next > FinalAt(side))
    BY <1>1 DEF Runs, FinalAt, Final
  <2> QED
    BY <2>1 DEF RevokeOK, Handed, FinalAt
<1> QED
  BY <1>3, <1>4 DEF Inv3

\* Every step keeps the third invariant.
LEMMA NextInv3 == Inv1 /\ Inv2 /\ Inv3 /\ [Next]_vars => Inv3'
BY HasOwnerNext, RevokeOKNext, HandedNext DEF Inv2, Inv3

\* The third invariant: contracts have owners, and are handed over in order.
LEMMA Inv3Holds == Spec => []Inv3
<1> QED
  BY InitInv3, NextInv3, Inv1Holds, Inv2Holds, PTL DEF Spec

\* The contracts that the scripts list.
LEMMA OwnedAreListed ==
  ASSUME NEW side \in Sides
  PROVE  /\ Range(Owners[side]) \subseteq OwnedNames(side)
         /\ \A name \in Range(Owners[side]) : \E k \in DOMAIN Owners[side] : Owners[side][k] = name
<1>1. \A name \in Range(Owners[side]) : \E k \in DOMAIN Owners[side] : Owners[side][k] = name
  BY DEF Range
<1> QED
  BY <1>1, OwnersAre

\* The invariants imply that no contract is orphaned.
LEMMA OrphansNone == ASSUME Inv1, Inv3 PROVE NoneOrphaned
<1> DEFINE Listed2 == [root |-> Range(OwnedRoot), child |-> Range(OwnedChild)]
<1>1. DOMAIN Listed2 = Sides /\ \A side \in Sides : Listed2[side] = Range(Owners[side])
  BY DEF Sides, Owners
<1> HIDE DEF Listed2
<1>2. ASSUME NEW side \in Sides, NEW a \in DOMAIN chain[side],
             a[1] \in Listed2[side], a[1] \in Proxies => chain[side][a].inited
      PROVE  Has(chain[side][a], "DEFAULT_ADMIN") \/ <<"DEFAULT_ADMIN", NewOwner>> \in chain[side][a].roles
  <2>1. a[1] \in OwnedNames(side)
    BY <1>1, <1>2, OwnedAreListed
  <2> QED
    BY <1>2, <2>1 DEF Inv3, HasOwner, Admin
<1>3. ASSUME Done, NEW side \in Sides, NEW name \in Listed2[side]
      PROVE  GivenTo(chain[side][file[side][name]])
  <2>1. PICK k \in DOMAIN Owners[side] : Owners[side][k] = name
    BY <1>1, OwnedAreListed
  <2>2. next > FinalAt(side)
    <3>1. next > Final /\ next \in Nat /\ Final \in Nat
      BY <1>3, CurrentIs DEF Inv1, Control, Final
    <3> QED
      BY <3>1 DEF FinalAt
  <2> QED
    BY <2>1, <2>2, HandedIs DEF Inv3, Owned
<1> QED
  BY <1>1, <1>2, <1>3 DEF NoneOrphaned, GivenTo, Admin, Listed2

\* The contracts never lose their admin, whatever is interrupted, fails or is run
\* again while the owners change; when the scripts are done, all that they list is
\* the new owner's, proxies and roles.
THEOREM OrphansNever == Spec => []NoneOrphaned
<1> QED
  BY OrphansNone, Inv1Holds, Inv3Holds, PTL
===============================================================================
