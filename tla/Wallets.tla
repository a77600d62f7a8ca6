------------------------------- MODULE Wallets -------------------------------
(***************************************************************************)
(* What a bridge for fungible tokens promises, told without locks, logs,   *)
(* syncs or proofs: everybody has a wallet on each chain and on each way   *)
(* between them.  Money goes from wallet to wallet, because its owner      *)
(* sends it or because it arrives, and only the root token makes new money.*)
(***************************************************************************)
EXTENDS Naturals

CONSTANTS
  Id,
  User,
  Amounts     \* what can be moved at once: functions from Id to numbers

VARIABLES
  wallet,     \* wallet[<<where, u>>][id], where as the places of TokenCustody
  supply      \* supply[id]: all that was ever minted

Wallet == {"root", "child", "toChild", "toRoot"} \X User

Plus(x, y)  == [id \in Id |-> x[id] + y[id]]
Minus(x, y) == [id \in Id |-> x[id] - y[id]]

Pays(from, to, x) ==
  /\ \A id \in Id : wallet[from][id] >= x[id]
  /\ from # to
  /\ UNCHANGED supply
  /\ wallet' = [wallet EXCEPT ![from] = Minus(@, x), ![to] = Plus(@, x)]

\* The token contract gives new money to somebody on the root chain.
Mint(u, x) ==
  /\ supply' = Plus(supply, x)
  /\ wallet' = [wallet EXCEPT ![<<"root", u>>] = Plus(@, x)]

\* A holder pays another one on the same chain.
Give(where, u, v, x) == Pays(<<where, u>>, <<where, v>>, x)

\* A holder sends money to the other chain, to an account of its choice when it
\* deposits and to itself when it withdraws.
Deposit(u, v, x) == Pays(<<"root", u>>, <<"toChild", v>>, x)
Withdraw(u, x)   == Pays(<<"child", u>>, <<"toRoot", u>>, x)

\* It arrives, with whom it was sent to.
Arrive(u, x) ==
  \/ Pays(<<"toChild", u>>, <<"child", u>>, x)
  \/ Pays(<<"toRoot", u>>, <<"root", u>>, x)

\* A holder gives money to the bridge itself, which nobody asked to carry it.
Sink(u, x) ==
  /\ \A id \in Id : wallet[<<"root", u>>][id] >= x[id]
  /\ wallet' = [wallet EXCEPT ![<<"root", u>>] = Minus(@, x)]
  /\ UNCHANGED supply

Init ==
  /\ wallet = [w \in Wallet |-> [id \in Id |-> 0]]
  /\ supply = [id \in Id |-> 0]

Next ==
  \E u \in User, x \in Amounts :
    \/ Mint(u, x) \/ Withdraw(u, x) \/ Arrive(u, x) \/ Sink(u, x)
    \/ \E v \in User : \/ Give("root", u, v, x) \/ Give("child", u, v, x)
                       \/ Deposit(u, v, x)

Spec == Init /\ [][Next]_<<wallet, supply>>
=============================================================================
