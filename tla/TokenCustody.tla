----------------------------- MODULE TokenCustody -----------------------------
(***************************************************************************)
(* What a bridge for non-fungible tokens promises, told without locks,     *)
(* logs, syncs or proofs: each token is in one place at a time and belongs *)
(* there to one account.  It leaves a chain in somebody's name, travels,   *)
(* and arrives in that name; nobody but its holder moves it.               *)
(***************************************************************************)
CONSTANTS TokenId, User

VARIABLE place

\* "root", "child": held on that chain.  "toChild", "toRoot": deposited and
\* withdrawn tokens that have not arrived.  "sunk": given to the bridge itself,
\* which nobody asked to carry it.  "unborn": not minted anywhere yet.
Unborn == [at |-> "unborn"]
Sunk   == [at |-> "sunk"]
In(where, u) == [at |-> where, by |-> u]

\* A new token is given to somebody on one of the chains.
Mint(where) ==
  \E id \in TokenId, u \in User :
    /\ place[id] = Unborn
    /\ place' = [place EXCEPT ![id] = In(where, u)]

\* The holder gives the token to another account on the same chain.
Give(where) ==
  \E id \in TokenId, u, v \in User :
    /\ place[id] = In(where, u)
    /\ place' = [place EXCEPT ![id] = In(where, v)]

\* The holder sends the token away, in the name of an account of its choice
\* when it deposits and in its own name when it withdraws.
Deposit ==
  \E ids \in SUBSET TokenId, u, v \in User :
    /\ \A id \in ids : place[id] = In("root", u)
    /\ place' = [id \in TokenId |-> IF id \in ids THEN In("toChild", v) ELSE place[id]]

Withdraw ==
  \E ids \in SUBSET TokenId, u \in User :
    /\ \A id \in ids : place[id] = In("child", u)
    /\ place' = [id \in TokenId |-> IF id \in ids THEN In("toRoot", u) ELSE place[id]]

\* Tokens that travelled together arrive together, in the name they travelled
\* under.
Arrive(from, to) ==
  \E ids \in SUBSET TokenId, u \in User :
    /\ \A id \in ids : place[id] = In(from, u)
    /\ place' = [id \in TokenId |-> IF id \in ids THEN In(to, u) ELSE place[id]]

\* The holder transfers the token straight to the contract that keeps the
\* locked ones.
Sink ==
  \E id \in TokenId, u \in User :
    /\ place[id] = In("root", u)
    /\ place' = [place EXCEPT ![id] = Sunk]

Init == place \in [TokenId -> {Unborn} \cup {In("root", u) : u \in User}]

Next ==
  \/ \E where \in {"root", "child"} : Mint(where) \/ Give(where)
  \/ Deposit
  \/ Withdraw
  \/ Arrive("toChild", "child")
  \/ Arrive("toRoot", "root")
  \/ Sink

Spec == Init /\ [][Next]_place
=============================================================================
