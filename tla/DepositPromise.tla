--------------------------- MODULE DepositPromise ---------------------------
(***************************************************************************)
(* What the bridge promises about mappings and deposits, with no syncs and *)
(* no second registry in sight.  There is one partial one-to-one pairing   *)
(* of root tokens with child tokens.  A deposit is a promise to credit the *)
(* child token paired with the root token at that moment; promises are     *)
(* kept in the order they were made, each one once, whatever is paired     *)
(* with the root token by then.                                            *)
(***************************************************************************)
EXTENDS Naturals, Sequences

CONSTANTS RootToken, ChildToken, Nobody

VARIABLES
  partner,        \* the pairing: root token -> child token or Nobody
  promised,       \* for each event so far, the child token promised a credit,
                  \* Nobody for an event that is not a deposit
  kept            \* the prefix of promised that has been honoured

vars == <<partner, promised, kept>>

OneToOne(f) == \A r, s \in RootToken : (f[r] = f[s] /\ f[r] # Nobody) => r = s

Init ==
  /\ partner = [r \in RootToken |-> Nobody]
  /\ promised = << >>
  /\ kept = << >>

Pair ==
  /\ partner' \in [RootToken -> ChildToken \cup {Nobody}]
  /\ OneToOne(partner')
  /\ promised' = Append(promised, Nobody)
  /\ UNCHANGED kept

Deposit ==
  /\ \E r \in RootToken : /\ partner[r] # Nobody
                          /\ promised' = Append(promised, partner[r])
  /\ UNCHANGED <<partner, kept>>

Honour ==
  /\ Len(kept) < Len(promised)
  /\ kept' = Append(kept, promised[Len(kept) + 1])
  /\ UNCHANGED <<partner, promised>>

Next == Pair \/ Deposit \/ Honour

Spec == Init /\ [][Next]_vars
=============================================================================
