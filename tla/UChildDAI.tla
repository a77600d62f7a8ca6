------------------------------- MODULE UChildDAI -------------------------------
(***************************************************************************)
(* UChildDAI: a child token with allowances (ERC20), calls that are signed *)
(* by one and sent by another (NativeMetaTransaction, ContextMixin) and    *)
(* approvals by signature (permit).                                        *)
(*                                                                         *)
(* A signature is good for one nonce of its signer.  Anybody may present   *)
(* any signature at any time; one for another nonce or another name of the *)
(* token, or a permit that has expired, reverts, and is not a step.        *)
(***************************************************************************)
EXTENDS Naturals

CONSTANTS
  User,         \* who has keys
  This,         \* the address of the token contract, which has none
  Call,         \* function calls that users make
  Signed,       \* those that users also sign for others to send
  MaxUint,      \* the largest uint256
  MaxNonce      \* bound of the model: signatures of each user that are used

Account == User \cup {This}

\* A function call: its selector and its arguments, as far as it has them.  The
\* spender of an approval is "to".
AnyCall == [fn : {"transfer", "approve", "increaseAllowance", "decreaseAllowance",
                  "transferFrom", "move", "push", "pull", "withdraw"},
            from : Account, to : Account, amount : 0..MaxUint]

ASSUME DAIAssumption ==
  /\ This \notin User
  /\ Call \subseteq AnyCall /\ Signed \subseteq Call
  /\ MaxUint \in Nat /\ MaxNonce \in Nat

VARIABLES
  ledger,   \* _balances, _allowances, _totalSupply
  nonces,
  uses,     \* how many signatures were used for each nonce (history)
  last      \* in whose name the last step was, and the call if it was signed
            \* (history)

daiVars == <<ledger, nonces, uses, last>>

Nonce == 0..MaxNonce
Ledger == [balances : [Account -> 0..MaxUint],
           allowances : [Account -> [Account -> 0..MaxUint]],
           totalSupply : 0..MaxUint]
NoCall == [fn |-> "none", from |-> This, to |-> This, amount |-> 0]

DAITypeOK ==
  /\ ledger \in Ledger
  /\ nonces \in [User -> Nonce]
  /\ uses \in [User -> [Nonce -> Nat]]
  /\ last \in [sender : Account, call : AnyCall \cup {NoCall}]

Init ==
  /\ ledger = [balances |-> [a \in Account |-> 0],
               allowances |-> [a \in Account |-> [b \in Account |-> 0]],
               totalSupply |-> 0]
  /\ nonces = [u \in User |-> 0]
  /\ uses = [u \in User |-> [n \in Nonce |-> 0]]
  /\ last = [sender |-> This, call |-> NoCall]

-----------------------------------------------------------------------------
\* What a call does to a ledger l: the set of the ledgers it can leave, which is
\* empty if it reverts.

\* A plausible bug, not the code: the balance is not looked at.
TransferUnchecked(l, from, to, n) ==
  {[l EXCEPT !.balances = [[@ EXCEPT ![from] = @ - n] EXCEPT ![to] = @ + n]]}

Transfer(l, from, to, n) ==
  LET taken == [l.balances EXCEPT ![from] = @ - n]
  IN  IF l.balances[from] >= n /\ taken[to] + n <= MaxUint
      THEN {[l EXCEPT !.balances = [taken EXCEPT ![to] = @ + n]]}
      ELSE {}

Burn(l, from, n) ==
  IF l.balances[from] >= n /\ l.totalSupply >= n
  THEN {[l EXCEPT !.balances[from] = @ - n, !.totalSupply = @ - n]}
  ELSE {}

Approve(l, holder, spender, n) == {[l EXCEPT !.allowances[holder][spender] = n]}

\* A plausible bug, not the code: an unlimited allowance stays one, as it does
\* in the DAI of the root chain.
TransferFromUnlimited(l, sender, from, to, n) ==
  UNION {IF t.allowances[from][sender] = MaxUint THEN {t}
         ELSE IF t.allowances[from][sender] >= n
         THEN Approve(t, from, sender, t.allowances[from][sender] - n) ELSE {}
         : t \in Transfer(l, from, to, n)}

TransferFrom(l, sender, from, to, n) ==
  UNION {IF t.allowances[from][sender] >= n
         THEN Approve(t, from, sender, t.allowances[from][sender] - n) ELSE {}
         : t \in Transfer(l, from, to, n)}

IncreaseAllowance(l, holder, spender, n) ==
  IF l.allowances[holder][spender] + n <= MaxUint
  THEN Approve(l, holder, spender, l.allowances[holder][spender] + n) ELSE {}

DecreaseAllowance(l, holder, spender, n) ==
  IF l.allowances[holder][spender] >= n
  THEN Approve(l, holder, spender, l.allowances[holder][spender] - n) ELSE {}

\* A plausible bug, not the code: the sender of a relayed call is not looked for.
msgSenderRaw(raw, appended) == raw

\* _msgSender: raw is msg.sender, appended the address at the end of the data.
msgSender(raw, appended) == IF raw = This THEN appended ELSE raw

\* The function that is called.  push and pull use msg.sender.
Effect(l, raw, appended, c) ==
  LET sender == msgSender(raw, appended)
  IN  CASE c.fn = "transfer" -> Transfer(l, sender, c.to, c.amount)
        [] c.fn = "approve" -> Approve(l, sender, c.to, c.amount)
        [] c.fn = "increaseAllowance" -> IncreaseAllowance(l, sender, c.to, c.amount)
        [] c.fn = "decreaseAllowance" -> DecreaseAllowance(l, sender, c.to, c.amount)
        [] c.fn \in {"transferFrom", "move"} -> TransferFrom(l, sender, c.from, c.to, c.amount)
        [] c.fn = "push" -> TransferFrom(l, sender, raw, c.to, c.amount)
        [] c.fn = "pull" -> TransferFrom(l, sender, c.from, raw, c.amount)
        [] c.fn = "withdraw" -> Burn(l, sender, c.amount)

-----------------------------------------------------------------------------
\* The child manager mints a deposit.
Deposit(u, n) ==
  /\ ledger.totalSupply + n <= MaxUint
  /\ ledger.balances[u] + n <= MaxUint
  /\ ledger' = [ledger EXCEPT !.balances[u] = @ + n, !.totalSupply = @ + n]
  /\ last' = [sender |-> This, call |-> NoCall]
  /\ UNCHANGED <<nonces, uses>>

\* A user calls the token.
CallDirectly(u, c) ==
  /\ ledger' \in Effect(ledger, u, u, c)
  /\ last' = [sender |-> u, call |-> NoCall]
  /\ UNCHANGED <<nonces, uses>>

\* The signature of u for its nonce k is verified, and the nonce spent.
Spend(before, u, k) == [before EXCEPT ![u] = k + 1]
Use(before, u, k)   == [before EXCEPT ![u][k] = @ + 1]

\* Anybody sends a call that u signed.
executeMetaTransaction(u, k, c) ==
  /\ k = nonces[u] /\ k < MaxNonce
  /\ nonces' = Spend(nonces, u, k)
  /\ uses' = Use(uses, u, k)
  /\ ledger' \in Effect(ledger, This, u, c)
  /\ last' = [sender |-> u, call |-> c]

\* What u signed is executeMetaTransaction itself, with a call that v signed.
\* The nonce of u is spent by then, and both are as they were if the call fails.
executeNested(u, k, v, j, c) ==
  /\ k = nonces[u] /\ k < MaxNonce
  /\ j = Spend(nonces, u, k)[v] /\ j < MaxNonce
  /\ nonces' = Spend(Spend(nonces, u, k), v, j)
  /\ uses' = Use(Use(uses, u, k), v, j)
  /\ ledger' \in Effect(ledger, This, v, c)
  /\ last' = [sender |-> v, call |-> c]

\* A plausible bug, not the code: the nonce is compared and not spent.
permitKeepsNonce(holder, spender, k, allowed) ==
  LET wad == IF allowed THEN MaxUint ELSE 0
  IN  /\ k = nonces[holder] /\ k < MaxNonce
      /\ uses' = Use(uses, holder, k)
      /\ ledger' \in Approve(ledger, holder, spender, wad)
      /\ last' = [sender |-> holder,
                  call |-> [fn |-> "approve", from |-> holder, to |-> spender, amount |-> wad]]
      /\ UNCHANGED nonces

\* Anybody but the token itself sends an approval that the holder signed.  It
\* shares the nonces of executeMetaTransaction.
permit(holder, spender, k, allowed) ==
  LET wad == IF allowed THEN MaxUint ELSE 0
  IN  /\ k = nonces[holder] /\ k < MaxNonce
      /\ nonces' = Spend(nonces, holder, k)
      /\ uses' = Use(uses, holder, k)
      /\ ledger' \in Approve(ledger, holder, spender, wad)
      /\ last' = [sender |-> holder,
                  call |-> [fn |-> "approve", from |-> holder, to |-> spender, amount |-> wad]]

Next ==
  \/ \E u \in User, n \in 1..MaxUint : Deposit(u, n)
  \/ \E u \in User, c \in Call : CallDirectly(u, c)
  \/ \E u \in User, k \in Nonce, c \in Signed :
       \/ executeMetaTransaction(u, k, c)
       \/ \E v \in User, j \in Nonce : executeNested(u, k, v, j, c)
  \/ \E u \in User, spender \in Account, k \in Nonce, allowed \in BOOLEAN :
       permit(u, spender, k, allowed)

Spec == Init /\ [][Next]_daiVars

-----------------------------------------------------------------------------
\* No signature is used twice, and no two for the same nonce, be it a permit, a
\* relayed call or one inside the other.
SignaturesOnce ==
  \A u \in User, k \in Nonce : uses[u][k] = IF k < nonces[u] THEN 1 ELSE 0

\* A call that was signed does what it would have done had the signer made it.
RelayedAsDirect ==
  [][nonces' # nonces
       => ledger' \in Effect(ledger, last'.sender, last'.sender, last'.call)]_daiVars

\* Tokens leave an account in its own name, or out of an allowance that is less
\* by as much; whoever sends the transaction, the token itself included, loses
\* nothing.
SpentByConsent ==
  [][\A a \in Account :
       ledger'.balances[a] < ledger.balances[a]
         => \/ last'.sender = a
            \/ ledger.allowances[a][last'.sender] - ledger'.allowances[a][last'.sender]
                 = ledger.balances[a] - ledger'.balances[a]]_daiVars
=============================================================================
