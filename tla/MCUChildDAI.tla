------------------------------ MODULE MCUChildDAI ------------------------------
(* Instances of UChildDAI for TLC. *)
EXTENDS UChildDAI, TLC

CONSTANTS u1, u2

MCUser == {u1, u2}
Sym == Permutations(MCUser)

\* Every function, with one unit.  Arguments that a function does not have are
\* fixed; the token itself receives, but spends nothing and is allowed nothing
\* except by permit.
Plain(fns) ==
  {c \in AnyCall :
     /\ c.fn \in fns /\ c.amount = 1
     /\ IF c.fn \in {"transferFrom", "pull"} THEN c.from \in User ELSE c.from = This
     /\ c.fn \in {"pull", "withdraw"} => c.to = This
     /\ c.fn \in {"approve", "increaseAllowance", "decreaseAllowance"} => c.to \in User}
MCCall == Plain({"transfer", "approve", "increaseAllowance", "decreaseAllowance",
                 "transferFrom", "push", "pull", "withdraw"})
MCSigned == {c \in MCCall : c.fn \notin {"push", "pull"}}
MCSignedAliases == {c \in MCCall : c.fn \in {"transfer", "approve", "transferFrom", "pull"}}
=============================================================================
