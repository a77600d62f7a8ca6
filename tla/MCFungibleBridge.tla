--------------------------- MODULE MCFungibleBridge ---------------------------
(* Instances of FungibleBridge for TLC: an ERC20 with more tokens, logs and   *)
(* deposits, an ERC1155 with more ids.                                        *)
EXTENDS FungibleBridge

CONSTANTS alice, bob, i1, i2

MCUser == {alice, bob}
MCId == {i1, i2}

MCMaxUint  == [s \in Standard |-> IF s = "ERC20" THEN 2 ELSE 1]
MCMaxLogs  == [s \in Standard |-> IF s = "ERC20" THEN 5 ELSE 3]
MCMaxSyncs == [s \in Standard |-> IF s = "ERC20" THEN 3 ELSE 2]
=============================================================================
