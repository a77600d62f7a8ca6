---------------------------- MODULE MCATokenBridge ----------------------------
(* Instances of ATokenBridge for TLC. *)
EXTENDS ATokenBridge, TLC

CONSTANTS a1, a2, h1, h2

MCRootToken == {a1, a2}
MCCode == {h1, h2}
Sym == Permutations(MCRootToken) \cup Permutations(MCCode)
=============================================================================
