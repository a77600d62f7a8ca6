---------------------------- MODULE MCMappingSync ----------------------------
(* Instances of MappingSync for TLC. *)
EXTENDS MappingSync, TLC

CONSTANTS r1, r2, c1, c2

MCRootToken  == {r1, r2}
MCChildToken == {c1, c2}
Tokens == Permutations(MCRootToken) \cup Permutations(MCChildToken)
=============================================================================
