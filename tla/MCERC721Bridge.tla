---------------------------- MODULE MCERC721Bridge ----------------------------
(* Instances of ERC721Bridge for TLC. *)
EXTENDS ERC721Bridge, TLC

CONSTANTS alice, bob, t1, t2

MCUser == {alice, bob}
MCTokenId == {t1, t2}
Sym == Permutations(MCUser) \cup Permutations(MCTokenId)
=============================================================================
