------------------------ MODULE MCMintableERC721Bridge ------------------------
(* Instances of MintableERC721Bridge for TLC. *)
EXTENDS MintableERC721Bridge, TLC

CONSTANTS alice, bob, t1, t2

MCUser == {alice, bob}
OneToken == {t1}
TwoTokens == {t1, t2}
Sym == Permutations(MCUser) \cup Permutations(TwoTokens)
=============================================================================
