--------------------------- MODULE MCATokenHandover ---------------------------
(* Instances of ATokenHandover for TLC. *)
EXTENDS ATokenHandover

CONSTANT maDAI

MCListed == <<maDAI>>
=============================================================================
