-------------------------- MODULE MCPortalDeployment --------------------------
(* Instances of PortalDeployment for TLC. *)
EXTENDS PortalDeployment
=============================================================================
