---------------------------- MODULE MCStatusSite ----------------------------
(* Instances of StatusSite for TLC. *)
EXTENDS StatusSite
=============================================================================
