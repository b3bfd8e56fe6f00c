---------------------------- MODULE MCVgwModule -----------------------------
(* Instances of VgwModule for TLC; the cfg files bound the calls. *)
EXTENDS VgwModule
=============================================================================
