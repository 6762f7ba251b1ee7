-------------------------- MODULE MCZoneController --------------------------
(***************************************************************************)
(* An instance of ZoneController for TLC: one zone, its own server and one *)
(* server of the hub, named so that either may sort first.                 *)
(***************************************************************************)
EXTENDS ZoneController
=============================================================================
