----------------------------- MODULE MCRegistry -----------------------------
(***************************************************************************)
(* An instance of Registry for TLC: the hub, which only watches, and the   *)
(* server of one zone, whose registration is followed.                     *)
(***************************************************************************)
EXTENDS Registry, TLC

CONSTANTS hub, server, hubName, zone

MCNameOf == hub :> hubName @@ server :> zone
=============================================================================
