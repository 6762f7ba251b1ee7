---------------------------- MODULE MCZoneLease ----------------------------
(***************************************************************************)
(* An instance of ZoneLease for TLC: a hub and the server of zone A, one   *)
(* controller each.  Either may work on zone B, only the hub on the global *)
(* key.  The server's clock is one tick ahead, and a reconcile may outlast *)
(* its lease of two ticks.                                                 *)
(***************************************************************************)
EXTENDS ZoneLease, TLC

CONSTANTS hub, server, h, s, global, zoneA, zoneB

MCProcOf == h :> hub @@ s :> server
MCSelfZoneKey == hub :> global @@ server :> zoneA
MCSkew == hub :> 0 @@ server :> 1
=============================================================================
