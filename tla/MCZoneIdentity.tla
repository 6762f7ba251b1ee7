--------------------------- MODULE MCZoneIdentity ---------------------------
(***************************************************************************)
(* An instance of ZoneIdentity for TLC.                                    *)
(***************************************************************************)
EXTENDS ZoneIdentity
=============================================================================
