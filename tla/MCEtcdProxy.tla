---------------------------- MODULE MCEtcdProxy ----------------------------
(***************************************************************************)
(* An instance of EtcdProxy for TLC: the zone's relay and the hub's proxy. *)
(***************************************************************************)
EXTENDS EtcdProxy
=============================================================================
