------------------------ MODULE MCClusterBootstrap ------------------------
(***************************************************************************)
(* Instances of ClusterBootstrap for TLC: a control plane of machines a    *)
(* and b, a worker w.                                                      *)
(***************************************************************************)
EXTENDS ClusterBootstrap, TLC

CONSTANTS a, b, w
=============================================================================
