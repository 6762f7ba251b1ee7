------------------------------ MODULE MCAddons ------------------------------
(***************************************************************************)
(* Instances of Addons for TLC: the CRDs of the Gateway API in the first   *)
(* wave, Cilium and external-dns in the second.                            *)
(***************************************************************************)
EXTENDS Addons, TLC

CONSTANTS gateway, cilium, dns

MCBuiltins == <<gateway, cilium>>
MCPriority == gateway :> 50 @@ cilium :> 100 @@ dns :> 0

\* The smallest cluster, for what goes wrong already there.
OneBuiltin == <<cilium>>
OnePriority == cilium :> 100 @@ dns :> 0
=============================================================================
