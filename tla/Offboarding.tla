----------------------------- MODULE Offboarding -----------------------------
(***************************************************************************)
(* How machines leave a cluster: the TalosCluster reconciler and the       *)
(* instance-reset controller work on the same Instances and machines,      *)
(* while users delete Instances and the cluster and pools claim and        *)
(* release.  An Instance that is gone is not created again here.           *)
(***************************************************************************)
EXTENDS InstanceReset, ClusterTeardown

vars == <<inventoryVars, memberVars, resetVars, clusterVars>>

TypeOK == InventoryTypeOK /\ MembersTypeOK /\ ResetTypeOK /\ ClusterTypeOK

Init == MembersInit /\ ResetInit /\ ClusterInit

\* Only the instance-reset controller watches Instances.
DeliverInstance(i) ==
    /\ Deliver(i)
    /\ resetQueue' = resetQueue \cup {i}
    /\ UNCHANGED <<inst, node, edits, memberVars, resetting, want, pool, clusterVars>>

DeliverCluster(p) ==
    /\ clusterSeen[p] # cluster
    /\ clusterSeen' = [clusterSeen EXCEPT ![p] = cluster]
    /\ queued' = (queued \/ p = leader)
    /\ UNCHANGED <<inventoryVars, cluster, clusterLate, late, resetVars,
                   leader, stage, members, member, failed, cpReady, unregister>>

UserStep ==
    \/ DeleteCluster
    \/ \E i \in Instances :
          \/ PoolReleases(i) \/ Touch(i) \/ Unplug(i)
          \/ DeleteInstance(i) /\ UNCHANGED memberVars
          \/ \E p \in Pools : PoolClaims(i, p)

Timeout == TeardownTimeout \/ \E i \in Instances : ResetTimeout(i)

Next ==
    \/ /\ ResetStep \/ ResetFails \/ \E i \in Instances, p \in Procs : ResetFetch(i, p)
       /\ UNCHANGED clusterVars
    \/ /\ ClusterStep \/ ClusterFails \/ \E p \in Procs : Failover(p)
       /\ UNCHANGED resetVars
    \/ \E p \in Procs : DeliverCluster(p)
    \/ \E i \in Instances : DeliverInstance(i)
    \/ (UserStep \/ Timeout) /\ UNCHANGED <<resetVars, clusterVars>>

Spec == Init /\ [][Next]_vars
-----------------------------------------------------------------------------
\* The watches deliver, the queues are served in order, requests are answered
\* and time passes.
Fairness ==
    /\ \A i \in Instances : /\ SF_vars((\E p \in Procs : ResetFetch(i, p)) /\ UNCHANGED clusterVars)
                            /\ WF_vars(DeliverInstance(i))
                            /\ WF_vars(ResetTimeout(i) /\ UNCHANGED <<resetVars, clusterVars>>)
    /\ WF_vars(ResetStep /\ UNCHANGED clusterVars)
    /\ WF_vars(ClusterStep /\ UNCHANGED resetVars)
    /\ \A p \in Procs : WF_vars(DeliverCluster(p))
    /\ WF_vars(TeardownTimeout /\ UNCHANGED <<resetVars, clusterVars>>)

FairSpec == Spec /\ Fairness
-----------------------------------------------------------------------------
\* No machine is wiped under a member that stays: only that of an Instance
\* which is deleted, or of a cluster which is.
NoSpuriousReset ==
    [][\A i \in Instances :
          node[i] = "configured" /\ node'[i] = "maintenance"
            => inst[i].deleting \/ cluster # "live"]_vars

\* No machine of a deleted cluster is configured: with the deletion timestamp
\* set, teardown.go is said to be the only thing left that touches the cluster
\* (taloscluster/controller.go:311-315).  The code does not keep it: a process
\* whose cache lags takes the lease over and configures a machine that the
\* teardown has just reset.
DeletedNotConfigured ==
    [][\A i \in Instances :
          cluster # "live" /\ node[i] # "configured" => node'[i] # "configured"]_vars

\* Deleting an Instance always completes, whatever became of its machine, its
\* claim and its cluster (InstanceResetFinalizer does not block for ever).
OffboardingEnds ==
    \A i \in Instances : []<>~(Exists(i) /\ inst[i].deleting)

\* Deleting the cluster always completes.
ClusterTeardownEnds == []<>(cluster # "deleting")

=============================================================================
