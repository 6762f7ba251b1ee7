--------------------------- MODULE ClusterMembers ---------------------------
(***************************************************************************)
(* What the TalosCluster reconciler and the instance-reset controller      *)
(* (pkg/domain/taloscluster) share: one TalosCluster that references all   *)
(* the pools, as it is stored and as the cache of each process shows it,   *)
(* the clocks that bound its retries, and the Reset RPC.                   *)
(***************************************************************************)
EXTENDS Inventory

CONSTANTS
    Procs,            \* the processes that run both controllers
    ControlPlanePool  \* spec.controlPlane.poolRef; other pools are workers'

ASSUME MembersAssumption == ControlPlanePool \in Pools

VARIABLES
    cluster,      \* the stored TalosCluster, which has its finalizer
    clusterSeen,  \* the copy of it in the informer cache of each process
    clusterLate,  \* TeardownTimeout has passed since it was deleted
    late          \* Instances for which ResetTimeout has passed

memberVars == <<cluster, clusterSeen, clusterLate, late>>

MembersTypeOK ==
    /\ cluster \in {"live", "deleting", "gone"}
    /\ clusterSeen \in [Procs -> {"live", "deleting", "gone"}]
    /\ clusterLate \in BOOLEAN
    /\ late \subseteq Instances

\* Discovered machines in maintenance mode, some of them already claimed; some
\* names are not in use.  Any number of the edits is already spent.
MembersInit ==
    /\ inst \in [Instances -> {Gone} \cup
          {[Fresh EXCEPT !.discovered = TRUE, !.live = TRUE, !.claimedBy = p] :
              p \in Pools \cup {NoPool}}]
    /\ seen = inst
    /\ held = {Informer} \X Instances
    /\ node = [i \in Instances |-> IF Exists(i) THEN "maintenance" ELSE "off"]
    /\ edits \in 0..MaxEdits
    /\ cluster = "live"
    /\ clusterSeen = [p \in Procs |-> "live"]
    /\ clusterLate = FALSE
    /\ late = {}
-----------------------------------------------------------------------------
IsClaimed(obj) == obj.claimedBy # NoPool

\* resolveMembers for the control-plane pool.
ControlPlane == {i \in Instances : seen[i].claimedBy = ControlPlanePool /\ seen[i].discovered}

\* resolveResetEndpoint: through whom the Reset of i can be sent, given the
\* pool p its copy says it belongs to.
Endpoints(i, p) ==
    IF ControlPlane \ {i} # {} THEN ControlPlane \ {i}
    ELSE IF p = ControlPlanePool THEN {i} ELSE {}

\* Both ends must run a config of this cluster to accept its admin identity.
ResetReaches(i, e) == node[i] = "configured" /\ node[e] = "configured"

Wipe(i) == node' = [node EXCEPT ![i] = "maintenance"]

\* r's Update of i goes through, and its answer brings the new
\* resourceVersion back to r.
PutBack(r, i, obj) ==
    /\ inst' = [inst EXCEPT ![i] = obj]
    /\ held' = {h \in held : h[2] # i} \cup {<<r, i>>}
-----------------------------------------------------------------------------
\* A pool claims an Instance, or gives one up (scale-down, pool deletion).
PoolClaims(i, p) ==
    /\ Edit
    /\ Exists(i) /\ ~IsClaimed(inst[i])
    /\ Put(i, [inst[i] EXCEPT !.claimedBy = p])
    /\ UNCHANGED <<seen, node, memberVars>>

PoolReleases(i) ==
    /\ Edit
    /\ Exists(i) /\ IsClaimed(inst[i])
    /\ Put(i, [inst[i] EXCEPT !.claimedBy = NoPool])
    /\ UNCHANGED <<seen, node, memberVars>>

\* Any other write to the Instance: a probe result, a member condition.
Touch(i) ==
    /\ Edit
    /\ Exists(i)
    /\ Put(i, inst[i])
    /\ UNCHANGED <<seen, node, memberVars>>

Unplug(i) ==
    /\ Edit
    /\ node[i] # "off"
    /\ node' = [node EXCEPT ![i] = "off"]
    /\ UNCHANGED <<inst, seen, held, memberVars>>

DeleteCluster ==
    /\ Edit
    /\ cluster = "live"
    /\ cluster' = "deleting"
    /\ UNCHANGED <<inst, seen, held, node, clusterSeen, clusterLate, late>>

\* Time passes: ResetTimeout, TeardownTimeout.
ResetTimeout(i) ==
    /\ Exists(i) /\ inst[i].deleting /\ i \notin late
    /\ late' = late \cup {i}
    /\ UNCHANGED <<inventoryVars, cluster, clusterSeen, clusterLate>>

TeardownTimeout ==
    /\ cluster = "deleting" /\ ~clusterLate
    /\ clusterLate' = TRUE
    /\ UNCHANGED <<inventoryVars, cluster, clusterSeen, late>>
=============================================================================
