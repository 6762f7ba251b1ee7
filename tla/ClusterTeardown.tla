--------------------------- MODULE ClusterTeardown ---------------------------
(***************************************************************************)
(* pkg/domain/taloscluster: what the TalosCluster reconciler does to its   *)
(* members.  While the TalosCluster lives it configures them (controller.go,*)
(* seen here from the side of the Instances; ClusterBootstrap has the side *)
(* of the cluster), once it is deleted it resets and releases them         *)
(* (teardown.go).  One worker, of the process that holds the zone's lease; *)
(* between two reconciles the lease may pass to another process, which has *)
(* a cache of its own.                                                     *)
(***************************************************************************)
EXTENDS ClusterMembers

CONSTANTS
    ClusterReader,  \* the reconciler, as a reader of Instances
    NoMember        \* no member is in work

ASSUME TeardownAssumption ==
    NoMember \notin Instances /\ ClusterReader \in Readers

VARIABLES
    leader,    \* the process that holds the zone's lease
    queued,    \* a reconcile of the TalosCluster is pending there
    stage,     \* where the reconcile is
    members,   \* its copies of the members it has still to handle
    member,    \* the one in work
    failed,    \* teardown: one of them was not reset or not let go
    cpReady,   \* the ControlPlaneReady condition, which never goes back
    unregister \* spec.teardown.unregisterInstances, as a teardown has read it

clusterVars == <<leader, queued, stage, members, member, failed, cpReady, unregister>>

Stages == {"idle", "configure", "mark", "teardown", "clear", "letgo"}

Copy == [pool : Pools, configured : BOOLEAN]

ClusterTypeOK ==
    /\ leader \in Procs
    /\ queued \in BOOLEAN
    /\ stage \in Stages
    /\ DOMAIN members \subseteq Instances
    /\ members \in [DOMAIN members -> Copy]
    /\ member \in Instances \cup {NoMember}
    /\ stage \in {"mark", "clear", "letgo"} => member \in DOMAIN members
    /\ failed \in BOOLEAN
    /\ cpReady \in BOOLEAN
    /\ unregister \in BOOLEAN

NoMembers == [i \in {} |-> 0]

ClusterInit ==
    /\ leader \in Procs
    /\ queued = TRUE
    /\ stage = "idle"
    /\ members = NoMembers
    /\ member = NoMember
    /\ failed = FALSE
    /\ cpReady = FALSE
    /\ unregister = FALSE
-----------------------------------------------------------------------------
CopiesOf(S) ==
    [i \in S |-> [pool |-> seen[i].claimedBy, configured |-> seen[i].configured]]

\* Whom reconcileControlPlane, or once ControlPlaneReady reconcileWorkers,
\* configures: resolveMembers of those pools.
ToConfigure ==
    IF ~cpReady THEN ControlPlane
    ELSE IF ControlPlane = {} THEN {}
    ELSE {i \in Instances : /\ IsClaimed(seen[i])
                            /\ seen[i].claimedBy # ControlPlanePool
                            /\ seen[i].discovered}

\* Reconcile's look at the deletion timestamp.
StillLive == clusterSeen[leader] = "live"

\* Mutant: the teardown has no end but success.
ToTearDownPatient == {i \in Instances : IsClaimed(seen[i])}

\* listClaimedMembers, unless TeardownTimeout is over.
ToTearDown == IF clusterLate THEN {} ELSE {i \in Instances : IsClaimed(seen[i])}

\* Reconcile: the TalosCluster and the members are read from the cache.  Users
\* may change what spec.teardown says between two reconciles.
ClusterFetch ==
    LET S == IF StillLive THEN ToConfigure ELSE ToTearDown
    IN  /\ stage = "idle"
        /\ queued
        /\ \/ /\ clusterSeen[leader] = "gone"
              /\ queued' = FALSE
              /\ UNCHANGED <<stage, members, held, unregister>>
           \/ /\ clusterSeen[leader] # "gone"
              /\ queued' = FALSE
              /\ stage' = IF StillLive THEN "configure" ELSE "teardown"
              /\ unregister' \in (IF StillLive THEN {FALSE} ELSE BOOLEAN)
              /\ members' = CopiesOf(S)
              /\ Read(ClusterReader, S)
        /\ failed' = FALSE
        /\ UNCHANGED <<inst, seen, node, edits, memberVars, leader, member, cpReady>>

Without(i) == [j \in DOMAIN members \ {i} |-> members[j]]

\* The reconcile goes on with the next member.
Proceed(next) ==
    /\ stage' = next
    /\ members' = Without(member)
    /\ member' = NoMember

\* ApplyConfiguration to the next member, in the order of the List.  A machine
\* past maintenance mode, or off, refuses it, which is only logged.
Configure(i) ==
    /\ stage = "configure"
    /\ i \in DOMAIN members
    /\ \/ /\ node[i] = "maintenance"
          /\ node' = [node EXCEPT ![i] = "configured"]
          /\ stage' = "mark"
          /\ member' = i
          /\ UNCHANGED members
       \/ /\ node[i] # "maintenance"
          /\ members' = Without(i)
          /\ UNCHANGED <<node, stage, member>>
    /\ UNCHANGED <<inst, seen, held, edits, memberVars,
                   leader, queued, failed, cpReady, unregister>>

\* markMemberCondition(Configured): an Update that is refused is only logged.
MarkConfigured ==
    /\ stage = "mark"
    /\ \/ /\ ~members[member].configured
          /\ Current(ClusterReader, member)
          /\ PutBack(ClusterReader, member, [inst[member] EXCEPT !.configured = TRUE])
       \/ /\ members[member].configured \/ ~Current(ClusterReader, member)
          /\ UNCHANGED <<inst, held>>
    /\ Proceed("configure")
    /\ UNCHANGED <<seen, node, edits, memberVars, leader, queued, failed, cpReady, unregister>>

\* The rest of the reconcile: bootstrap and health check decide whether the
\* control plane is ready, and the next reconcile is scheduled.
Configured ==
    /\ stage = "configure"
    /\ members = NoMembers
    /\ stage' = "idle"
    /\ queued' = TRUE
    /\ cpReady' \in {cpReady, \E i \in ControlPlane : node[i] = "configured"}
    /\ cpReady => cpReady'
    /\ Drop(ClusterReader)
    /\ UNCHANGED <<inst, seen, node, edits, memberVars,
                   leader, members, member, failed, unregister>>
-----------------------------------------------------------------------------
\* listClaimedMembers lists workers before the control plane, by name.
NextMember ==
    LET Workers == {i \in DOMAIN members : members[i].pool # ControlPlanePool}
        Group == IF Workers # {} THEN Workers ELSE DOMAIN members
    IN  CHOOSE i \in Group : \A j \in Group : i <= j

\* teardownMember, first part: the Reset RPC, if the copy says Configured.  A
\* member whose reset fails stays as it is, for the next pass.
TeardownReset ==
    LET i == NextMember
        E == Endpoints(i, members[i].pool)
        Reached == {e \in E : ResetReaches(i, e)}
    IN  /\ stage = "teardown"
        /\ members # NoMembers
        /\ \/ /\ ~members[i].configured
              /\ stage' = "letgo"
              /\ member' = i
              /\ UNCHANGED <<node, members, failed, edits>>
           \/ /\ members[i].configured
              /\ Reached # {}
              /\ Wipe(i)
              /\ \/ stage' = "clear" /\ member' = i /\ UNCHANGED <<members, failed, edits>>
                 \/ /\ Edit  \* the answer is lost
                    /\ members' = Without(i)
                    /\ failed' = TRUE
                    /\ UNCHANGED <<stage, member>>
           \/ /\ members[i].configured
              /\ Reached # E \/ E = {}
              /\ members' = Without(i)
              /\ failed' = TRUE
              /\ UNCHANGED <<node, stage, member, edits>>
        /\ UNCHANGED <<inst, seen, held, memberVars, leader, queued, cpReady, unregister>>

\* clearMemberConditions: an Update that is refused is only logged.
TeardownClear ==
    /\ stage = "clear"
    /\ \/ /\ Current(ClusterReader, member)
          /\ PutBack(ClusterReader, member, [inst[member] EXCEPT !.configured = FALSE])
       \/ ~Current(ClusterReader, member) /\ UNCHANGED <<inst, held>>
    /\ stage' = "letgo"
    /\ UNCHANGED <<seen, node, edits, memberVars,
                   leader, queued, members, member, failed, cpReady, unregister>>

\* Delete carries no resourceVersion.
UnregisterMember ==
    /\ unregister
    /\ \/ Exists(member) /\ Put(member, Settle([inst[member] EXCEPT !.deleting = TRUE]))
       \/ ~Exists(member) /\ UNCHANGED <<inst, held>>
    /\ UNCHANGED failed

\* releaseMember: a conflict is passed over, an Instance that is gone is not.
ReleaseMember ==
    /\ ~unregister
    /\ \/ /\ Current(ClusterReader, member)
          /\ Put(member, [inst[member] EXCEPT !.claimedBy = NoPool])
          /\ UNCHANGED failed
       \/ /\ ~Current(ClusterReader, member)
          /\ failed' = (failed \/ ~Exists(member))
          /\ UNCHANGED <<inst, held>>

TeardownLetGo ==
    /\ stage = "letgo"
    /\ \/ (UnregisterMember \/ ReleaseMember) /\ UNCHANGED edits
       \/ Edit /\ failed' = TRUE /\ UNCHANGED <<inst, held>>  \* the request fails
    /\ Proceed("teardown")
    /\ UNCHANGED <<seen, node, memberVars, leader, queued, cpReady, unregister>>

\* The end of a pass: another one, or removeClusterFinalizer, which finds no
\* TalosCluster if another process has removed it before.
TeardownEnds ==
    /\ stage = "teardown"
    /\ members = NoMembers
    /\ stage' = "idle"
    /\ \/ (failed \/ cluster = "gone") /\ queued' = TRUE /\ UNCHANGED cluster
       \/ ~failed /\ cluster # "gone" /\ cluster' = "gone" /\ UNCHANGED queued
    /\ unregister' = FALSE
    /\ Drop(ClusterReader)
    /\ UNCHANGED <<inst, seen, node, edits, clusterSeen, clusterLate, late,
                   leader, members, member, failed, cpReady>>

\* The process dies, or the reconcile ends with an error: it starts over.
ClusterFails ==
    /\ Edit
    /\ stage # "idle"
    /\ stage' = "idle"
    /\ members' = NoMembers
    /\ member' = NoMember
    /\ failed' = FALSE
    /\ queued' = TRUE
    /\ unregister' = FALSE
    /\ Drop(ClusterReader)
    /\ UNCHANGED <<inst, seen, node, memberVars, leader, cpReady>>

\* The lease passes on: its holder is gone, or let it expire.  The process that
\* takes it over kept trying (RequeueAfter of acquireZoneLease).
Failover(p) ==
    /\ Edit
    /\ stage = "idle"
    /\ p # leader
    /\ leader' = p
    /\ queued' = TRUE
    /\ UNCHANGED <<inst, seen, held, node, memberVars,
                   stage, members, member, failed, cpReady, unregister>>

ClusterStep ==
    \/ ClusterFetch \/ Configured \/ MarkConfigured
    \/ \E i \in Instances : Configure(i)
    \/ TeardownReset \/ TeardownClear \/ TeardownLetGo \/ TeardownEnds
=============================================================================
