--------------------------- MODULE ZoneController ---------------------------
(***************************************************************************)
(* The zone controller of pkg/domain/zone: `zone add` writes a Zone and    *)
(* its TalosCluster, the controller installs kontinuum-server onto the     *)
(* cluster once it is ready, exposes it, waits for the server to register, *)
(* and takes everything down again before a deleted Zone may go.           *)
(*                                                                         *)
(* One pass of Reconcile is a sequence of requests to two API servers, in  *)
(* groups here, each of which may get only so far; anything happens before *)
(* the next: the Zone is deleted, the cluster degrades, the process dies.  *)
(* A pass works on the copy of the Zone it read from its cache, and its    *)
(* writes are refused once the stored Zone is another one.  ZoneLease      *)
(* keeps a second process out, and the workqueue a second pass.            *)
(***************************************************************************)
EXTENDS ZoneFootprint

CONSTANT
    MaxDisturbances   \* bound: failed requests, crashes and changes in the world

ASSUME ControllerAssumption == MaxDisturbances \in Nat

VARIABLES
    zone,       \* the stored Zone
    cached,     \* the copy in the informer cache
    cluster,    \* the TalosCluster of the same name
    seeded,     \* the InstancePool and the seed Instance exist
    kubeconfig, \* the cluster's Secret holds one
    hubSecret,  \* the public half of the zone's etcd identity is on the hub
    down,       \* the objects on the zone's cluster
    image,      \* what the Deployment runs: a version and a digest
    pushed,     \* the digest behind the floating tag
    gateway,    \* the address of the Gateway, 0 while it has none
    record,     \* the address the DNSEndpoint publishes
    fleet,      \* server -> the version it reports, or NotRegistered
    config,     \* what the hub is configured with
    reachable,  \* the zone's cluster answers
    late,       \* TeardownTimeout has passed since the deletion
    queued,     \* a request for the Zone is queued, or a requeue is pending
    pass,       \* the pass under way
    disturbances

hubVars == <<zone, cached, cluster, seeded, kubeconfig, hubSecret>>
downVars == <<down, image, gateway, record>>
worldVars == <<pushed, fleet, config, reachable, late>>
vars == <<hubVars, downVars, worldVars, queued, pass, disturbances>>

\* DNSRecord, which nothing reads, and the reasons are left out.
Conditions == {"ClusterReady", "Installed", "RegistryJoined", "Ready"}

NoZone == [st |-> "absent", domain |-> FALSE, fin |-> FALSE, conds |-> {}]
Zones == [st : {"absent", "live", "deleting"}, domain : BOOLEAN, fin : BOOLEAN,
          conds : SUBSET Conditions]

NoCluster == [st |-> "none", ready |-> FALSE, owned |-> FALSE]
NoImage == <<Unreported, 0>>
Configurable == {"endpoint", "dns"}

\* The rest of the plan; the copy of the Zone as last read or written, and
\* whether that is still the stored one; a client for the zone's cluster; the
\* image it resolved; what it read of the certificate; and whether a schedule
\* asks for another pass.
Idle == [todo |-> <<>>, obj |-> NoZone, fresh |-> FALSE, client |-> FALSE,
         image |-> NoImage, cert |-> FALSE, again |-> FALSE]

Steps == {"cluster", "prepare", "workload", "network", "dns", "installed", "join",
          "downstream", "finalizer"}

TypeOK ==
    /\ zone \in Zones /\ cached \in Zones
    /\ cluster \in [st : {"none", "live", "deleting"}, ready : BOOLEAN, owned : BOOLEAN]
    /\ seeded \in BOOLEAN /\ kubeconfig \in BOOLEAN /\ hubSecret \in BOOLEAN
    /\ down \subseteq Objects
    /\ image \in Versions \X (0 .. 2)
    /\ pushed \in 1 .. 2
    /\ gateway \in 0 .. 2 /\ record \in 0 .. 2
    /\ fleet \in [Servers -> Versions \cup {NotRegistered}]
    /\ config \subseteq Configurable
    /\ reachable \in BOOLEAN /\ late \in BOOLEAN /\ queued \in BOOLEAN
    /\ pass \in [todo : Seq(Steps), obj : Zones, fresh : BOOLEAN, client : BOOLEAN,
                 image : Versions \X (0 .. 2), cert : BOOLEAN, again : BOOLEAN]
    /\ disturbances \in 0 .. MaxDisturbances

Init ==
    /\ zone = NoZone /\ cached = NoZone
    /\ cluster = NoCluster
    /\ seeded = FALSE /\ kubeconfig = FALSE /\ hubSecret = FALSE
    /\ down = {} /\ image = NoImage
    /\ pushed = 1
    /\ gateway = 0 /\ record = 0
    /\ fleet = [s \in Servers |-> IF s = Own THEN NotRegistered ELSE Floating]
    /\ config \in {Configurable, {"endpoint"}}
    /\ reachable = TRUE /\ late = FALSE /\ queued = FALSE
    /\ pass = Idle
    /\ disturbances = 0

\* A request fails, or the world changes.
Disturbed == disturbances < MaxDisturbances /\ disturbances' = disturbances + 1
Fault == Disturbed
Change == Disturbed

Working == pass.todo # <<>>
Step == Head(pass.todo)
Installing == Working /\ pass.obj.st = "live"
TearingDown == Working /\ pass.obj.st = "deleting"
NextStep == [pass EXCEPT !.todo = Tail(@)]

\* The pass's client is that of a cluster that is still there, and it answers.
Answers == reachable /\ pass.client

-----------------------------------------------------------------------------
(***************************************************************************)
(* kontinuum zone add, and the owner references it sets.                   *)
(***************************************************************************)

\* Add creates the Zone, its TalosCluster, and the pool with its seed, in this
\* order, and takes what exists for its own; it stops at a request that fails,
\* and may be run again.  A Zone that is added anew counts as a change.
Add(n, domain) ==
    /\ IF n < 3 \/ (zone.st = "absent" /\ disturbances > 0) THEN Disturbed
       ELSE UNCHANGED disturbances
    /\ zone.st = "absent" \/ (n >= 2 /\ cluster.st = "none") \/ (n = 3 /\ ~seeded)
    /\ zone' = IF zone.st = "absent" THEN [NoZone EXCEPT !.st = "live", !.domain = domain] ELSE zone
    /\ cluster' = IF n >= 2 /\ cluster.st = "none"
                  THEN [NoCluster EXCEPT !.st = "live", !.owned = TRUE] ELSE cluster
    /\ seeded' = (seeded \/ n = 3)
    /\ queued' = TRUE
    /\ UNCHANGED <<cached, kubeconfig, hubSecret, downVars, worldVars, pass>>

\* The operator deletes the Zone: at once, unless a finalizer holds it.
DeleteZone ==
    /\ zone.st = "live"
    /\ Change
    /\ zone' = IF zone.fin THEN [zone EXCEPT !.st = "deleting"] ELSE NoZone
    /\ cluster' = IF zone.fin THEN cluster ELSE [cluster EXCEPT !.owned = FALSE]
    /\ hubSecret' = (hubSecret /\ zone.fin)
    /\ pass' = [pass EXCEPT !.fresh = FALSE]
    /\ late' = FALSE
    /\ UNCHANGED <<cached, seeded, kubeconfig, downVars, pushed, fleet, config, reachable, queued>>

\* The garbage collector deletes a TalosCluster whose owner is gone.
CollectGarbage ==
    /\ cluster.st = "live" /\ ~cluster.owned
    /\ cluster' = [cluster EXCEPT !.st = "deleting"]
    /\ queued' = TRUE
    /\ UNCHANGED <<zone, cached, seeded, kubeconfig, hubSecret, downVars, worldVars, pass, disturbances>>

\* The watch delivers the Zone as it is now.
Deliver ==
    /\ cached # zone
    /\ cached' = zone
    /\ queued' = TRUE
    /\ UNCHANGED <<zone, cluster, seeded, kubeconfig, hubSecret, downVars, worldVars, pass, disturbances>>

-----------------------------------------------------------------------------
(***************************************************************************)
(* How a pass ends.                                                        *)
(***************************************************************************)

\* The pass is over; nothing of it is left but a requeue.
Return(requeue) ==
    /\ pass' = Idle
    /\ queued' = (queued \/ requeue)

\* A request to the API server failed: controller-runtime tries again.
ReturnError == Return(TRUE)

\* persistStatus: write the conditions back if they changed, which fails when
\* the copy is not the stored Zone any more.
Unwritable(conds) == conds # pass.obj.conds /\ ~pass.fresh

\* False asks for a retry, True for nothing; the schedules are folded in.
PersistAndReturn(conds, ok) ==
    /\ Return(~ok \/ pass.again \/ Unwritable(conds))
    /\ zone' = IF pass.fresh THEN [pass.obj EXCEPT !.conds = conds] ELSE zone

PersistAndGoOn(conds) ==
    \/ /\ ~Unwritable(conds)
       /\ zone' = IF pass.fresh THEN [pass.obj EXCEPT !.conds = conds] ELSE zone
       /\ pass' = [NextStep EXCEPT !.obj.conds = conds]
       /\ UNCHANGED queued
    \/ Unwritable(conds) /\ ReturnError /\ UNCHANGED zone

\* A condition that is False takes Ready with it.
SetFalse(condition) == pass.obj.conds \ {condition, "Ready"}
SetTrue(condition) == pass.obj.conds \cup {condition}

SetInstalledFalse == PersistAndReturn(SetFalse("Installed"), FALSE)

\* setRegistryJoinedCondition: Ready follows RegistryJoined both ways.
SetRegistryJoined(joined) ==
    IF joined THEN pass.obj.conds \cup {"RegistryJoined", "Ready"} ELSE SetFalse("RegistryJoined")

-----------------------------------------------------------------------------
(***************************************************************************)
(* Reconcile.                                                              *)
(***************************************************************************)

\* reconcileIdentityRotationSchedule and reconcileImageRefreshSchedule: a zone
\* with an identity is looked at every half hour, one on a floating tag more
\* often.
Schedule(obj) ==
    \/ hubSecret
    \/ "RegistryJoined" \in obj.conds /\ FindKontinuumVersion(fleet) = Floating

\* Reconcile of a live Zone: add the finalizer, look at the schedules.
ReconcileLive ==
    LET obj == [cached EXCEPT !.fin = TRUE]
        fresh == cached = zone
    IN  /\ ~Working /\ queued
        /\ cached.st = "live"
        /\ \/ /\ fresh \/ cached.fin
              /\ zone' = IF fresh THEN obj ELSE zone
              /\ pass' = [Idle EXCEPT !.todo = InstallPlan(obj.domain), !.obj = obj,
                                      !.fresh = fresh, !.again = Schedule(obj)]
              /\ queued' = FALSE
           \/ ~fresh /\ ~cached.fin /\ UNCHANGED <<zone, pass, queued>>
        /\ UNCHANGED <<cached, cluster, seeded, kubeconfig, hubSecret, downVars, worldVars, disturbances>>

\* reconcileClusterAndInstall.
CheckCluster ==
    /\ Installing /\ Step = "cluster"
    /\ \/ cluster.ready /\ PersistAndGoOn(SetTrue("ClusterReady"))
       \/ ~cluster.ready /\ PersistAndReturn(SetFalse("ClusterReady"), FALSE)
    /\ UNCHANGED <<cached, cluster, seeded, kubeconfig, hubSecret, downVars, worldVars, disturbances>>

\* loadClusterKubeconfig: the Secret the cluster's status refers to.
LoadClusterKubeconfig == kubeconfig

ResolveDigest == pushed

\* The image to deploy: a release by its tag, a floating tag by the digest
\* behind it.
ResolveImage(tag) == <<tag, IF tag = Floating THEN ResolveDigest ELSE 0>>

\* reconcileInstall up to the workload: the kubeconfig, the zone's etcd identity
\* (its downstream half, then the hub's), the endpoint of the hub, the image.
\* A digest that cannot be resolved is done without.
Prepare ==
    LET tag == FindKontinuumVersion(fleet)
        issued == LoadClusterKubeconfig /\ reachable /\ "namespace" \in down
        ready == issued /\ "endpoint" \in config /\ tag # Unreported
    IN  /\ Installing /\ Step = "prepare"
        /\ \/ /\ ready
              /\ \/ pass' = [NextStep EXCEPT !.client = TRUE, !.image = ResolveImage(tag)] /\ UNCHANGED disturbances
                 \/ pass' = [NextStep EXCEPT !.client = TRUE, !.image = <<tag, 0>>]
                    /\ tag = Floating /\ Fault
              /\ UNCHANGED <<zone, queued>>
           \/ /\ ready => Fault
              /\ ~ready => UNCHANGED disturbances
              /\ SetInstalledFalse
        /\ down' = IF issued THEN down \cup {"identity"} ELSE down
        /\ hubSecret' = (hubSecret \/ issued)
        /\ UNCHANGED <<cached, cluster, seeded, kubeconfig, image, gateway, record, worldVars>>

\* The requests of a list, one after the other, up to the first that fails.
Ensured(plan, n) ==
    /\ down' = down \cup Prefix(plan, n)
    /\ \/ n = Len(plan) /\ Answers /\ UNCHANGED <<zone, queued, disturbances>>
       \/ /\ n < Len(plan)
          /\ IF Answers THEN Fault ELSE n = 0 /\ UNCHANGED disturbances
          /\ SetInstalledFalse

\* installWorkload: create each object or bring it up to date.
EnsureWorkload ==
    /\ Installing /\ Step = "workload"
    /\ \E n \in 0 .. Len(InstallWorkload) :
           /\ Ensured(InstallWorkload, n)
           /\ n = Len(InstallWorkload) => pass' = NextStep
           /\ image' = IF "deployment" \in Prefix(InstallWorkload, n) THEN pass.image ELSE image
    /\ UNCHANGED <<cached, cluster, seeded, kubeconfig, hubSecret, gateway, record, worldVars>>

\* installNetwork, once DNS is configured: the same, and a look at the
\* certificate (certificateReady).
EnsureNetwork ==
    /\ Installing /\ Step = "network"
    /\ \/ /\ "dns" \in config
          /\ \E n \in 0 .. Len(InstallNetwork) :
                 /\ Ensured(InstallNetwork, n)
                 /\ n = Len(InstallNetwork) => pass' = [NextStep EXCEPT !.cert = "tls" \in down]
       \/ "dns" \notin config /\ SetInstalledFalse /\ UNCHANGED <<down, disturbances>>
    /\ UNCHANGED <<cached, cluster, seeded, kubeconfig, hubSecret, image, gateway, record, worldVars>>

\* reconcileDNS: publish the address of the Gateway, if it has one.  Without
\* external-dns's CRD the DNSEndpoint cannot be created.
Publishable == Answers /\ (gateway # 0 => "dnscrd" \in down)

ReconcileDNS ==
    /\ Installing /\ Step = "dns"
    /\ \/ /\ Publishable
          /\ down' = IF gateway # 0 THEN down \cup {"dnsendpoint"} ELSE down
          /\ record' = IF gateway # 0 THEN gateway ELSE record
          /\ pass' = NextStep
          /\ UNCHANGED <<zone, queued>>
       \/ ~Publishable /\ SetInstalledFalse /\ UNCHANGED <<down, record>>
    /\ UNCHANGED <<cached, cluster, seeded, kubeconfig, hubSecret, image, gateway, worldVars, disturbances>>

\* Installed, unless there is a certificate to wait for.
FinishInstall ==
    /\ Installing /\ Step = "installed"
    /\ IF pass.obj.domain => pass.cert THEN PersistAndGoOn(SetTrue("Installed")) ELSE SetInstalledFalse
    /\ UNCHANGED <<cached, cluster, seeded, kubeconfig, hubSecret, downVars, worldVars, disturbances>>

\* reconcileRegistryJoin.
ReconcileRegistryJoin ==
    LET joined == FindJoinedKontinuum(fleet)
    IN  /\ Installing /\ Step = "join"
        /\ PersistAndReturn(SetRegistryJoined(joined), joined)
        /\ UNCHANGED <<cached, cluster, seeded, kubeconfig, hubSecret, downVars, worldVars, disturbances>>

-----------------------------------------------------------------------------
(***************************************************************************)
(* reconcileTeardown.                                                      *)
(***************************************************************************)

\* Mutant: the teardown never gives up.
NeverTimedOut == FALSE

TeardownTimedOut == late

\* Reconcile of a Zone that is being deleted.  One that timed out, or whose
\* cluster is gone, is let go.
ReconcileTeardown ==
    /\ ~Working /\ queued
    /\ cached.st = "deleting"
    /\ pass' = [Idle EXCEPT !.todo = IF TeardownTimedOut \/ cluster.st = "none"
                                     THEN <<"finalizer">> ELSE TeardownPlan,
                            !.obj = cached, !.fresh = (cached = zone)]
    /\ queued' = FALSE
    /\ UNCHANGED <<hubVars, downVars, worldVars, disturbances>>

Uninstall == UninstallNetwork \o UninstallWorkload

\* The deletes of uninstallNetwork and uninstallWorkload, up to the n-th.
Uninstalled(n) ==
    LET gone == Prefix(Uninstall, n)
    IN  /\ down' = Without(down, gone)
        /\ image' = IF "deployment" \in gone THEN NoImage ELSE image
        /\ gateway' = IF "gateway" \in gone THEN 0 ELSE gateway
        /\ record' = IF "dnsendpoint" \in gone THEN 0 ELSE record

\* Mutant: a delete that fails is passed over.
TeardownRegardless ==
    /\ TearingDown /\ Step = "downstream"
    /\ \E n \in 0 .. Len(Uninstall) :
           /\ Uninstalled(n)
           /\ n < Len(Uninstall) /\ kubeconfig /\ reachable => Fault
           /\ ~(n < Len(Uninstall) /\ kubeconfig /\ reachable) => UNCHANGED disturbances
    /\ pass' = [NextStep EXCEPT !.client = kubeconfig]
    /\ UNCHANGED <<hubVars, worldVars, queued>>

\* teardownDownstream: whatever keeps the kubeconfig from being loaded, there is
\* nothing to tear down; a delete that fails has the whole teardown repeated.
TeardownDownstream ==
    /\ TearingDown /\ Step = "downstream"
    /\ \/ /\ kubeconfig => Fault
          /\ ~kubeconfig => UNCHANGED disturbances
          /\ pass' = NextStep
          /\ UNCHANGED <<downVars, queued>>
       \/ /\ kubeconfig /\ reachable /\ Deletable(down)
          /\ Uninstalled(Len(Uninstall))
          /\ pass' = [NextStep EXCEPT !.client = TRUE]
          /\ UNCHANGED <<queued, disturbances>>
       \/ /\ kubeconfig
          /\ \E n \in 0 .. Len(Uninstall) - 1 :
                 /\ Uninstalled(n)
                 /\ IF reachable /\ Deletable(down) THEN Fault ELSE n = 0 /\ UNCHANGED disturbances
          /\ ReturnError
    /\ UNCHANGED <<hubVars, worldVars>>

\* Delete the TalosCluster; its own controller takes it from here.
DeleteCluster ==
    /\ TearingDown /\ Step = "cluster"
    /\ \/ /\ cluster' = IF cluster.st = "live" THEN [cluster EXCEPT !.st = "deleting"] ELSE cluster
          /\ pass' = NextStep
          /\ UNCHANGED <<queued, disturbances>>
       \/ Fault /\ ReturnError /\ UNCHANGED cluster
    /\ UNCHANGED <<zone, cached, seeded, kubeconfig, hubSecret, downVars, worldVars>>

\* removeFinalizer: the Zone goes, and the Secret it owns with it.
RemoveFinalizer ==
    /\ TearingDown /\ Step = "finalizer"
    /\ \/ /\ pass.fresh
          /\ zone' = NoZone
          /\ cluster' = [cluster EXCEPT !.owned = FALSE]
          /\ hubSecret' = FALSE
          /\ Return(FALSE)
       \/ ~pass.fresh /\ ReturnError /\ UNCHANGED <<zone, cluster, hubSecret>>
    /\ UNCHANGED <<cached, seeded, kubeconfig, downVars, worldVars, disturbances>>

\* A request for a Zone the cache does not know is dropped.
ReconcileNotFound ==
    /\ ~Working /\ queued
    /\ cached.st = "absent"
    /\ queued' = FALSE
    /\ UNCHANGED <<hubVars, downVars, worldVars, pass, disturbances>>

\* The controller's process dies, and the one that takes over starts from a
\* list of all Zones; the operator may have reconfigured it.
Crash ==
    /\ Fault
    /\ pass' = Idle
    /\ cached' = zone
    /\ queued' = TRUE
    /\ config' \in {config, Configurable}
    /\ UNCHANGED <<zone, cluster, seeded, kubeconfig, hubSecret, downVars, pushed, fleet, reachable, late>>

-----------------------------------------------------------------------------
(***************************************************************************)
(* The world: the cluster and its add-ons, the servers, the internet.      *)
(***************************************************************************)

\* The TalosCluster is bootstrapped: its kubeconfig is stored before there is
\* any add-on.
ClusterBoots ==
    /\ cluster.st = "live" /\ seeded /\ ~kubeconfig
    /\ kubeconfig' = TRUE
    /\ UNCHANGED <<zone, cached, cluster, seeded, hubSecret, downVars, worldVars, queued, pass, disturbances>>

\* It becomes Ready, its add-ons included, or stops being so.
ClusterReady ==
    /\ cluster.st = "live" /\ kubeconfig /\ ~cluster.ready
    /\ cluster' = [cluster EXCEPT !.ready = TRUE]
    /\ down' = down \cup {"namespace"} \cup IF "dns" \in config THEN ExternalDNS ELSE {}
    /\ queued' = TRUE
    /\ UNCHANGED <<zone, cached, seeded, kubeconfig, hubSecret, image, gateway, record, worldVars, pass,
                   disturbances>>

ClusterDegrades ==
    /\ cluster.st # "none" /\ cluster.ready
    /\ Change
    /\ cluster' = [cluster EXCEPT !.ready = FALSE]
    /\ queued' = TRUE
    /\ UNCHANGED <<zone, cached, seeded, kubeconfig, hubSecret, downVars, worldVars, pass>>

\* Its teardown is over: the machines are wiped, the Secret is collected.
ClusterGone ==
    /\ cluster.st = "deleting"
    /\ cluster' = NoCluster
    /\ seeded' = FALSE /\ kubeconfig' = FALSE
    /\ down' = {} /\ image' = NoImage /\ gateway' = 0 /\ record' = 0
    /\ queued' = TRUE
    /\ pass' = [pass EXCEPT !.client = FALSE]
    /\ UNCHANGED <<zone, cached, hubSecret, worldVars, disturbances>>

\* The Gateway gets its address, and later another one.
AssignAddress ==
    /\ "gateway" \in down /\ gateway = 0
    /\ gateway' = 1
    /\ UNCHANGED <<hubVars, down, image, record, worldVars, queued, pass, disturbances>>

ChangeAddress ==
    /\ gateway = 1 /\ Change
    /\ gateway' = 2
    /\ UNCHANGED <<hubVars, down, image, record, worldVars, queued, pass>>

\* cert-manager answers the challenge under the name the record publishes.
IssueCertificate ==
    /\ {"issuer", "certificate", "gateway", "dnsendpoint"} \subseteq down
    /\ record = gateway /\ gateway # 0
    /\ "tls" \notin down
    /\ down' = down \cup {"tls"}
    /\ UNCHANGED <<hubVars, image, gateway, record, worldVars, queued, pass, disturbances>>

LoseCertificate ==
    /\ "tls" \in down /\ Change
    /\ down' = down \ {"tls"}
    /\ UNCHANGED <<hubVars, image, gateway, record, worldVars, queued, pass>>

\* The events the controller gets of a Kontinuum: every one of the zone's own
\* (mapKontinuumToZone), and of the others a new version, but not a deletion
\* (kontinuumVersionChangedPredicate).
Notified(s, v) == queued' = (queued \/ s = Own \/ (v \notin {NotRegistered, Unreported} /\ v # fleet[s]))

Report(s, v) ==
    /\ fleet' = [fleet EXCEPT ![s] = v]
    /\ Notified(s, v)
    /\ UNCHANGED <<hubVars, downVars, pushed, config, reachable, late, pass>>

\* The zone's server registers, and reports the version it runs.
ServerBeats ==
    /\ {"deployment"} \cup PodNeeds \subseteq down /\ hubSecret
    /\ \/ fleet[Own] = NotRegistered /\ Report(Own, Unreported)
       \/ fleet[Own] # NotRegistered /\ fleet[Own] # image[1] /\ Report(Own, image[1])
    /\ UNCHANGED disturbances

\* It is silent for too long, and forgotten; for good once it is gone.
ServerForgotten ==
    /\ fleet[Own] # NotRegistered /\ "deployment" \in down /\ Change
    /\ Report(Own, NotRegistered)

ServerReaped ==
    /\ fleet[Own] # NotRegistered /\ "deployment" \notin down
    /\ Report(Own, NotRegistered)
    /\ UNCHANGED disturbances

\* Another server starts, is upgraded or rolled back, or leaves.
FleetChanges ==
    /\ Change
    /\ \E s \in Servers \ {Own} :
           \/ fleet[s] = NotRegistered /\ Report(s, Unreported)
           \/ fleet[s] # NotRegistered
              /\ \E v \in {Floating, MaxVersion, NotRegistered} : v # fleet[s] /\ Report(s, v)

PushImage ==
    /\ pushed = 1 /\ image[1] = Floating /\ Change
    /\ pushed' = 2
    /\ UNCHANGED <<hubVars, downVars, fleet, config, reachable, late, queued, pass>>

\* The zone's cluster stops answering, for a while or for good.
Unreachable ==
    /\ reachable /\ cluster.ready /\ Change
    /\ reachable' = FALSE
    /\ UNCHANGED <<hubVars, downVars, pushed, fleet, config, late, queued, pass>>

Reachable ==
    /\ ~reachable /\ Change
    /\ reachable' = TRUE
    /\ UNCHANGED <<hubVars, downVars, pushed, fleet, config, late, queued, pass>>

\* TeardownTimeout passes.
Deadline ==
    /\ zone.st = "deleting" /\ ~late
    /\ late' = TRUE
    /\ UNCHANGED <<hubVars, downVars, pushed, fleet, config, reachable, queued, pass, disturbances>>

-----------------------------------------------------------------------------
Reconcile ==
    \/ ReconcileLive \/ CheckCluster \/ Prepare \/ EnsureWorkload \/ EnsureNetwork
    \/ ReconcileDNS \/ FinishInstall \/ ReconcileRegistryJoin
    \/ ReconcileTeardown \/ TeardownDownstream \/ DeleteCluster \/ RemoveFinalizer
    \/ ReconcileNotFound

World ==
    \/ DeleteZone \/ CollectGarbage \/ ClusterBoots \/ ClusterReady \/ ClusterDegrades \/ ClusterGone
    \/ AssignAddress \/ ChangeAddress \/ IssueCertificate \/ LoseCertificate
    \/ ServerBeats \/ ServerForgotten \/ ServerReaped \/ FleetChanges \/ PushImage
    \/ Unreachable \/ Reachable \/ Deadline

Next ==
    \/ \E n \in 1 .. 3, domain \in BOOLEAN : Add(n, domain)
    \/ Deliver \/ Reconcile \/ Crash
    \/ World

Spec == Init /\ [][Next]_vars

\* The worker and the watch run for as long as the process does, a cluster with
\* its machines gets ready and, once deleted, goes, cert-manager and the load
\* balancer do their work, a pod that can run beats and one that is gone is
\* reaped.  Nobody is assumed to add, delete or repair.
PatientSpec ==
    /\ Spec
    /\ WF_vars(Reconcile) /\ WF_vars(Deliver)
    /\ WF_vars(CollectGarbage) /\ WF_vars(ClusterBoots) /\ WF_vars(ClusterReady) /\ WF_vars(ClusterGone)
    /\ WF_vars(AssignAddress) /\ WF_vars(IssueCertificate)
    /\ WF_vars(ServerBeats) /\ WF_vars(ServerReaped)

\* ... and deadlines pass.
FairSpec == PatientSpec /\ WF_vars(Deadline)

-----------------------------------------------------------------------------
(***************************************************************************)
(* Properties.                                                             *)
(***************************************************************************)

\* A Deployment is never without what its pod needs: the namespace, the etcd
\* identity, the environment and the account to read the identity with.  Install
\* and teardown order their requests for it, and either may stop anywhere and
\* be taken up again, or be followed by the other.
PodHasItsParts == "deployment" \in down => PodNeeds \subseteq down

\* The controller deletes the TalosCluster of a Zone only when nothing but
\* what the add-ons put there is left on it, or when it could not load the
\* kubeconfig, however often the teardown before was cut short
\* (teardown.go's reconcileTeardown).
TornDownFirst ==
    [][(TearingDown /\ Step = "cluster" /\ cluster'.st # cluster.st)
         => \/ down \subseteq AddonObjects
            \/ ~pass.client]_vars

\* What the world has to offer for a zone to come up: a cluster that is ready
\* and answers, a hub that is configured for it, and was when the cluster's
\* add-ons were seeded, and a version to install.
Provided ==
    /\ cluster.ready /\ kubeconfig /\ reachable
    /\ "endpoint" \in config
    /\ zone.domain => "dns" \in config /\ "dnscrd" \in down
    /\ FindKontinuumVersion(fleet) # Unreported

\* Once the world leaves a Zone alone, it becomes and stays Ready if all that is
\* provided, certificate and registration included, and is not Ready otherwise:
\* no change goes by that no event, retry or schedule makes the controller look
\* at, and no two steps wait for each other.
StatusSettles == <>[](zone.st = "live" => ("Ready" \in zone.conds <=> Provided))

\* ... and a zone that is provided for comes to run a version no server of the
\* fleet is ahead of, whichever of them come, go or lag behind, at the digest
\* its tag has now, under the address its Gateway has now.  Its own server must
\* have done reporting, too: one whose first report comes between the pass's
\* reading of the fleet and its write of the Deployment is replaced by the
\* version read before, time and again.
FootprintFollows ==
    <>[][UNCHANGED fleet]_fleet =>
    <>[]((zone.st = "live" /\ Provided)
           => /\ \A s \in Registered(fleet) : Precedence(fleet[s]) <= Precedence(image[1])
              /\ image[1] = Floating => image[2] = pushed
              /\ zone.domain => record = gateway)

\* A Zone that is deleted goes, even if its cluster never answers again.
TeardownEnds == (zone.st = "deleting") ~> (zone.st # "deleting")

\* What the comments on teardownDownstream and IgnoreNotFoundOrNoMatch say:
\* the timeout is for a cluster that does not answer; one that does is torn
\* down without it, "addon install failing, or genuinely never getting that
\* far" being no "real failure".  The DNSEndpoint's delete is one: without
\* external-dns the deleted Zone waits for its timeout.
TeardownUnaided ==
    (zone.st = "deleting" /\ reachable) ~> (zone.st # "deleting" \/ ~reachable \/ late)
=============================================================================
