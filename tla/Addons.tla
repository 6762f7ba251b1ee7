------------------------------- MODULE Addons -------------------------------
(***************************************************************************)
(* pkg/domain/addon with its caller reconcileAddons in                     *)
(* pkg/domain/taloscluster/controller.go: the cluster's controller seeds   *)
(* Addons and reports Ready once all of them are; the add-on controller    *)
(* copies an Addon's Secrets to the cluster, installs its chart, waits for *)
(* the chart's CRDs and pods, and comes back for ever, because nothing on  *)
(* the cluster wakes it.                                                   *)
(*                                                                         *)
(* One worker reconciles all Addons.  Its reads of the hub come from the   *)
(* informer cache; an Update from a copy that is not the stored object is  *)
(* refused.  The zone lease (see ZoneLease) admits one process at a time.  *)
(***************************************************************************)
EXTENDS Integers, Sequences, FiniteSets

CONSTANTS
    Builtins,        \* builtinAddonNames, in order
    Dns,             \* the external-dns add-on
    Cni,             \* Cilium: the nodes are not ready without it
    NoAddon,         \* no add-on
    Priority,        \* spec.lifecycle.priority, 0 if not set
    WithHelm,        \* provisioned by HelmUpgradeInstall, others by KubectlApply
    WithCRDs,        \* charts that declare CRDs
    WithPods,        \* charts that have workloads
    Scaled,          \* charts with values computed from the control plane's size
    MaxDisturbances  \* bound: edits, failures and restarts

Addon == {Builtins[i] : i \in 1..Len(Builtins)} \cup {Dns}

ASSUME AddonsAssumption ==
    /\ Dns \notin {Builtins[i] : i \in 1..Len(Builtins)}
    /\ Cni \in Addon /\ NoAddon \notin Addon
    /\ Priority \in [Addon -> Nat]
    /\ WithHelm \subseteq Addon /\ WithCRDs \subseteq Addon
    /\ WithPods \subseteq Addon /\ Scaled \subseteq Addon
    /\ MaxDisturbances \in Nat

VARIABLES
    addon,       \* the stored Addons
    cached,      \* the informer's copies of them
    addonQueue,  \* Addons with an event or a timer of the controller pending
    worker,      \* the add-on reconcile
    talosCluster,\* the TalosCluster: kubeconfig stored, Ready,
                 \* ControlPlaneReady, and where its reconcile is
    credential,  \* version of the configured DNS credential
    hubSecret,   \* version in the hub's credential Secret, 0 without one
    size,        \* Discovered control-plane instances
    copied,      \* version in the Secret copied to the cluster, 0 without one
    release,     \* what is installed of each chart
    crds,        \* the charts' CRDs
    pods,        \* the charts' pods
    disturbances \* bound

hub == <<addon, cached, credential, hubSecret, size>>
target == <<copied, release, crds, pods>>
addonVars == <<hub, addonQueue, worker, talosCluster, target, disturbances>>

\* spec stands for chart and values; Ready is "none" before the first setReady.
Absent == [exists |-> FALSE, enabled |-> FALSE, spec |-> 0, ready |-> "none"]
Objects == [exists : BOOLEAN, enabled : BOOLEAN, spec : 0..MaxDisturbances + 1,
            ready : {"none", "true", "false"}]
Seeded(spec) == [exists |-> TRUE, enabled |-> TRUE, spec |-> spec, ready |-> "none"]

\* EffectivePriority
EffectivePriority(a) == IF Priority[a] = 0 THEN 100 ELSE Priority[a]

Enabled(obj) == obj.exists /\ obj.enabled

\* InstallRequest: what the Addon asks for, with the computed values.
Requests == [spec : 0..MaxDisturbances + 1, replicas : 1..2]
NoRequest == [spec |-> 0, replicas |-> 1]

\* EvaluateComputedValues: the expression operator.replicas of
\* values/cilium.yaml over controlPlaneMemberCount.
Computed(a) == IF a \in Scaled /\ size > 1 THEN 2 ELSE 1

\* resolveAddon
Request(spec, a) == [spec |-> spec, replicas |-> Computed(a)]

\* The TalosCluster's conditions, and the part of its reconcile under way.
TalosClusters == [kubeconfig : BOOLEAN, ready : BOOLEAN, cpReady : BOOLEAN,
                  step : {"seed", "aggregate"}]

Idle == [pc |-> "idle", cur |-> NoAddon, copy |-> Absent, siblings |-> {},
         req |-> NoRequest, ready |-> "none"]

AddonsInit ==
    /\ addon = [a \in Addon |-> Absent] /\ cached = addon
    /\ addonQueue = {}
    /\ worker = Idle
    /\ talosCluster = [kubeconfig |-> FALSE, ready |-> FALSE, cpReady |-> FALSE,
                       step |-> "seed"]
    /\ credential = 1 /\ hubSecret = 0 /\ copied = 0
    /\ size = 1
    /\ release = [a \in Addon |-> [state |-> "none", req |-> NoRequest]]
    /\ crds = [a \in Addon |-> "none"] /\ pods = [a \in Addon |-> "none"]
    /\ disturbances = 0

AddonsTypeOK ==
    /\ addon \in [Addon -> Objects] /\ cached \in [Addon -> Objects]
    /\ addonQueue \subseteq Addon
    /\ worker \in [pc : {"idle", "secrets", "install", "finish", "crds", "probe", "status"},
                   cur : Addon \cup {NoAddon}, copy : Objects, siblings : SUBSET Addon,
                   req : Requests, ready : {"none", "true", "false"}]
    /\ talosCluster \in TalosClusters
    /\ {credential, hubSecret, copied} \subseteq 0..MaxDisturbances + 1
    /\ size \in 1..2
    /\ release \in [Addon -> [state : {"none", "pending", "failed", "deployed"}, req : Requests]]
    /\ crds \in [Addon -> {"none", "created", "established"}]
    /\ pods \in [Addon -> {"none", "starting", "healthy", "broken"}]
    /\ disturbances \in 0..MaxDisturbances

Disturb == disturbances < MaxDisturbances /\ disturbances' = disturbances + 1
-----------------------------------------------------------------------------
\* TalosCluster: reconcileAddons

\* Both conditions true: from now on Reconcile only rechecks the control
\* plane's health.
Latched == talosCluster.ready /\ talosCluster.cpReady

\* Reconcile calls reconcileAddons, from bootstrapAndCheckHealth until
\* ControlPlaneReady and by itself until Ready.
Converging == talosCluster.kubeconfig /\ ~Latched /\ talosCluster.step = "seed"

\* The Addons EnsureBuiltinSeeds finds missing in its cache, up to the n-th.
\* One the cache does not have yet is created once more, to no effect.
Missing(n) == {Builtins[i] : i \in 1..n} \cap {a \in Addon : ~cached[a].exists /\ ~addon[a].exists}

\* Mutant: the external-dns Addon is create-only like the others.
DnsSeedOnce(obj) ==
    IF obj[Dns].exists THEN obj ELSE [obj EXCEPT ![Dns] = Seeded(credential)]

\* ensureExternalDNSAddon: created, or its spec replaced.
DnsSeed(obj) ==
    IF obj[Dns].exists THEN [obj EXCEPT ![Dns].spec = credential]
                       ELSE [obj EXCEPT ![Dns] = Seeded(credential)]

WithSeeds(n) == [a \in Addon |-> IF a \in Missing(n) THEN Seeded(1) ELSE addon[a]]

\* EnsureBuiltinSeeds and seedExternalDNS: the Secret first, then the Addon
\* that refers to it.
Seed ==
    /\ Converging
    /\ hubSecret' = credential
    /\ \/ /\ cached[Dns].exists /\ cached[Dns] # addon[Dns] /\ cached[Dns].spec # credential
          /\ addon' = WithSeeds(Len(Builtins))  \* the Update is refused
          /\ UNCHANGED talosCluster
       \/ /\ ~(cached[Dns].exists /\ cached[Dns] # addon[Dns])
          /\ addon' = IF ~cached[Dns].exists /\ addon[Dns].exists
                      THEN WithSeeds(Len(Builtins)) ELSE DnsSeed(WithSeeds(Len(Builtins)))
          /\ talosCluster' = [talosCluster EXCEPT !.step = "aggregate"]
       \/ /\ cached[Dns].exists /\ cached[Dns] # addon[Dns] /\ cached[Dns].spec = credential
          /\ addon' = WithSeeds(Len(Builtins))  \* nothing to update
          /\ talosCluster' = [talosCluster EXCEPT !.step = "aggregate"]
    /\ UNCHANGED <<cached, credential, size, addonQueue, worker, target, disturbances>>

\* One of the seeds' requests fails.
SeedFails ==
    /\ Disturb
    /\ Converging
    /\ \E n \in 0..Len(Builtins) :
        /\ addon' = WithSeeds(n)
        /\ hubSecret' \in IF n = Len(Builtins) THEN {hubSecret, credential} ELSE {hubSecret}
    /\ UNCHANGED <<cached, credential, size, addonQueue, worker, talosCluster, target>>

\* podHealthy over all pods of the release.
PodsHealthy(a) == pods[a] = "healthy"

\* Mutant: only Addons that reported count.
AllReadyReported == \A a \in Addon : Enabled(cached[a]) => cached[a].ready # "false"

\* Mutant: disabled Addons count.
AllReadyDisabled == \A a \in Addon : cached[a].exists => cached[a].ready = "true"

\* Every enabled Addon of the cluster has Ready true.
AllReady == \A a \in Addon : Enabled(cached[a]) => cached[a].ready = "true"

\* The rest of reconcileAddons, Ready set or taken back, and, before
\* ControlPlaneReady, of bootstrapAndCheckHealth: with Cilium running the
\* control plane may be healthy (see ClusterBootstrap), which is for good.
Aggregate ==
    /\ talosCluster.step = "aggregate"
    /\ \E healthy \in {talosCluster.cpReady, talosCluster.cpReady \/ PodsHealthy(Cni)} :
        talosCluster' = [talosCluster EXCEPT !.step = "seed", !.ready = AllReady,
                                             !.cpReady = healthy]
    /\ UNCHANGED <<hub, addonQueue, worker, target, disturbances>>

\* storeKubeconfig (see ClusterBootstrap).
StoreKubeconfig ==
    /\ ~talosCluster.kubeconfig
    /\ talosCluster' = [talosCluster EXCEPT !.kubeconfig = TRUE]
    /\ UNCHANGED <<hub, addonQueue, worker, target, disturbances>>

\* The watch on Addons wakes the controller.
DeliverAddons ==
    /\ cached # addon
    /\ cached' = addon
    /\ addonQueue' = addonQueue \cup {a \in Addon : cached[a] # addon[a]}
    /\ UNCHANGED <<addon, credential, hubSecret, size, worker, talosCluster, target, disturbances>>
-----------------------------------------------------------------------------
\* Reconciler

\* The enabled siblings of an earlier wave.
Earlier(a, objs) ==
    {b \in Addon : Enabled(objs[b]) /\ EffectivePriority(b) < EffectivePriority(a)}

\* waitForEarlierWaves
EarlierReady(a) == \A b \in Earlier(a, cached) : cached[b].ready = "true"

\* readyKubeconfig: whatever keeps it from being loaded counts as not
\* bootstrapped yet.  The cluster is there throughout.
ReadyKubeconfig == talosCluster.kubeconfig

\* Reconcile up to installAndVerify.  A disabled Addon is dropped; one that
\* has to wait, for an earlier wave or for the kubeconfig, keeps its status
\* and gets a timer.
Reconcile(a) ==
    /\ worker = Idle /\ a \in addonQueue
    /\ \/ /\ ~Enabled(cached[a])
          /\ addonQueue' = addonQueue \ {a}
          /\ UNCHANGED worker
       \/ /\ Enabled(cached[a]) /\ EarlierReady(a) /\ ReadyKubeconfig
          /\ addonQueue' = addonQueue \ {a}
          /\ worker' = [pc |-> "secrets", cur |-> a, copy |-> cached[a],
                        siblings |-> Earlier(a, cached),
                        req |-> Request(cached[a].spec, a), ready |-> "none"]
    /\ UNCHANGED <<hub, talosCluster, target, disturbances>>

\* The reconcile ends with Ready to be set to status.
SetReadyNext(status) == worker' = [worker EXCEPT !.pc = "status", !.ready = status]

\* It ends with an error, which a rate limiter queues again.
Return ==
    /\ worker' = Idle
    /\ addonQueue' = addonQueue \cup {worker.cur}

\* The Secrets an add-on's spec lists.
HasSecrets(a) == a = Dns

\* syncSecrets: what fetchAddonSecrets finds on the hub is copied over what
\* the cluster has; a Secret the hub lacks is reported, not installed over.
SyncSecrets ==
    /\ worker.pc = "secrets"
    /\ \/ /\ HasSecrets(worker.cur) /\ hubSecret # 0
          /\ copied' = hubSecret
          /\ worker' = [worker EXCEPT !.pc = "install"]
       \/ /\ ~HasSecrets(worker.cur)
          /\ worker' = [worker EXCEPT !.pc = "install"]
          /\ UNCHANGED copied
       \/ /\ HasSecrets(worker.cur) /\ hubSecret = 0
          /\ SetReadyNext("false")
          /\ UNCHANGED copied
    /\ UNCHANGED <<hub, addonQueue, talosCluster, release, crds, pods, disturbances>>

\* Mutant: what is deployed is not upgraded.
InstallOnce ==
    /\ worker.pc = "install"
    /\ worker' = [worker EXCEPT !.pc = IF release[worker.cur].state = "deployed"
                                       THEN "crds" ELSE "finish"]
    /\ UNCHANGED <<hub, addonQueue, talosCluster, target, disturbances>>

\* installViaHelm up to its first write: a pending revision.  Helm refuses
\* to touch a release that has one.
StartHelm(a) ==
    /\ a \in WithHelm
    /\ UNCHANGED crds
    /\ \/ /\ release[a].state # "pending"
          /\ release' = [release EXCEPT ![a].state = "pending"]
          /\ worker' = [worker EXCEPT !.pc = "finish"]
       \/ /\ release[a].state = "pending"
          /\ SetReadyNext("false")
          /\ UNCHANGED release

\* What applying a chart makes of its CRDs.
CRDsApplied(a) == [crds EXCEPT ![a] = IF a \in WithCRDs /\ @ = "none" THEN "created" ELSE @]

\* installViaKubectlApply: the rendered documents are applied one by one,
\* CRDs first.
StartApply(a) ==
    /\ a \notin WithHelm
    /\ crds' = CRDsApplied(a)
    /\ worker' = [worker EXCEPT !.pc = "finish"]
    /\ UNCHANGED release

Install ==
    /\ worker.pc = "install"
    /\ StartHelm(worker.cur) \/ StartApply(worker.cur)
    /\ UNCHANGED <<hub, addonQueue, talosCluster, copied, pods, disturbances>>

\* installRelease, upgradeRelease or applyManifest ends, without waiting for
\* anything to start.  Pods are replaced if what they run has changed.
FinishInstall ==
    LET a == worker.cur
    IN  /\ worker.pc = "finish"
        /\ release' = [release EXCEPT ![a] = [state |-> "deployed", req |-> worker.req]]
        /\ crds' = CRDsApplied(a)
        /\ pods' = [pods EXCEPT ![a] = IF a \in WithPods /\ release[a].req # worker.req
                                       THEN "starting" ELSE @]
        /\ worker' = [worker EXCEPT !.pc = "crds"]
        /\ UNCHANGED <<hub, addonQueue, talosCluster, copied, disturbances>>

\* Mutant: a created CRD is taken for a served one.
ChartCRDsReadyCreated ==
    /\ worker.pc = "crds"
    /\ worker' = [worker EXCEPT !.pc = "probe"]
    /\ UNCHANGED <<hub, addonQueue, talosCluster, target, disturbances>>

\* crdsReady for the CRDs chartCRDs finds in the rendered chart: each has to
\* be Established and discoverable.
CRDsReady(a) == a \in WithCRDs => crds[a] = "established"

\* ChartCRDsReady
ChartCRDsReady ==
    /\ worker.pc = "crds"
    /\ \/ CRDsReady(worker.cur) /\ worker' = [worker EXCEPT !.pc = "probe"]
       \/ ~CRDsReady(worker.cur) /\ SetReadyNext("false")
    /\ UNCHANGED <<hub, addonQueue, talosCluster, target, disturbances>>

\* HasWorkloadControllers
HasWorkloadControllers(a) == a \in WithPods /\ release[a].req # NoRequest

\* NamespaceHealthy: no pods are healthy only if nothing would create any.
NamespaceHealthy(a) == IF pods[a] = "none" THEN ~HasWorkloadControllers(a) ELSE PodsHealthy(a)

\* probeHealthy
ProbeHealthy ==
    /\ worker.pc = "probe"
    /\ SetReadyNext(IF NamespaceHealthy(worker.cur) THEN "true" ELSE "false")
    /\ UNCHANGED <<hub, addonQueue, talosCluster, target, disturbances>>

\* setReady: written if it is news and the copy is current.  Whatever comes
\* of it the Addon is visited again.
SetReady ==
    /\ worker.pc = "status"
    /\ addonQueue' = addonQueue \cup {worker.cur}
    /\ worker' = Idle
    /\ addon' = IF worker.copy = addon[worker.cur]
                THEN [addon EXCEPT ![worker.cur].ready = worker.ready] ELSE addon
    /\ UNCHANGED <<cached, credential, hubSecret, size, talosCluster, target, disturbances>>

WorkerStep ==
    SyncSecrets \/ Install \/ FinishInstall \/ ChartCRDsReady \/ ProbeHealthy \/ SetReady

\* A request to the cluster fails or times out.  Copying and installing
\* report it in the status, the two checks return it.
StepFails ==
    /\ Disturb
    /\ \/ /\ worker.pc \in {"secrets", "install"}
          /\ SetReadyNext("false")
          /\ UNCHANGED <<addonQueue, release>>
       \/ /\ worker.pc = "finish"
          /\ release' = IF worker.cur \in WithHelm
                        THEN [release EXCEPT ![worker.cur].state = "failed"] ELSE release
          /\ SetReadyNext("false")
          /\ UNCHANGED addonQueue
       \/ /\ worker.pc \in {"crds", "probe"}
          /\ Return
          /\ UNCHANGED release
    /\ UNCHANGED <<hub, talosCluster, copied, crds, pods>>
-----------------------------------------------------------------------------
\* The process restarts, perhaps with another credential: the caches are
\* filled anew and every Addon is visited.
Restart ==
    /\ Disturb
    /\ worker' = Idle
    /\ cached' = addon
    /\ addonQueue' = {a \in Addon : addon[a].exists}
    /\ talosCluster' = [talosCluster EXCEPT !.step = "seed"]
    /\ credential' \in {credential, credential + 1}
    /\ UNCHANGED <<addon, hubSecret, size, target>>

\* A user changes an Addon.
EditAddon(a) ==
    /\ Disturb
    /\ addon[a].exists
    /\ \/ addon' = [addon EXCEPT ![a].enabled = ~@]
       \/ a # Dns /\ addon' = [addon EXCEPT ![a].spec = @ + 1]
    /\ UNCHANGED <<cached, credential, hubSecret, size, addonQueue, worker, talosCluster, target>>

\* Somebody deletes the credential Secret on the hub.
DeleteSecret ==
    /\ Disturb
    /\ hubSecret # 0
    /\ hubSecret' = 0
    /\ UNCHANGED <<addon, cached, credential, size, addonQueue, worker, talosCluster, target>>

\* The control plane's pool grows or shrinks.
Resize ==
    /\ Disturb
    /\ size' = 3 - size
    /\ UNCHANGED <<addon, cached, credential, hubSecret, addonQueue, worker, talosCluster, target>>

\* The cluster's apiserver serves a CRD.
Establish(a) ==
    /\ crds[a] = "created"
    /\ crds' = [crds EXCEPT ![a] = "established"]
    /\ UNCHANGED <<hub, addonQueue, worker, talosCluster, copied, release, pods, disturbances>>

PodsStart(a) ==
    /\ pods[a] = "starting"
    /\ pods' = [pods EXCEPT ![a] = "healthy"]
    /\ UNCHANGED <<hub, addonQueue, worker, talosCluster, copied, release, crds, disturbances>>

PodsBreak(a) ==
    /\ Disturb
    /\ pods[a] \in {"starting", "healthy"}
    /\ pods' = [pods EXCEPT ![a] = "broken"]
    /\ UNCHANGED <<hub, addonQueue, worker, talosCluster, copied, release, crds>>

PodsRecover(a) ==
    /\ pods[a] = "broken"
    /\ pods' = [pods EXCEPT ![a] = "healthy"]
    /\ UNCHANGED <<hub, addonQueue, worker, talosCluster, copied, release, crds, disturbances>>

AddonsNext ==
    \/ Seed \/ SeedFails \/ Aggregate \/ StoreKubeconfig \/ DeliverAddons
    \/ WorkerStep \/ StepFails \/ Restart \/ DeleteSecret \/ Resize
    \/ \E a \in Addon :
        Reconcile(a) \/ EditAddon(a) \/ Establish(a) \/ PodsStart(a) \/ PodsBreak(a) \/ PodsRecover(a)

AddonsSpec == AddonsInit /\ [][AddonsNext]_addonVars

\* The workqueue is first in, first out, so every queued Addon gets its turn
\* (SF: the worker is busy in between); the target cluster makes progress.
AddonsFairSpec ==
    /\ AddonsSpec
    /\ WF_addonVars(Seed) /\ WF_addonVars(Aggregate) /\ WF_addonVars(StoreKubeconfig)
    /\ WF_addonVars(DeliverAddons) /\ WF_addonVars(WorkerStep)
    /\ \A a \in Addon :
        SF_addonVars(Reconcile(a)) /\ WF_addonVars(Establish(a)) /\ WF_addonVars(PodsStart(a))
-----------------------------------------------------------------------------
\* A chart is installed for the first time only after the CRDs of all
\* add-ons of earlier waves, as the reconcile saw them, are served: Ready of
\* a sibling, read from a cache, set by an earlier reconcile, has to mean so.
WavesInOrder ==
    [][\A a \in Addon :
        release[a].state = "none" /\ release'[a].state # "none" =>
            \A b \in worker.siblings \cap WithCRDs : crds[b] = "established"]_addonVars

\* If the cache has all Addons when the cluster turns Ready, every enabled
\* one has been installed and its CRDs are served: what the zone's own
\* installation relies on.
ReadyClusterHasAddons ==
    [][~talosCluster.ready /\ talosCluster'.ready /\ cached = addon =>
        \A a \in Addon : Enabled(addon[a]) =>
            /\ release[a].req # NoRequest
            /\ a \in WithCRDs => crds[a] = "established"]_addonVars

\* A Helm release left pending by a process that died: nothing here rolls it
\* back, so its add-on reports InstallFailed until someone does.
Wedged(a) == release[a].state = "pending"

\* An earlier wave that is not Ready holds an add-on where it is.
Blocked(a) == \E b \in Earlier(a, addon) : addon[b].ready # "true"

Current(a) ==
    /\ release[a] = [state |-> "deployed", req |-> Request(addon[a].spec, a)]
    /\ a = Dns => copied = hubSecret

\* Whatever is edited, breaks or is restarted, in the end an enabled add-on
\* runs what its Addon and the cluster's size ask for, with the hub's
\* current Secret, and its Ready condition says whether it is healthy; the
\* only ones left behind are those Helm or an earlier wave holds, and one
\* whose Secret is gone says so.
AddonsSettle ==
    <>[](\A a \in Addon : Enabled(addon[a]) =>
            \/ Wedged(a) \/ Blocked(a) \/ worker.cur = a
            \/ (HasSecrets(a) /\ hubSecret = 0 /\ addon[a].ready = "false")
            \/ (Current(a) /\ (addon[a].ready = "true" <=> NamespaceHealthy(a))))

\* The cluster's Ready says whether all its enabled add-ons are.
ReadyIsTrue ==
    talosCluster.ready <=> \A a \in Addon : Enabled(addon[a]) => addon[a].ready = "true"

\* What bootstrapAndCheckHealth's calls of reconcileAddons achieve: until
\* the control plane is healthy, Ready comes to say whether the enabled
\* add-ons are, whatever order the caches and the two controllers go in; it
\* is taken back when an add-on breaks.
BootstrapSettles == <>[](talosCluster.cpReady \/ ReadyIsTrue)

\* The configured credential is on the hub, in the Addon and, unless the
\* add-on is held or switched off, in the Secret its pod mounts.
CredentialThere ==
    /\ hubSecret = credential /\ addon[Dns].spec = credential
    /\ Enabled(addon[Dns]) /\ ~Blocked(Dns) => copied = credential

\* As long as reconcileAddons is called, a new credential gets all the way
\* to the cluster, through refused Updates, a deleted Secret and restarts.
CredentialFollows == <>[](Latched \/ CredentialThere)

\* An enabled add-on whose pods are broken does not leave the cluster Ready.
CrashShows ==
    \A a \in Addon : Enabled(addon[a]) /\ pods[a] = "broken" => ~talosCluster.ready

\* What the comment on reconcileAddons and docs/workflows/zone-add.md say: it is
\* called "afterward, from Reconcile, to keep converging (e.g. ... an addon
\* pod that later crashes)", and "a credential rotation ... reaches the running
\* external-dns pod on the next reconcile".  The code does not keep it: Reconcile
\* does not call it once both conditions of the cluster are true.
KeepsConverging == <>[](CrashShows /\ CredentialThere)
=============================================================================
