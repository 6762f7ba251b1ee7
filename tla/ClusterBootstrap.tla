-------------------------- MODULE ClusterBootstrap --------------------------
(***************************************************************************)
(* pkg/domain/taloscluster/controller.go and secrets.go: how a TalosCluster *)
(* converges.  A reconcile takes a copy of the TalosCluster from the       *)
(* informer cache, makes sure a secrets bundle is stored, applies machine  *)
(* configs, bootstraps etcd, stores the kubeconfig, aggregates add-ons and *)
(* checks health.  What it learns on the way it writes into its copy, and  *)
(* the copy reaches the store only when one of the two condition setters   *)
(* has something new to say.                                               *)
(*                                                                         *)
(* The zone lease (see ZoneLease) admits one reconcile at a time.          *)
(***************************************************************************)
EXTENDS Integers, FiniteSets

CONSTANTS
    ControlPlane,  \* machines of the control-plane pool
    Workers,       \* machines of the worker pools
    NoMachine,     \* no machine
    MaxEdits       \* bound: user edits, crashes and failed requests

Machines == ControlPlane \cup Workers

ASSUME BootstrapAssumption ==
    /\ ControlPlane \cap Workers = {}
    /\ NoMachine \notin Machines
    /\ MaxEdits \in Nat

VARIABLES
    cluster,  \* the stored TalosCluster
    seen,     \* the informer's copy of it
    copy,     \* the copy the reconcile works on
    held,     \* which of "cache" and "copy" have the stored resourceVersion
    secret,   \* the Secret taloscluster-<name>
    queued,   \* a reconcile request is pending
    pc,       \* where the reconcile is
    bundle,   \* the secrets bundle it works with
    addr,     \* controlPlaneAddr
    batch,    \* the control-plane members it resolved
    members,  \* Instances claimed by the cluster's pools and Discovered
    stage,    \* what each machine is doing
    trusts,   \* the bundle its machine config was generated from
    etcd,     \* the etcd cluster it belongs to, named after the machine that
              \* was bootstrapped
    addons,   \* how the enabled Addons are
    edits     \* bound: how many of them there were

local == <<pc, bundle, addr, batch, copy>>
machines == <<members, stage, trusts, etcd, addons>>
vars == <<cluster, seen, held, secret, queued, local, machines, edits>>

\* The conditions with as much of reason and message as tells them apart.
Cluster == [finalizer         : BOOLEAN,
            secretRef         : BOOLEAN,
            bootstrapped      : BOOLEAN,
            controlPlaneReady : {"unset", "waiting", "starting", "unhealthy", "healthy"},
            ready             : {"unset", "pending", "installed"}]

NewCluster == [finalizer |-> FALSE, secretRef |-> FALSE, bootstrapped |-> FALSE,
               controlPlaneReady |-> "unset", ready |-> "unset"]

\* "serving": its apiserver is up and hands out the kubeconfig.
Stages == {"maintenance", "booting", "up", "serving"}

PCs == {"idle", "secrets", "members", "apply", "bootstrap", "kubeconfig",
        "addons", "health", "workers", "recheck"}

TypeOK ==
    /\ cluster \in Cluster /\ seen \in Cluster /\ copy \in Cluster
    /\ held \subseteq {"cache", "copy"}
    /\ secret \in [bundle : Nat, kubeconfig : BOOLEAN]
    /\ queued \in BOOLEAN
    /\ pc \in PCs
    /\ bundle \in Nat
    /\ addr \in ControlPlane \cup {NoMachine}
    /\ batch \subseteq ControlPlane
    /\ members \subseteq Machines
    /\ stage \in [Machines -> Stages]
    /\ trusts \in [Machines -> Nat]
    /\ etcd \in [Machines -> ControlPlane \cup {NoMachine}]
    /\ addons \in {"pending", "healthy", "crashed"}
    /\ edits \in 0..MaxEdits

Init ==
    /\ cluster = NewCluster /\ seen = NewCluster /\ copy = NewCluster
    /\ held = {"cache"}
    /\ secret = [bundle |-> 0, kubeconfig |-> FALSE]
    /\ queued = TRUE
    /\ pc = "idle"
    /\ bundle = 0
    /\ addr = NoMachine
    /\ batch = {}
    /\ members = {}
    /\ stage = [m \in Machines |-> "maintenance"]
    /\ trusts = [m \in Machines |-> 0]
    /\ etcd = [m \in Machines |-> NoMachine]
    /\ addons = "pending"
    /\ edits = 0
-----------------------------------------------------------------------------
Edit == edits < MaxEdits /\ edits' = edits + 1

\* Reconcile returns.  again: an error or a RequeueAfter.
Done(again) ==
    /\ pc' = "idle"
    /\ queued' = (queued \/ again)
    /\ copy' = NewCluster
    /\ bundle' = 0
    /\ addr' = NoMachine
    /\ batch' = {}

\* Reconcile up to the finalizer.  An Update that is refused changes nothing
\* and leaves the request queued.
Start ==
    /\ pc = "idle" /\ queued
    /\ queued' = FALSE
    /\ pc' = "secrets"
    /\ \/ /\ seen.finalizer
          /\ copy' = seen
          /\ held' = IF "cache" \in held THEN held \cup {"copy"} ELSE held
          /\ UNCHANGED cluster
       \/ /\ ~seen.finalizer /\ "cache" \in held
          /\ cluster' = [cluster EXCEPT !.finalizer = TRUE]
          /\ copy' = cluster'
          /\ held' = {"copy"}
    /\ UNCHANGED <<seen, secret, bundle, addr, batch, machines, edits>>

\* Where Reconcile goes with a bundle in hand.
AfterSecrets == IF copy.controlPlaneReady = "healthy" THEN "workers" ELSE "members"

\* Mutant: the Secret is upserted.
EnsureSecretsBundleUpsert ==
    /\ pc = "secrets"
    /\ pc' = AfterSecrets
    /\ \/ /\ copy.secretRef
          /\ bundle' = secret.bundle
          /\ UNCHANGED <<secret, copy>>
       \/ /\ ~copy.secretRef
          /\ secret' = [bundle |-> secret.bundle + 1, kubeconfig |-> FALSE]
          /\ bundle' = secret.bundle + 1
          /\ copy' = [copy EXCEPT !.secretRef = TRUE]
    /\ UNCHANGED <<cluster, seen, held, queued, addr, batch, machines, edits>>

\* ensureSecretsBundle: the recorded bundle is loaded; without a record a
\* fresh one is created.  The record is made in the copy only.
EnsureSecretsBundle ==
    /\ pc = "secrets"
    /\ copy.secretRef \/ secret.bundle = 0
    /\ pc' = AfterSecrets
    /\ \/ /\ copy.secretRef
          /\ bundle' = secret.bundle
          /\ UNCHANGED <<secret, copy>>
       \/ /\ ~copy.secretRef
          /\ secret' = [bundle |-> 1, kubeconfig |-> FALSE]
          /\ bundle' = 1
          /\ copy' = [copy EXCEPT !.secretRef = TRUE]
    /\ UNCHANGED <<cluster, seen, held, queued, addr, batch, machines, edits>>

\* The Create answers AlreadyExists.
SecretExists ==
    /\ pc = "secrets"
    /\ ~copy.secretRef /\ secret.bundle # 0
    /\ Done(TRUE)
    /\ held' = held \ {"copy"}
    /\ UNCHANGED <<cluster, seen, secret, machines, edits>>

\* setControlPlaneCondition and setReadyCondition with persistStatus, as the
\* last step of a reconcile: new is written only if the condition is news.
SetCondition(new, again) ==
    /\ \/ new = copy /\ Done(again) /\ held' = held \ {"copy"} /\ UNCHANGED cluster
       \/ new # copy /\ "copy" \in held /\ Done(again) /\ held' = {} /\ cluster' = new
       \/ new # copy /\ "copy" \notin held /\ Done(TRUE) /\ UNCHANGED <<held, cluster>>

\* resolveMembers for the control-plane pool.
ControlPlaneMembers == members \cap ControlPlane

\* resolveMembers in reconcileControlPlane.  The cache lists the members in
\* no particular order, so any of them may be the first.
ResolveMembers ==
    LET M == ControlPlaneMembers
    IN  /\ pc = "members"
        /\ \/ /\ M = {}
              /\ SetCondition([copy EXCEPT !.controlPlaneReady = "waiting"], TRUE)
           \/ /\ M # {}
              /\ addr' \in M
              /\ batch' = M
              /\ pc' = "apply"
              /\ UNCHANGED <<cluster, held, queued, bundle, copy>>
        /\ UNCHANGED <<seen, secret, machines, edits>>

\* ApplyConfiguration on each of S: only a machine in maintenance mode takes
\* it, and it reboots.  Some of the calls may fail.
Apply(S) ==
    \E failed \in SUBSET S :
        LET New == {m \in S \ failed : stage[m] = "maintenance"}
        IN  /\ IF failed = {} THEN UNCHANGED edits ELSE Edit
            /\ stage' = [m \in Machines |-> IF m \in New THEN "booting" ELSE stage[m]]
            /\ trusts' = [m \in Machines |-> IF m \in New THEN bundle ELSE trusts[m]]

ApplyControlPlaneConfig ==
    /\ pc = "apply"
    /\ pc' = "bootstrap"
    /\ Apply(batch)
    /\ UNCHANGED <<cluster, seen, held, secret, queued, bundle, addr, batch, copy,
                   members, etcd, addons>>

\* The machine answers the admin identity derived from the bundle.
Answers(m) == stage[m] \in {"up", "serving"} /\ trusts[m] = bundle

\* The Bootstrap RPC populates an empty etcd data directory; on a populated
\* one it fails with AlreadyExists, which counts as success.
Bootstrap(m) == etcd' = [etcd EXCEPT ![m] = IF @ = NoMachine THEN m ELSE @]

\* Mutant: Bootstrapped is recorded whether or not the call succeeded.
EnsureBootstrappedEager ==
    /\ pc = "bootstrap"
    /\ pc' = "kubeconfig"
    /\ \/ ~copy.bootstrapped /\ Answers(addr) /\ Bootstrap(addr)
       \/ (copy.bootstrapped \/ ~Answers(addr)) /\ UNCHANGED etcd
    /\ copy' = [copy EXCEPT !.bootstrapped = TRUE]
    /\ UNCHANGED <<cluster, seen, held, secret, queued, bundle, addr, batch,
                   members, stage, trusts, addons, edits>>

\* ensureBootstrapped: skipped once recorded, and recorded in the copy only.
EnsureBootstrapped ==
    /\ pc = "bootstrap"
    /\ pc' = "kubeconfig"
    /\ \/ copy.bootstrapped /\ UNCHANGED <<etcd, copy, edits>>
       \/ ~copy.bootstrapped /\ ~Answers(addr) /\ UNCHANGED <<etcd, copy, edits>>
       \/ /\ ~copy.bootstrapped /\ Answers(addr)
          /\ Bootstrap(addr)
          /\ \/ copy' = [copy EXCEPT !.bootstrapped = TRUE] /\ UNCHANGED edits
             \/ Edit /\ UNCHANGED copy  \* the answer is lost
    /\ UNCHANGED <<cluster, seen, held, secret, queued, bundle, addr, batch,
                   members, stage, trusts, addons>>

\* Mutant: a kubeconfig that cannot be had yet is passed over.
FetchKubeconfigLater ==
    /\ pc = "kubeconfig"
    /\ secret' = [secret EXCEPT !.kubeconfig = @ \/ (Answers(addr) /\ stage[addr] = "serving")]
    /\ pc' = "addons"
    /\ UNCHANGED <<cluster, held, queued, bundle, addr, batch, copy, seen, machines, edits>>

\* The Kubeconfig RPC and storeKubeconfig.
FetchKubeconfig ==
    /\ pc = "kubeconfig"
    /\ \/ /\ Answers(addr) /\ stage[addr] = "serving"
          /\ secret' = [secret EXCEPT !.kubeconfig = TRUE]
          /\ pc' = "addons"
          /\ UNCHANGED <<cluster, held, queued, bundle, addr, batch, copy>>
       \/ /\ ~(Answers(addr) /\ stage[addr] = "serving")
          /\ SetCondition([copy EXCEPT !.controlPlaneReady = "starting"], TRUE)
          /\ UNCHANGED secret
    /\ UNCHANGED <<seen, machines, edits>>

\* reconcileAddons, on the way to the health check or as the last step.
ReconcileAddons ==
    LET new == [copy EXCEPT !.ready = IF addons = "healthy" THEN "installed" ELSE "pending"]
    IN  /\ pc = "addons"
        /\ \/ /\ copy.controlPlaneReady = "healthy"
              /\ SetCondition(new, new.ready # "installed")
           \/ /\ copy.controlPlaneReady # "healthy"
              /\ new # copy => "copy" \in held
              /\ copy' = new
              /\ IF new # copy THEN cluster' = new /\ held' = {"copy"}
                               ELSE UNCHANGED <<cluster, held>>
              /\ pc' = "health"
              /\ UNCHANGED <<queued, bundle, addr, batch>>
           \/ /\ copy.controlPlaneReady # "healthy"
              /\ new # copy /\ "copy" \notin held
              /\ Done(TRUE)
              /\ UNCHANGED <<cluster, held>>
        /\ UNCHANGED <<seen, secret, machines, edits>>

\* ClusterHealthCheck passes when every resolved member serves in one etcd.
Healthy == \A m \in batch : stage[m] = "serving" /\ etcd[m] = etcd[addr]

HealthCheck ==
    /\ pc = "health"
    /\ \/ Healthy /\ SetCondition([copy EXCEPT !.controlPlaneReady = "healthy"],
                                  copy.ready # "installed")
       \/ ~Healthy /\ SetCondition([copy EXCEPT !.controlPlaneReady = "unhealthy"], TRUE)
    /\ UNCHANGED <<seen, secret, machines, edits>>

\* reconcileWorkers: nothing without a control-plane member.
ReconcileWorkers ==
    /\ pc = "workers"
    /\ pc' = IF copy.ready = "installed" THEN "recheck" ELSE "addons"
    /\ \/ ControlPlaneMembers # {} /\ Apply(members \cap Workers)
       \/ ControlPlaneMembers = {} /\ UNCHANGED <<stage, trusts, edits>>
    /\ UNCHANGED <<cluster, seen, held, secret, queued, bundle, addr, batch, copy,
                   members, etcd, addons>>

\* recheckControlPlaneHealth writes member conditions only and is requeued.
Recheck ==
    /\ pc = "recheck"
    /\ Done(TRUE)
    /\ held' = held \ {"copy"}
    /\ UNCHANGED <<cluster, seen, secret, machines, edits>>

ReconcileStep ==
    \/ Start \/ EnsureSecretsBundle \/ SecretExists \/ ResolveMembers
    \/ ApplyControlPlaneConfig \/ EnsureBootstrapped \/ FetchKubeconfig
    \/ ReconcileAddons \/ HealthCheck \/ ReconcileWorkers \/ Recheck

\* A request fails, or the process dies: the copy is lost.
Fail ==
    /\ Edit
    /\ pc # "idle"
    /\ Done(TRUE)
    /\ held' = held \ {"copy"}
    /\ UNCHANGED <<cluster, seen, secret, machines>>
-----------------------------------------------------------------------------
\* The watch on TalosClusters.
Deliver ==
    /\ "cache" \notin held
    /\ seen' = cluster
    /\ held' = held \cup {"cache"}
    /\ queued' = TRUE
    /\ UNCHANGED <<cluster, secret, local, machines, edits>>

\* A user edits the spec or the labels of the TalosCluster.
EditCluster ==
    /\ Edit
    /\ held' = {}
    /\ UNCHANGED <<cluster, seen, secret, queued, local, machines>>

\* A pool claims one more Discovered Instance.
Join(m) ==
    /\ m \notin members
    /\ members' = members \cup {m}
    /\ UNCHANGED <<cluster, seen, held, secret, queued, local, stage, trusts, etcd, addons, edits>>

\* The machine comes up with its config.  A control-plane machine joins the
\* etcd cluster its peers have, and serves once it has one.
Progress(m) ==
    /\ \/ /\ stage[m] = "booting"
          /\ stage' = [stage EXCEPT ![m] = "up"]
          /\ UNCHANGED etcd
       \/ /\ m \in ControlPlane /\ stage[m] = "up" /\ etcd[m] = NoMachine
          /\ \E n \in ControlPlane : /\ etcd[n] # NoMachine
                                     /\ etcd' = [etcd EXCEPT ![m] = etcd[n]]
          /\ UNCHANGED stage
       \/ /\ stage[m] = "up" /\ etcd[m] # NoMachine
          /\ stage' = [stage EXCEPT ![m] = "serving"]
          /\ UNCHANGED etcd
    /\ UNCHANGED <<cluster, seen, held, secret, queued, local, members, trusts, addons, edits>>

\* The add-on controller installs the Addons once there is a kubeconfig.
AddonsInstalled ==
    /\ addons = "pending" /\ secret.kubeconfig
    /\ addons' = "healthy"
    /\ UNCHANGED <<cluster, seen, held, secret, queued, local, members, stage, trusts, etcd, edits>>

\* A pod of an Addon crashes, or an Addon that is not healthy yet is added.
AddonCrashes ==
    /\ Edit
    /\ addons = "healthy"
    /\ addons' = "crashed"
    /\ UNCHANGED <<cluster, seen, held, secret, queued, local, members, stage, trusts, etcd>>

AddonRecovers ==
    /\ addons = "crashed"
    /\ addons' = "healthy"
    /\ UNCHANGED <<cluster, seen, held, secret, queued, local, members, stage, trusts, etcd, edits>>

Next ==
    \/ ReconcileStep \/ Fail \/ Deliver \/ EditCluster
    \/ AddonsInstalled \/ AddonCrashes \/ AddonRecovers
    \/ \E m \in Machines : Join(m) \/ Progress(m)

Spec == Init /\ [][Next]_vars

\* Queued reconciles run and their requests are answered, the watch delivers,
\* the pools find their members, configured machines come up and the add-on
\* controller gets the add-ons installed and crashed ones up again.
Fairness ==
    /\ WF_vars(ReconcileStep)
    /\ WF_vars(Deliver)
    /\ WF_vars(AddonsInstalled) /\ WF_vars(AddonRecovers)
    /\ \A m \in Machines : WF_vars(Join(m)) /\ WF_vars(Progress(m))

FairSpec == Spec /\ Fairness
-----------------------------------------------------------------------------
\* No machine is left behind with the CA of a bundle that is no longer the
\* stored one: whatever crash, conflict or stale copy ensureSecretsBundle meets
\* between creating the Secret and recording it, it never replaces a bundle.
TrustsStoredBundle ==
    \A m \in Machines : stage[m] # "maintenance" => trusts[m] = secret.bundle

\* A cluster that says it is healthy can be used: its secret is on record and
\* holds the kubeconfig, and an etcd exists.  Other controllers (zone, add-on)
\* dial the cluster on the strength of this.
HealthyIsUsable ==
    cluster.controlPlaneReady = "healthy" =>
        /\ cluster.secretRef /\ secret.kubeconfig
        /\ \E m \in ControlPlane : etcd[m] # NoMachine

\* Bootstrap runs until it first succeeds and never again, so there is one
\* etcd cluster however many machines the control plane has.
SingleEtcd ==
    \A m, n \in ControlPlane :
        etcd[m] # NoMachine /\ etcd[n] # NoMachine => etcd[m] = etcd[n]

Converged == cluster.controlPlaneReady = "healthy" /\ cluster.ready = "installed"

\* Once the secret is on record, no crash, conflict, stale read or lost answer
\* keeps a cluster from converging, although its own status writes are the
\* only events that carry it from one stage to the next.  The one way out is
\* that etcd was bootstrapped on two machines: Bootstrapped is recorded in the
\* reconcile's copy, which may be lost.  Before the secret is on record a
\* crash or conflict leaves a Secret whose creation fails from then on.
RecordedConverges == []<>(cluster.secretRef => Converged \/ ~SingleEtcd)
=============================================================================
