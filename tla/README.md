# Kontinuum: TLA+ specifications, model checking and proofs

Kontinuum is a Kubernetes-style API server that discovers bare-metal machines,
claims them into pools, bootstraps Talos clusters on them and joins those
clusters as zones of one control plane. Every process (hub replicas and the
servers of joined zones) runs the same controllers against one shared storage.
This directory holds TLA+ models of its core logic, the TLC configurations that
check them on small instances, and TLAPS proofs of the properties that matter
most.

## 1. Inventory

| Component (`src/...`) | State it keeps | Operations | Hard behaviour |
| --- | --- | --- | --- |
| Zone lease (`pkg/domain/zonelease`) | one `Lease` per zone key | `TryAcquire`: create, renew, take over, refuse | several processes, clocks, lost answers, a lease that is not renewed during a reconcile |
| Instance inventory (`api/v1alpha2/instance_types.go`) | `Instance` objects: claim label, conditions, finalizer | written by discovery, pools, cluster and reset controllers | informer caches lag; every write is conditional on a resourceVersion |
| Instance discovery (`pkg/domain/instance/controller.go`) | `Discovered` (latch) and `Live` conditions | probe unclaimed Instances in maintenance mode | a probe takes seconds and races with a claim |
| Instance pools (`pkg/domain/instancepool`) | `InstancePool` status and finalizer, claim labels | claim, release, teardown, status | two pools race for one candidate; event-driven, so a lost wake-up is final |
| Talos cluster (`pkg/domain/taloscluster`) | `TalosCluster` status, secrets bundle, member conditions | apply config, bootstrap etcd, health checks, workers, add-on aggregation | external effects (RPCs to machines) recorded only afterwards |
| Teardown and reset (`taloscluster/teardown.go`, `instance_reset.go`) | finalizers of `TalosCluster` and `Instance` | reset machines, release or delete members, give up after a timeout | three controllers offboard the same machine |
| Registry (`pkg/domain/registry`) | one `Kontinuum` object and one config Secret per server | heartbeat, TTL reaper, Secret cleanup, deregistration, self-healing | three goroutines of a process and the reapers of all others work on one object through lagging caches |
| Zone (`pkg/domain/zone`) | `Zone` status and finalizer, a dozen objects on the zone's cluster | add, install, expose, upgrade, teardown with timeout | a long sequence of requests to two API servers, any of which may be the last |
| Zone identity (`zone/auth.go`, `etcdproxy/identity*.go`, `verifier.go`) | a key pair downstream, its public half on the hub, two caches | issue, rotate, watch, refresh, sign, verify | four copies of a key that never agree at every moment |
| Add-ons (`pkg/domain/addon`) | `Addon` status, Helm releases, copied Secrets | seeding, gated installation, health, aggregation | waves released by conditions read from a cache; nothing on the cluster wakes the controller |
| Etcd proxy (`pkg/domain/etcdproxy`) | streams, one goroutine per direction and hop | relay, proxy | one half of a stream fails while the other is idle |
| CRD installation (`pkg/crd`) | stored CRDs and their objects | migrate the scope, apply, establish, restore | the objects are in memory only between two requests |
| Server startup (`pkg/cli/serve.go`) | the phase of a process, its storage proxy | load, listen, hooks, controllers, shutdown | what is stopped first; restarts anywhere |
| Admin RBAC, KMS, authentication, UI, logging | little or none | I/O and rendering | none a model checker reaches |

How they interact: all controllers communicate only through API objects. A
controller reads through an informer cache that lags behind the store, works
on its copy, and writes with the copy's resourceVersion; the apiserver refuses
a write to an object that changed since. Watch events put keys on work queues.
The zone lease keeps two processes from reconciling the objects of one zone at
the same time. What happens outside the API (machine configs, etcd bootstrap,
resets, Helm releases) has no resourceVersion: it is done first and recorded
afterwards.

The properties that make each component correct:

- *Zone lease*: whoever is within its lease on a zone is of the one process that
  holds it; a renewed lease is not taken over; the zone of a dead process is
  picked up by another one.
- *Discovery and pools*: a claim belongs to one pool and is given up only by
  it; only Discovered (and Live) Instances are claimed, unless a name is used
  again; a probe does not touch
  a claimed Instance; a pool reaches its size; a deleted pool leaves nothing
  behind and its deletion ends.
- *Talos cluster*: etcd is bootstrapped once; a restart anywhere in the
  sequence does not stop the cluster from converging; a machine that leaves is
  reset, and one that stays is not; deletion ends.
- *Registry*: a live server stays registered, a dead one disappears, and one
  that is stopping does not come back.
- *Zone*: its status follows the world; its server never runs without its
  parts; its teardown removes what the join created or gives up after the
  timeout, which one that answers should not need. A rotation of its key costs at most a cache lifetime of storage.
- *Add-ons*: a chart comes after the CRDs of earlier waves; in the end each
  add-on runs what is asked for and the cluster says how they are.
- *Etcd proxy*: a stream that ends cleanly was relayed completely; no handler
  outlives its client.
- *Startup*: controllers start after their kinds are served and stop before
  their storage does; a migration all servers are through with is final.

The hazards behind these properties are listed with their lines in
`PROJECT.json`.

## 2. Modules

| Module | Models | Kind |
| --- | --- | --- |
| `ZoneLease` | `zonelease/locker.go` | component |
| `ZoneLock` | what `TryAcquire` promises | abstract specification |
| `ZoneLeaseProofs` | theorems about `ZoneLease` | proofs |
| `MCZoneLease` | instances | model checking |
| `Inventory` | Instance objects, cache, machines | shared state |
| `InstanceDiscovery` | `instance/controller.go` | component |
| `InstancePool` | `instancepool/controller.go` | component |
| `Claiming` | discovery, pools and users together | composition |
| `MCClaiming` | instances | model checking |
| `ClusterBootstrap` | `taloscluster/controller.go`, `secrets.go`, `bootstrap.go` | component |
| `MCClusterBootstrap` | instances | model checking |
| `ClusterMembers` | what the two controllers of `taloscluster` share, on `Inventory` | shared state |
| `InstanceReset` | `taloscluster/instance_reset.go` | component |
| `ClusterTeardown` | `taloscluster/teardown.go`, `conditions.go` and the members' side of `controller.go` | component |
| `Offboarding` | cluster, reset controller and users together | composition |
| `MCOffboarding` | instances | model checking |
| `Registry` | `registry/heartbeat.go`, `ttl.go`, `controller.go` | component |
| `CRDInstall` | `crd/crd.go`, `migrate.go` and the hooks that call them | component |
| `ServerStartup` | `cli/serve.go` and the configuration, on `CRDInstall` | composition |
| `ZoneFootprint` | what `zone/workload.go`, `network.go` and `inference.go` put on a zone's cluster | operators |
| `ZoneController` | `zone/controller.go`, `add.go`, `teardown.go`, on `ZoneFootprint` | component |
| `ZoneIdentity` | `zone/auth.go`, `etcdproxy/identity*.go`, `verifier.go`, `jwt.go` | component |
| `EtcdProxy` | `etcdproxy/proxy.go`, `pool.go`, `relay.go` | component |
| `Addons` | `addon/*.go` and `reconcileAddons` | component |
| `ClaimingProofs`, `OffboardingProofs`, `ZoneControllerProofs`, `ZoneIdentityProofs`, `EtcdProxyProofs` | theorems about the module each is named after | proofs |
| `ServerProofs` | theorems about `ServerStartup` and `Registry` | proofs |
| `TalosClusterProofs` | theorems about `ClusterBootstrap` and `Addons` | proofs |
| `MCRegistry`, `MCServerStartup`, `MCZoneController`, `MCZoneIdentity`, `MCEtcdProxy`, `MCAddons` | instances | model checking |

### ZoneLease

Each controller is a thread of a process. `Get` is the uncached read, `Decide`
the choice between create, renew and takeover together with the clock reading
that becomes `renewTime`, and `Acquired`, `AnswerLost` and `NotAcquired` are
the outcomes of the conditional write. `Finish` is the end of the reconcile the
lease admitted; the code neither renews in between nor releases at the end.
`Crash` leaves a sent write in flight. `fresh` is the set of controllers whose
snapshot still has the stored resourceVersion, which is all the apiserver
compares. Clocks are real time plus a constant offset per process; the code
compares another process's `renewTime` with its own clock. A lease that lacks
`renewTime` or `leaseDurationSeconds` (a defensive case of `expired`) cannot
come from this code and is not in the model.

Time passes whatever is in flight (`Tick`): nothing in the code bounds a write or
a reconcile by the lease it runs under. A reconcile younger than its lease by
everybody's clock is `Working`, an older one `Overdue`. `ZoneLock` is therefore a
lock with a term: only controllers of one process are on a zone within their
term, and one that outlasts its term keeps running beside them.

### Inventory, InstanceDiscovery, InstancePool, Claiming

An Instance is a record of its claim label, the conditions other controllers
read, its finalizer and its deletion mark. A controller's copy needs no
content: if it is current it equals the stored object, and if it is not every
write from it is refused; so `held` only says which copies are current. The
informer cache is itself such a holder, with `seen` as its content because
controllers decide on it. An InstancePool reconcile is `Start` (fetch, lease,
finalizer), `ListClaimed`, one `Release` per excess Instance or one `TryClaim`
per candidate, and `UpdateStatus`; a teardown ends in `Released` or
`RemoveFinalizer`. `Refused` collects the conflicts and NotFounds after which
`Reconcile` returns an error. `queue` is the work queue: it loses nothing, but
nothing else schedules a reconcile.

`Edit` bounds user edits, power changes, failed requests and status writes that
change only what the model leaves out. A deleted Instance may be created again
under its name, which is a digest of its spec; the history variable `reborn`
keeps those whose former owner the cache or a pool's candidates still showed.

### ClusterBootstrap

One TalosCluster on its way from creation to Ready, seen from the cluster's
side. The stored object (`cluster`), the cache's copy (`seen`) and the
reconcile's copy (`copy`) differ, because most of the status is set in the
copy and reaches the store only with the condition that ends the reconcile.
`Start` fetches and takes the lease; then come `EnsureSecretsBundle` or
`SecretExists`, `ResolveMembers`, `ApplyControlPlaneConfig`,
`EnsureBootstrapped`, `FetchKubeconfig`, `ReconcileAddons` and `HealthCheck`,
or for a control plane that is ready `ReconcileWorkers` and `Recheck`. What
these do to machines (`stage`, `trusts`, `etcd`) is not undone when the copy is
lost. Machines boot, join etcd and serve by themselves (`Progress`); the
add-on controller is external here. `Fail` is a failed request or the death of
the process at any point.

### ClusterMembers, InstanceReset, ClusterTeardown, Offboarding

The members' side of the same reconciler and the controller that holds deleted
Instances back. `ClusterTeardown` configures members while the cluster lives
(`Configure`, `MarkConfigured`, `Configured`), and once it is deleted takes
them in `listClaimedMembers`' order through `TeardownReset`, `TeardownClear`
and `TeardownLetGo`; `TeardownEnds` is another pass or the removal of the
finalizer. `members` holds the copies a pass works from, and a write from a
copy that is no longer current is refused; the code only logs that refusal for
conditions, and ignores it for releases. `InstanceReset` decides in
`ResetFetch` what the cached Instance calls for (`Intent`) and does it in
`ResetMachine` and `ResetWrite`. A Reset succeeds only on a machine that runs
the cluster's config, through an endpoint that does (`ResetReaches`), so a
second Reset of a machine that was wiped fails until the timeout. The
timeouts are events (`ResetTimeout`, `TeardownTimeout`) that may come at any
time after the deletion. The Configured condition stands for Configured, Joined
and Ready; other status writes are `Touch`. `unregister` is what a teardown read
of `spec.teardown.unregisterInstances`, which users may change between two
reconciles.
Every process has its own cached copy of the cluster (`clusterSeen`); the holder
of the zone's lease (`leader`) reconciles from its own, and `Failover` hands the
zone to another process between two passes. The Instances' cache is
one for all processes, which is an abstraction: it may lag at any time, but two
processes do not see different versions of an Instance at once.
The cluster references every pool and its secret is on record.

### Registry

A process is its ticker, its controller's worker and its shutdown path;
`pc` is the heartbeat's mutex. A beat is `Beat` (uncached Get), `Create`,
`EnsureSecret` and `UpdateStatus`. The worker takes names off `queue`
(`Reconcile`, from a cache that lags) and goes on to `Reap`, `Clean` or
`Heal`. `Deregister` sets `shuttingDown` and deletes. Ages are counted in
heartbeat intervals up to `StaleThreshold`; only the hub holds the global lease
and reaps.

### CRDInstall, ServerStartup

For each kind `Migrate`, `Drain`, `DeleteCRD`, `WaitDeleted`, `Apply`,
`Establish`, `Restore`, `RestoreStatus` and `NextKind` are the requests of one
start-up hook; `mem` is what `MigrateScope` listed and only the process knows.
`Fails` collects the timeouts and refused requests that end a hook. An object
is absent, without its status, complete, or written by a user. Any number of
servers does this at once: `DeleteCRD` deletes by name whatever the CRD has
become since `Migrate` looked at it, and `torn` keeps the kinds of which a
Namespaced CRD was deleted so. `ServerStartup`
adds the phases of `runServe` around them and the storage proxy, which is
stopped last.

### ZoneFootprint, ZoneController

`ZoneFootprint` holds the order in which objects are written and removed, the
choice of the version to install and the conditions computed from what is there.
`ZoneController` runs a pass as a sequence of groups of requests (`Step`), each
of which may stop after any prefix (`Prefix`), on a copy of the Zone whose
writes are refused when the stored Zone has changed. cert-manager, the load
balancer, the pod, the garbage collector and the TalosCluster's own controller
are steps of the world. The kubeconfig is stored (`ClusterBoots`) before the
add-ons are there (`ClusterReady`), and external-dns is only there if the hub has
a DNS provider: without its CRD a DNSEndpoint can neither be written
(`Publishable`) nor deleted (`Deletable`), while a missing CRD is no error to the
other deletes of the teardown.

### ZoneIdentity

Only the ages of keys are kept, and a key nobody refers to may be issued again,
so that rotation never ends. `EnsureIdentity` is one pass of the controller
with its two writes; the zone's server has its watch (which may be dead without
anybody noticing), its refreshes after `Threshold` refusals, several at once if
requests go on meanwhile, and its current key;
the hub's verifier its cache. The hub's Secret outlives its Zone until it is
collected (`CollectSecret`), and may even be created after it. `cut` is a partition between hub and zone;
`unreachable` counts the ticks since the controller last was through with all
it had to do, so that a moment of sight in which it did not get to act, or in
which its second write failed, does not begin a new partition. `MaxUnreachable`
bounds that count and is less than the overlap.

### EtcdProxy

A stream over `Hops` proxies. A link counts the messages under way and has an
end status; a hop has one goroutine per direction, and `Return` is where
`pumpBidi` has seen both end. `Cancel` is the context of the served stream.

### Addons

The hub's side is `Seed` and `Aggregate` of `reconcileAddons` and the Addon
objects with their cached copies. `Reconcile` calls it (`Converging`) until
ControlPlaneReady, which needs Cilium's pods (`Cni`), and Ready are both true,
and never again after that (`Latched`); the worker's pass is `Reconcile` followed by
`WorkerStep`s (gate, values, Secrets, install, CRDs, pods, status). Helm
releases have Helm's own states, so that a process that dies between its two
writes leaves a release pending. Charts, values and manifests are one request
value per spec and control-plane size.

## 3. Runs

| Run | Checks | Instance |
| --- | --- | --- |
| `lease` | `TypeOK`, `ExclusionWithinLease`, `NoSpuriousTakeover`, `ImplementsZoneLock`, `Failover` | a hub and a zone's server, two keys, clocks one tick apart, reconciles of any length, a crash, lost answers |
| `claim_safety` | `UndiscoveredIsReborn`, `ClaimNeverStolen`, `ClaimedNotProbed` | two pools, one Instance, deleted and created again |
| `claim_sizing` | `EventuallySized`, `PoolTeardownEnds` | one pool, two Instances, names used again |
| `bootstrap` | `TrustsStoredBundle`, `HealthyIsUsable`, `RecordedConverges` | two control-plane machines, a worker, two failures |
| `offboarding` | `NoSpuriousReset`, `OffboardingEnds`, `ClusterTeardownEnds` | two processes; one machine and two user actions, failures or takeovers, or a control-plane machine, a worker and one; members released or unregistered |
| `registry_selfheal` | `NoResurrection`, `SelfHeals`, `DeadIsForgotten` | the hub and a server, three crashes, stops, failures or deletions |
| `startup_install` | `ServerHasItsParts`, `MigratedStays`, `ComesUp` | two servers, two kinds, every earlier installation, one disturbance |
| `zone_lifecycle` | `PodHasItsParts`, `TornDownFirst`, `StatusSettles`, `FootprintFollows`, `TeardownEnds` | one zone, two servers, two versions, with and without DNS, two disturbances |
| `identity_rotation` | `ShortOutage`, `FailsClosed`, `Reconciled` | rotation for ever, six disturbances, partitions shorter than the overlap |
| `proxy_streams` | `CleanEndIsComplete`, `NoLeak`, `ClientIsTold` | relay and hub proxy, two messages each way, any link broken at any time |
| `addons_settle` | `WavesInOrder`, `ReadyClusterHasAddons`, `AddonsSettle`, `BootstrapSettles`, `CredentialFollows` | three add-ons in two waves, one disturbance |
| `addons_latched` | `KeepsConverging` (violated) | two add-ons in one wave, one disturbance |

Those that are not marked hold; the marked one states what a comment and a
document say of the code, and TLC shows how the code departs from it (see
below). What each property says is at its definition.
Every module also states its `TypeOK`, as the documentation of its state and
the first part of an inductive invariant; section 4 says for which modules it
is proved, and all can be added to the INVARIANTS of the runs above.

Bounds. A lease of two ticks and a skew of one leave a reconcile one tick that
everybody counts as within its lease, and three more to outlast it; five ticks
let the lease expire, be taken over and expire again, and a process that crashes does so by the first tick so
that the takeover is within the horizon. The safety of the lease is proved for
all values (section 4). Two pools and one Instance are the smallest race for a
candidate; one pool and two Instances let a pool grow, shrink and lose a member.
One user edit or failure per run, at any point, is what a controller is
designed to survive; a second one restarts the same sequence. The cluster and
registry runs allow two or three: one to get the object deleted,
the others to disturb what follows. Two control-plane machines are the smallest
number with a choice of where to bootstrap, and two Instances the smallest with
another member to dial through. The offboarding run starts from either of two
states: one machine, in any pool or in none, with two edits, which is enough for
a deletion and a takeover, a second deletion or a lost answer; or a machine of
the control plane and a worker with one edit. The two processes are alike, so it
fixes which has the lease first. Two kinds let a server fail in the
second after it migrated the first, and two servers let one do so beside the
other. Two servers and two releases are the smallest
fleet in which versions differ. A rotation of five ticks with an overlap of
three keeps the code's order: the cache is shorter than the overlap, which is
shorter than the rotation; six disturbances let two partitions and the failed
writes around them meet in one outage, and nothing new happens with nine.
Two hops are the relay and the hub. Three add-ons in
two waves are the smallest with a gate and two that share it; the safety
properties of `Addons` were also explored with two disturbances; `addons_latched` uses the
smallest cluster that has the violation.

Deadlock is checked in the `lease`, `bootstrap`, `registry_selfheal`,
`identity_rotation` and `addons_settle` runs. The others switch it off, because the system may be at
rest: every pool has its size, the cluster or the zone is gone, the stream has
ended, the server is up, and the bound on disturbances is used up.

Fairness. The lease run assumes that time passes, API requests are answered,
reconciles end, and that every key keeps being tried (every refusal is requeued
with `Jitter`); a write that is tried again and again is not lost for ever. The
claiming runs assume that queued reconciles run, watches deliver, and every
unclaimed Instance keeps being probed (`RetryInterval`, `RecheckInterval`).
The bootstrap run adds that pools find their members, configured machines come
up and add-ons get installed and recover; the offboarding run that timeouts
expire and that the reset controller's queue, which is first in, first out,
gets round to every Instance (strong fairness of `ResetFetch`, because the one
worker is busy with another Instance in between). The registry run assumes the
ticker, the watches and the workers of processes that are up; nothing starts a
process again. The startup run assumes that a process that ended is started
again and that the apiserver establishes and removes CRDs. The zone run
assumes that the cluster gets ready and, once deleted, goes, and that
cert-manager, the load balancer and the pod do their work; that the deadline of
a teardown passes is added to that (`FairSpec`) for `TeardownEnds`. The identity run
assumes ticks and requeues, the proxy run that goroutines run and that Kine
ends a stream that was closed, but not that anybody sends anything. The add-on
run assumes a first-in, first-out queue (strong fairness of `Reconcile`) and
that pods start and CRDs get established. Failures are bounded, so nothing is
assumed about how often requests succeed beyond that.

Eventualities are stated as `[]<>` of the good state where they can be (a
deletion that ends, a cluster that converges): a state that keeps recurring is
what a controller promises, and TLC checks it much faster than leads-to.

### Where code and comments disagree

The models follow the code. The run `addons_latched` states what a comment and a
document say and ends in a counterexample; `PROJECT.json` quotes the lines under
"findings". Once ControlPlaneReady and Ready are both true `reconcileAddons` is
not called any more (`taloscluster/controller.go:266`). A crash of an add-on's
pods, against `:625-628`, and a new DNS credential, against
`docs/workflows/zone-add.md:195-200`, do not arrive; TLC shows the crash, and the
credential when `CrashShows` is taken out of the property. `BootstrapSettles` and
`CredentialFollows` are about the time before (`Latched`).

Six more statements of comments are properties of their modules that the code
does not keep. No run lists them; put into the configuration named here, in
place of its properties, each ends in a counterexample.

- `MutualExclusion` (`MCZoneLease_lease.cfg`): the lease lasts 45 s and is renewed
  only at the top of a reconcile, which may run for 90 s in an add-on install
  (`addon/controller.go:37`) or 60 s in a health check
  (`taloscluster/controller.go:93`). Another process takes it over meanwhile,
  although `locker.go:53-56` says a holder that is reconciling "never loses it to a
  spurious takeover". What is left is `ExclusionWithinLease` and the lock with a
  term.
- `ClaimedIsDiscovered` (`MCClaiming_safety.cfg`): `tryClaim` finds its candidate by
  name and looks at the claim label alone (`instancepool/controller.go:446`), so an
  Instance deleted and created again since the List is claimed undiscovered, for
  good; the comment at `:356-363` says that listing Discovered ones "closes that
  race". `UndiscoveredIsReborn` says that this is the only way.
- `DeletedNotConfigured` (`MCOffboarding_teardown.cfg`): a reconcile that took the
  cluster for live goes on after the deletion, and a process that takes the zone
  over while a cluster is torn down, and whose own cache does not show the
  deletion yet, applies its configuration to machines already reset
  (`taloscluster/controller.go:241`, against `:311-315`).
- `MigratedOnce` (`MCServerStartup_install.cfg`): of two servers that start together
  on a Cluster-scoped kind, the slower one deletes by name the CRD the faster one
  has migrated (`migrate.go:83`, against `:45-48`), with its objects and under its
  controllers. `ServerHasItsParts` excepts just that, and `MigratedStays` starts
  where no server is left that may do it.
- `InterruptedIsSafe` (`MCServerStartup_install.cfg`): a migration keeps the objects
  in memory only, and what was not restored when its process ended never is;
  `migrate.go:132-135` calls that safe.
- `TeardownUnaided` (`MCZoneController_lifecycle.cfg`, with `PatientSpec`, which does
  not assume that deadlines pass): where external-dns was never installed the
  first delete of the teardown fails in every pass (`zone/network.go:501` ignores
  NotFound but not NoMatch, which `:311-320` calls no real failure), so the Zone
  waits for its timeout and the rest is not deleted.

In the following cases the properties carry the behaviour as an explicit
exception; dropping the exception makes TLC show it.

- The secrets bundle is created before `SecretRef` is stored
  (`secrets.go:91`): a crash or a conflict in between makes every later
  reconcile fail on AlreadyExists, although `docs/workflows/zone-add.md:104-108`
  calls every step idempotent. `RecordedConverges` starts once it is on record.
- `Bootstrapped` is set in a copy that may be lost (`controller.go:419`), and
  the next reconcile bootstraps etcd again, perhaps on another member, although
  `controller.go:322-323` says "it's only ever attempted until it first
  succeeds". `RecordedConverges` excepts clusters that ended with two etcds.
- An Instance deleted before its finalizer, which another controller adds, is
  stored goes at once with its machine configured, and so does one that was
  configured again while it was deleted (`instance_reset.go:28-30` says
  otherwise). A release by a pool clears Configured without any Reset.
- A pool's teardown lists from the cache (`instancepool/controller.go:248`) and
  may leave a label behind; `releaseMember` (`teardown.go:121`) passes over a
  conflict although its comment promises another pass.
- A beat that read its object before it was deleted upserts the Secret after
  the cleanup; if its process ends there, nothing deletes the Secret
  (`ttl.go:38-43` says every deletion ends in a cleanup).
- `teardownDownstream` takes every failure to load the kubeconfig for a missing
  one (`zone/teardown.go:130`; lines 119-126 say other failures are returned), so
  the cluster is deleted with the workload on it. `TornDownFirst` excepts it.
- `pumpBidi` waits for both goroutines (`proxy.go:337`): when the upstream half of
  a Watch fails, a client that only listens is never told, although
  `proxy.go:319-324` says "a genuine failure on one side is surfaced".
  `ClientIsTold` is about clients that send.
- `reconcileAddons` lists the Addons from the cache right after it seeded them
  (`taloscluster/controller.go:640`); a list without them counts as installed,
  where lines 624-625 say that one just created counts as pending.
  `ReadyClusterHasAddons` excepts a cache that lags.
- A process that dies during a Helm upgrade leaves the release pending and
  every later one is refused (`installer.go:90`); `AddonsSettle` excepts it.

## 4. Proofs

Eight modules hold theorems, checked by TLAPS, for every value of the constants
that the named assumptions of the component allow. Every safety property of
every passing run is among them. Each module proves `Spec => []TypeOK` and then safety
from an inductive invariant (`IInv` unless it is named otherwise): it
holds initially, every step keeps it (one step per action, and under it one per
part the action can disturb), and it implies the property. The invariants were
first checked by TLC on the instance of the component's run.

Two modules are about two components each, which share no variable: a server's
startup and the registry it then keeps itself in, a cluster's bootstrap and its
add-ons. This is why `Registry` and `Addons` have specifications with names of
their own (`RegistrySpec`, `AddonsSpec`).

`ZoneLeaseProofs`, for every number of processes, controllers and zones, every
clock offset and every duration:

- `Exclusion`: `Spec => []ExclusionWithinLease`;
- `TakeoverOnlyExpired`: `Spec => NoSpuriousTakeover`;
- `Refinement`: `Spec => ImplementsZoneLock`, the lock with a term.

None of them assumes anything of how long a reconcile takes.

`IInv` adds to the types: no lease was renewed in its
holder's future (`LeaseInv`); a snapshot with the stored resourceVersion is the
stored Lease (`SnapInv`); what `Decide` established of a write that can still
land, namely that it renews its own lease or that the lease read had expired by
the stamp (`WriteInv`); and that while a reconcile is within its lease its
process holds the lease, renewed no earlier than the stamp that admitted the
reconcile (`WorkInv`). A takeover needs `stamp + Skew - renewTime >
LeaseDuration`, by the clock of the one who takes over; so by then every
reconcile of the old holder is overdue by at least one clock. That a reconcile
becomes overdue is a step of the abstract lock, which a tick of the clock takes
for several controllers at once.

`ClaimingProofs`, for every set of pools and finite set of Instances:

- `ClaimsAreSafe`: `Spec => ClaimNeverStolen`;
- `ProbesSpareClaimed`: `Spec => ClaimedNotProbed`;
- `ClaimsAreDiscovered`: `Spec => []UndiscoveredIsReborn`.

The first two rest on `CacheInv` (an informer's copy that counts as current is
the stored object) and `ProbeInv` (an Instance whose probe still has a current
copy exists and is unclaimed), which a general lemma on what a step may do to
copies (`CopiesNext`) carries through every action. The third adds `LatchInv`:
what the cache or a pool's candidates show as discovered is so in the store,
unless the name was given to a new object while they showed the old one. Without
that exception it is false (`ClaimedIsDiscovered`, section 3). `DiscoveryAssumption` says that
discovery is not a pool, `PoolAssumption` that there are finitely many Instances.

`TalosClusterProofs`, for every control plane and set of workers:

- `BundleIsKept`: `Spec => []TrustsStoredBundle`;
- `HealthyMeansUsable`: `Spec => []HealthyIsUsable`.

`BundleInv` says of all three copies of the cluster (stored, cached, in the
hands of the reconcile) that a recorded secrets bundle is a stored one, and that
past its first steps a reconcile works with the stored bundle; `MachineInv` that
what serves has an etcd; `HealthInv` that a copy which says healthy, and a
reconcile past the kubeconfig, belong to a usable cluster. All copies have to be
in the invariant because the reconcile begins with a stale one and its writes
are conditional on the resourceVersion only.

The same module, for any charts, priorities, edits, failures and restarts of the
add-on controller:

- `WavesAreInOrder`: `AddonsSpec => WavesInOrder`;
- `ReadyMeansInstalled`: `AddonsSpec => ReadyClusterHasAddons`.

Both ask what the Ready condition of an Addon is worth when it is read from a
cache, long after it was written, by a worker that then takes several steps.
`ReadyInv` answers that Ready true means a chart once installed whose CRDs are
served, in the store as in the cache; `WorkerInv` says the same of the siblings
a reconcile found Ready, and of the Addon it is about to report so, and ties
its steps to what they have installed. What carries this across the steps of
everybody else is `NothingUndone`: no step forgets an installed chart or stops
serving a CRD, whichever of users, the controllers and the cluster takes it.
`SpecInv` is there because `release` tells an
installed chart from a missing one by what it was asked for: an Addon that
exists always asks for something, and no more often changed than there were
disturbances. No theorem says that Ready true means healthy now: pods may break
later, and `AddonsSettle`, which TLC checks, says the condition follows.

`OffboardingProofs`, for every set of pools and Instances:

- `WipedOnlyDeleted`: `Spec => NoSpuriousReset`, however often the lease passes
  to a process whose cache lags.

Both controllers decide on copies that may be old. What makes this safe is that
deletion marks are never taken back: an Instance the cache shows as deleted is
deleted (`MarkInv`), so is the one a reset was decided on (`IntentInv`), and the
same holds of the cluster, in the cache of any process, and while it is torn
down (`ClusterInv`). The proof goes over every write to the store
(`Stored`: nobody clears a deletion mark) and over everything that changes a
machine (`NodeSteps`). An Instance created again under the same name would
break `MarkInv`; the model has none (section 5). The assumptions say that
the two controllers are readers of Instances.

`ServerProofs`, for every number of servers, kinds, objects and configurations:

- `PartsAreThere`: `Spec => []ServerHasItsParts`;
- `MigratedForGood`: `Spec => MigratedStays`.

`PhaseInv` ties the phase of `runServe` to the step of the hook, `ProxyInv` to
the storage proxy, and `CrdInv` says of every server that the CRDs of the kinds
it is through with (`Past`) are current, unless another server has torn one
down. `MigratedStays` is proved from the types: of what any step may do to CRDs
(`CrdSteps`) and objects (`ObjSteps`), only a server at its delete can undo a
migration, and none gets there once the CRD is Namespaced.

The same module, for any number of processes, of which several may share a name,
of hubs and of faults:

- `StoppedStaysGone`: `RegistrySpec => NoResurrection`.

Two steps could bring back an object that is gone. Only a process whose `pc` is
"create" creates one, and `CreateInv` says that it has not begun to stop: the
mutex keeps `Deregister` from setting the flag in between. A status update of a
process whose copy is current would make the object look alive as well, so
`CopyInv` says that a current copy is one of an object that is there: every
delete makes all copies of the name old. `OwnInv` ties the names a process works on to its own, which is
what makes the process that creates one of the servers that are up.

`ZoneControllerProofs`, for any servers, versions and disturbances:

- `PodsAreComplete`: `Spec => []PodHasItsParts`;
- `FootprintGoesFirst`: `Spec => TornDownFirst`.

The lemmas on plans say what every prefix of `installWorkload` and of the
teardown has written or removed (`Workload`, `Undone`): the Deployment is
written after and removed before everything its pod needs, so a pass may stop
anywhere. `ClientInv` says of a pass with a client for the zone's cluster that
the identity is in place while it installs, and that nothing but add-ons is
left once it has torn down. `Highest` says of `FindKontinuumVersion` that it
returns a reported version over which no other takes precedence.

`ZoneIdentityProofs`, for all periods:

- `LapsedIsRefused`: `Spec => []FailsClosed`;
- `OutageIsShort`: `Spec => []ShortOutage`.

Two clocks are compared: `HubInv` says that a key the hub offers has not
lapsed, `EntryInv` that a key in a good cache entry has lapsed for no longer
than the entry is old. `Issued` (nothing is held before a key was issued) is
needed for the types.

`ShortOutage` adds up delays of the controller, the watch, the zone's server and
the verifier's cache. `ServiceInv` keeps them apart: while the hub has not seen
the zone's key, an outage is as long as the zone has been unreachable; after
that it is no longer than `MaxUnreachable` and the age of the hub's current key,
and over once that age exceeds `CacheTTL` (`OutageInv`). This needs that a cache
entry without the current key is at least as old as the key, and that right after
a rotation it has the one before (`CacheInv`); that the hub's current key cannot
expire, because a partition is shorter than the overlap (`AgeInv`); that every
refresh and event under way carries the zone's key or the one before it, and
that a server which has tried holds one of these or one that is served
(`FlightInv`). Each action is a lemma of its own; `Tick` is the only one that
makes anything older. `IdentityAssumption` has the two relations it
needs: the cache period is shorter than a rotation (30 seconds and 6 hours in the
code), and a
zone's cluster is out of reach for less than the overlap; a longer partition
lets the last key the hub knows expire, and the code promises nothing then.

`EtcdProxyProofs`, for any number of hops and messages:

- `CleanMeansComplete`: `Spec => []CleanEndIsComplete`.

What has to be shown is about all links at once and would call for an induction
over them. `RequestFlow` and `ResponseFlow` avoid it: there is a count for every
link of the messages that have ever entered it, such that on a link that has
lost nothing the count of the next link and the messages under way add up to it,
and on a link that ended cleanly it equals what the storage received, or what it
sent. Each step moves at most one message and a clean end only ever travels one
link towards the client, so the counts are kept locally; `HopInv` and `OrderInv`
tie the goroutines of a hop to its two links.

Only model-checked: the liveness properties (the provers have no fairness and no
ENABLED), namely `Failover`, `EventuallySized`, `PoolTeardownEnds`,
`RecordedConverges`, `OffboardingEnds`, `ClusterTeardownEnds`, `SelfHeals`,
`DeadIsForgotten`, `ComesUp`, `StatusSettles`, `FootprintFollows`,
`TeardownEnds`, `Reconciled`, `NoLeak`, `ClientIsTold`, `AddonsSettle`,
`BootstrapSettles` and `CredentialFollows`. What section 3 says
the code does not keep is refuted by counterexamples and needs no proof.

## 5. Not modelled, and the plan

Not modelled: formatting, certificates and token encoding, Helm rendering, CEL
values, the HTTP handlers and templates of the web UI, OIDC redirects and
cookies, the KMS (stateless cryptography), the CLI's construction of Instances,
and the admin RBAC sync (one idempotent upsert). None of them keeps state that
another step could find half done. Generated code (`zz_generated.deepcopy.go`)
is left out. Label selectors and namespaces are, too (every Instance matches
every pool).

Of the components that are modelled: the members' Joined, Ready and Live
conditions and CPU data; several clusters in one namespace; an Instance created
again under its name while it is being offboarded; the connection pools and
unary calls of the etcd proxy; add-ons whose cluster does not exist yet.

Done: the zone lease with its proofs, discovery and pools, cluster bootstrap,
offboarding, the registry, startup with CRD migration, zones, their identity,
the streams of the etcd proxy, add-ons, and the proof of every safety property of
the passing runs. What is left is the parts above, and among them first an
Instance whose name is used again while it is offboarded and an Instance cache
per process.
