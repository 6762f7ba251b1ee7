------------------------- MODULE TalosClusterProofs --------------------------
(***************************************************************************)
(* Proofs about a Talos cluster: about ClusterBootstrap, for any control   *)
(* plane, any workers and any number of edits, crashes and failed          *)
(* requests; then about Addons.                                            *)
(***************************************************************************)
EXTENDS ClusterBootstrap, Addons, TLAPS

\* The reconcile has a secrets bundle in hand.
HasBundle == pc \in PCs \ {"idle", "secrets"}

\* An etcd exists.
EtcdExists == \E m \in ControlPlane : etcd[m] # NoMachine

\* The cluster can be dialled: its kubeconfig is stored and an etcd exists.
Usable == secret.kubeconfig /\ EtcdExists

\* A bundle is recorded only once it is stored, in every copy of the cluster,
\* and a reconcile works with the stored one.
BundleInv ==
    /\ \A obj \in {cluster, seen, copy} : obj.secretRef => secret.bundle # 0
    /\ HasBundle => copy.secretRef /\ bundle = secret.bundle
    /\ \A m \in Machines : stage[m] # "maintenance" => secret.bundle # 0

\* An apiserver serves from an etcd, and the machine a reconcile talks to is a
\* control-plane member.
MachineInv ==
    /\ \A m \in Machines : stage[m] = "serving" => etcd[m] # NoMachine
    /\ pc \in {"apply", "bootstrap", "kubeconfig"} => addr \in ControlPlane

\* Whatever copy says healthy says so of a usable cluster, and past the
\* kubeconfig the cluster is usable.
HealthInv ==
    /\ \A obj \in {cluster, seen, copy} :
          obj.controlPlaneReady = "healthy" => obj.secretRef /\ Usable
    /\ pc \in {"addons", "health"} => Usable
    /\ pc \in {"workers", "recheck"} => copy.controlPlaneReady = "healthy"

IInv == TypeOK /\ BundleInv /\ TrustsStoredBundle /\ MachineInv /\ HealthInv
-----------------------------------------------------------------------------

\* The TalosCluster a user creates is one, with any condition a setter gives it.
LEMMA ClusterForms ==
    /\ NewCluster \in Cluster
    /\ \A c \in Cluster :
              /\ [c EXCEPT !.finalizer = TRUE] \in Cluster
              /\ [c EXCEPT !.secretRef = TRUE] \in Cluster
              /\ [c EXCEPT !.bootstrapped = TRUE] \in Cluster
              /\ \A v \in {"waiting", "starting", "unhealthy", "healthy"} :
                    [c EXCEPT !.controlPlaneReady = v] \in Cluster
              /\ \A v \in {"pending", "installed"} : [c EXCEPT !.ready = v] \in Cluster
BY DEF NewCluster, Cluster

LEMMA TypeInit == Init => TypeOK
BY BootstrapAssumption, ClusterForms DEF Init, TypeOK, PCs, Stages

\* A reconcile that returns leaves nothing of itself behind.
LEMMA DoneType ==
    ASSUME TypeOK, NEW again \in BOOLEAN, Done(again)
    PROVE  /\ pc' \in PCs /\ queued' \in BOOLEAN /\ copy' \in Cluster /\ bundle' \in Nat
           /\ addr' \in ControlPlane \cup {NoMachine} /\ batch' \subseteq ControlPlane
BY ClusterForms DEF Done, TypeOK, PCs

\* setCondition writes the copy, or finds nothing to write, and returns.
LEMMA SetConditionType ==
    ASSUME TypeOK, NEW new \in Cluster, NEW again \in BOOLEAN, SetCondition(new, again)
    PROVE  /\ pc' \in PCs /\ queued' \in BOOLEAN /\ copy' \in Cluster /\ bundle' \in Nat
           /\ addr' \in ControlPlane \cup {NoMachine} /\ batch' \subseteq ControlPlane
           /\ cluster' \in Cluster /\ held' \subseteq {"cache", "copy"}
<1>1. \E b \in BOOLEAN : Done(b)
  BY DEF SetCondition
<1>2. cluster' \in Cluster /\ held' \subseteq {"cache", "copy"}
  BY DEF SetCondition, TypeOK
<1> QED
  BY <1>1, <1>2, DoneType

\* Applying a config changes what a machine runs and trusts.
LEMMA ApplyType ==
    ASSUME TypeOK, NEW S, Apply(S)
    PROVE  stage' \in [Machines -> Stages] /\ trusts' \in [Machines -> Nat] /\ edits' \in 0..MaxEdits
BY BootstrapAssumption DEF Apply, TypeOK, Stages, Edit

\* Every step keeps the types, action by action.
LEMMA TypeNext == TypeOK /\ [Next]_vars => TypeOK'
<1> SUFFICES ASSUME TypeOK, [Next]_vars PROVE TypeOK'
  OBVIOUS
<1>e. Edit => edits' \in 0..MaxEdits
  BY BootstrapAssumption DEF Edit, TypeOK
<1>c. cluster \in Cluster /\ seen \in Cluster /\ copy \in Cluster
  BY DEF TypeOK
<1>m. Machines = ControlPlane \cup Workers
  BY DEF Machines
<1>1. CASE Start
  BY <1>1, <1>c, ClusterForms DEF Start, TypeOK, PCs, machines
<1>2. CASE EnsureSecretsBundle
  <2>1. [bundle |-> 1, kubeconfig |-> FALSE] \in [bundle : Nat, kubeconfig : BOOLEAN]
    OBVIOUS
  <2>2. secret.bundle \in Nat
    BY DEF TypeOK
  <2>3. secret' \in [bundle : Nat, kubeconfig : BOOLEAN] /\ bundle' \in Nat
    BY <1>2, <2>1, <2>2 DEF EnsureSecretsBundle, TypeOK
  <2>4. copy' \in Cluster
    BY <1>2, <1>c, ClusterForms DEF EnsureSecretsBundle
  <2>5. pc' \in PCs
    BY <1>2 DEF EnsureSecretsBundle, AfterSecrets, PCs
  <2> QED
    BY <1>2, <2>3, <2>4, <2>5 DEF EnsureSecretsBundle, TypeOK, machines
<1>3. CASE SecretExists
  BY <1>3, DoneType DEF SecretExists, TypeOK, machines
<1>4. CASE ResolveMembers
  <2>1. CASE SetCondition([copy EXCEPT !.controlPlaneReady = "waiting"], TRUE)
    BY <1>4, <1>c, <2>1, ClusterForms, SetConditionType DEF ResolveMembers, TypeOK, machines
  <2>2. CASE /\ addr' \in ControlPlaneMembers /\ batch' = ControlPlaneMembers /\ pc' = "apply"
             /\ UNCHANGED <<cluster, held, queued, bundle, copy>>
    BY <1>4, <2>2 DEF ResolveMembers, ControlPlaneMembers, TypeOK, machines, PCs
  <2> QED
    BY <1>4, <2>1, <2>2 DEF ResolveMembers
<1>5. CASE ApplyControlPlaneConfig
  BY <1>5, ApplyType DEF ApplyControlPlaneConfig, TypeOK, PCs
<1>6. CASE EnsureBootstrapped
  <2>1. etcd' \in [Machines -> ControlPlane \cup {NoMachine}]
    BY <1>6 DEF EnsureBootstrapped, Bootstrap, Answers, TypeOK
  <2>2. copy' \in Cluster /\ edits' \in 0..MaxEdits
    BY <1>6, <1>c, <1>e, ClusterForms DEF EnsureBootstrapped, TypeOK
  <2> QED
    BY <1>6, <2>1, <2>2 DEF EnsureBootstrapped, TypeOK, PCs
<1>7. CASE FetchKubeconfig
  <2>1. CASE SetCondition([copy EXCEPT !.controlPlaneReady = "starting"], TRUE) /\ UNCHANGED secret
    BY <1>7, <1>c, <2>1, ClusterForms, SetConditionType DEF FetchKubeconfig, TypeOK, machines
  <2>2. CASE /\ secret' = [secret EXCEPT !.kubeconfig = TRUE] /\ pc' = "addons"
             /\ UNCHANGED <<cluster, held, queued, bundle, addr, batch, copy>>
    BY <1>7, <2>2 DEF FetchKubeconfig, TypeOK, machines, PCs
  <2> QED
    BY <1>7, <2>1, <2>2 DEF FetchKubeconfig
<1>8. CASE ReconcileAddons
  <2> DEFINE new == [copy EXCEPT !.ready = IF addons = "healthy" THEN "installed" ELSE "pending"]
  <2>1. new \in Cluster
    BY <1>c, ClusterForms
  <2>2. CASE SetCondition(new, new.ready # "installed")
    <3> HIDE DEF new
    <3> QED
      BY <1>8, <2>1, <2>2, SetConditionType DEF ReconcileAddons, TypeOK, machines
  <2>3. CASE /\ copy' = new /\ pc' = "health" /\ UNCHANGED <<queued, bundle, addr, batch>>
             /\ IF new # copy THEN cluster' = new /\ held' = {"copy"} ELSE UNCHANGED <<cluster, held>>
    <3> HIDE DEF new
    <3> QED
      BY <1>8, <2>1, <2>3 DEF ReconcileAddons, TypeOK, machines, PCs
  <2>4. CASE Done(TRUE) /\ UNCHANGED <<cluster, held>>
    BY <1>8, <2>4, DoneType DEF ReconcileAddons, TypeOK, machines
  <2> QED
    BY <1>8, <2>2, <2>3, <2>4 DEF ReconcileAddons
<1>9. CASE HealthCheck
  <2>1. PICK v \in {"unhealthy", "healthy"}, b \in BOOLEAN :
            SetCondition([copy EXCEPT !.controlPlaneReady = v], b)
    BY <1>9 DEF HealthCheck
  <2> QED
    BY <1>9, <1>c, <2>1, ClusterForms, SetConditionType DEF HealthCheck, TypeOK, machines
<1>10. CASE ReconcileWorkers
  <2>1. stage' \in [Machines -> Stages] /\ trusts' \in [Machines -> Nat] /\ edits' \in 0..MaxEdits
    BY <1>10, ApplyType DEF ReconcileWorkers, TypeOK
  <2> QED
    BY <1>10, <2>1 DEF ReconcileWorkers, TypeOK, PCs
<1>11. CASE Recheck
  BY <1>11, DoneType DEF Recheck, TypeOK, machines
<1>12. CASE Fail
  BY <1>12, <1>e, DoneType DEF Fail, TypeOK, machines
<1>13. CASE Deliver
  BY <1>13 DEF Deliver, TypeOK, machines, local
<1>14. CASE EditCluster
  BY <1>14, <1>e DEF EditCluster, TypeOK, machines, local
<1>15. CASE AddonsInstalled \/ AddonCrashes \/ AddonRecovers
  BY <1>15, <1>e DEF AddonsInstalled, AddonCrashes, AddonRecovers, TypeOK, local
<1>16. ASSUME NEW m \in Machines, Join(m) PROVE TypeOK'
  BY <1>16 DEF Join, TypeOK, local
<1>17. ASSUME NEW m \in Machines, Progress(m) PROVE TypeOK'
  <2>1. stage' \in [Machines -> Stages]
    BY <1>17 DEF Progress, TypeOK, Stages
  <2>2. etcd' \in [Machines -> ControlPlane \cup {NoMachine}]
    BY <1>17, <1>m DEF Progress, TypeOK
  <2> QED
    BY <1>17, <2>1, <2>2 DEF Progress, TypeOK, local
<1>18. CASE UNCHANGED vars
  BY <1>18 DEF vars, local, machines, TypeOK
<1> QED
  BY <1>1, <1>2, <1>3, <1>4, <1>5, <1>6, <1>7, <1>8, <1>9, <1>10, <1>11, <1>12, <1>13, <1>14,
     <1>15, <1>16, <1>17, <1>18 DEF Next, ReconcileStep

\* Every reachable state of a bootstrap is well typed.
THEOREM Typing == Spec => []TypeOK
BY TypeInit, TypeNext, PTL DEF Spec
-----------------------------------------------------------------------------
\* The parts of the invariant other than typing.
Parts == BundleInv /\ TrustsStoredBundle /\ MachineInv /\ HealthInv

LEMMA IInvInit == Init => IInv
BY TypeInit DEF Init, IInv, BundleInv, TrustsStoredBundle, MachineInv, HealthInv,
                HasBundle, NewCluster

\* A return keeps the invariant if what it may have written keeps it.
LEMMA Returns ==
    ASSUME IInv, NEW again, Done(again), UNCHANGED <<seen, secret, machines>>,
           cluster'.secretRef => secret.bundle # 0,
           cluster'.controlPlaneReady = "healthy" => cluster'.secretRef /\ Usable
    PROVE  Parts'
<1> USE DEF IInv, TypeOK, Done, machines
<1>1. BundleInv' /\ TrustsStoredBundle'
  BY DEF BundleInv, TrustsStoredBundle, HasBundle, NewCluster
<1>2. MachineInv'
  BY DEF MachineInv
<1>3. HealthInv'
  BY DEF HealthInv, NewCluster, Usable, EtcdExists
<1> QED
  BY <1>1, <1>2, <1>3 DEF Parts

\* A condition setter at the end of a reconcile may write the copy, which has
\* the bundle on record.
LEMMA SetConditionKeeps ==
    ASSUME IInv, HasBundle, NEW new, NEW again, SetCondition(new, again),
           UNCHANGED <<seen, secret, machines>>,
           new.secretRef = copy.secretRef,
           new.controlPlaneReady = "healthy" => Usable
    PROVE  Parts'
<1>1. new.secretRef /\ secret.bundle # 0
  BY DEF IInv, BundleInv
<1>2. PICK b : Done(b)
  BY DEF SetCondition
<1>3. cluster' \in {cluster, new}
  BY DEF SetCondition
<1> QED
  BY <1>1, <1>2, <1>3, Returns DEF IInv, BundleInv, HealthInv

\* Machine configs carry the bundle in hand, and only to empty machines.
LEMMA ApplyKeeps ==
    ASSUME IInv, HasBundle, NEW S, Apply(S), UNCHANGED <<secret, etcd>>
    PROVE  \A m \in Machines :
               /\ stage'[m] # "maintenance" => trusts'[m] = secret.bundle /\ secret.bundle # 0
               /\ stage'[m] = "serving" => etcd[m] # NoMachine
<1> SUFFICES ASSUME NEW m \in Machines
             PROVE  /\ stage'[m] # "maintenance" => trusts'[m] = secret.bundle /\ secret.bundle # 0
                    /\ stage'[m] = "serving" => etcd[m] # NoMachine
  OBVIOUS
<1>1. \/ stage'[m] = stage[m] /\ trusts'[m] = trusts[m]
      \/ stage'[m] = "booting" /\ trusts'[m] = bundle
  BY DEF Apply
<1>2. bundle = secret.bundle /\ secret.bundle # 0
  BY DEF IInv, BundleInv
<1> QED
  BY <1>1, <1>2 DEF IInv, BundleInv, TrustsStoredBundle, MachineInv

\* Every step keeps the invariant: one step per action, and under it one for each part
\* that the action can disturb.
LEMMA IInvNext == IInv /\ [Next]_vars => IInv'
<1> SUFFICES ASSUME IInv, [Next]_vars PROVE Parts'
  BY TypeNext DEF IInv, Parts
<1> USE DEF IInv, TypeOK
<1>c. copy \in Cluster /\ seen \in Cluster /\ cluster \in Cluster
  OBVIOUS
<1>1. CASE Start
  <2>1. /\ cluster'.secretRef = cluster.secretRef
        /\ cluster'.controlPlaneReady = cluster.controlPlaneReady
        /\ copy' = seen \/ copy' = cluster'
    BY <1>1, <1>c DEF Start, Cluster
  <2>2. /\ pc' = "secrets"
        /\ UNCHANGED <<seen, secret, bundle, addr, batch, members, stage, trusts, etcd>>
    BY <1>1 DEF Start, machines
  <2>3. BundleInv' /\ TrustsStoredBundle'
    BY <2>1, <2>2 DEF BundleInv, TrustsStoredBundle, HasBundle
  <2>4. MachineInv' /\ HealthInv'
    BY <2>1, <2>2 DEF MachineInv, HealthInv, Usable, EtcdExists
  <2> QED
    BY <2>3, <2>4 DEF Parts
<1>2. CASE EnsureSecretsBundle
  <2>1. CASE copy.secretRef
    <3>1. bundle' = secret.bundle /\ UNCHANGED <<secret, copy, cluster, seen, machines>>
      BY <1>2, <2>1 DEF EnsureSecretsBundle
    <3>2. pc' = "members" \/ (pc' = "workers" /\ copy.controlPlaneReady = "healthy")
      BY <1>2 DEF EnsureSecretsBundle, AfterSecrets
    <3>3. BundleInv' /\ TrustsStoredBundle'
      BY <2>1, <3>1 DEF BundleInv, TrustsStoredBundle, machines
    <3>4. MachineInv' /\ HealthInv'
      BY <3>1, <3>2 DEF MachineInv, HealthInv, Usable, EtcdExists, machines
    <3> QED
      BY <3>3, <3>4 DEF Parts
  <2>2. CASE ~copy.secretRef
    <3>1. /\ secret.bundle = 0 /\ secret' = [bundle |-> 1, kubeconfig |-> FALSE] /\ bundle' = 1
          /\ copy' = [copy EXCEPT !.secretRef = TRUE]
          /\ UNCHANGED <<cluster, seen, machines>>
      BY <1>2, <2>2 DEF EnsureSecretsBundle
    <3>2. \A obj \in {cluster, seen, copy} : ~obj.secretRef /\ obj.controlPlaneReady # "healthy"
      BY <3>1 DEF BundleInv, HealthInv
    <3>3. /\ copy'.secretRef /\ copy'.controlPlaneReady # "healthy"
          /\ secret'.bundle = 1
      BY <1>c, <3>1, <3>2 DEF Cluster
    <3>4. pc' = "members"
      BY <1>2, <3>2 DEF EnsureSecretsBundle, AfterSecrets
    <3>5. BundleInv' /\ TrustsStoredBundle'
      BY <3>1, <3>2, <3>3 DEF BundleInv, TrustsStoredBundle, machines
    <3>6. MachineInv' /\ HealthInv'
      BY <3>1, <3>2, <3>3, <3>4 DEF MachineInv, HealthInv, machines
    <3> QED
      BY <3>5, <3>6 DEF Parts
  <2> QED
    BY <2>1, <2>2
<1>3. CASE SecretExists \/ Recheck \/ Fail
  <2>1. UNCHANGED <<cluster, seen, secret, machines>> /\ \E b : Done(b)
    BY <1>3 DEF SecretExists, Recheck, Fail
  <2> QED
    BY <2>1, Returns DEF BundleInv, HealthInv
<1>4. CASE ResolveMembers
  <2>0. HasBundle /\ UNCHANGED <<seen, secret, machines>>
    BY <1>4 DEF ResolveMembers, HasBundle, PCs
  <2>1. CASE SetCondition([copy EXCEPT !.controlPlaneReady = "waiting"], TRUE)
    BY <1>c, <2>0, <2>1, SetConditionKeeps DEF Cluster
  <2>2. CASE /\ addr' \in ControlPlaneMembers /\ pc' = "apply" /\ UNCHANGED <<cluster, bundle, copy>>
    <3>1. BundleInv' /\ TrustsStoredBundle'
      BY <2>0, <2>2 DEF BundleInv, TrustsStoredBundle, machines
    <3>2. MachineInv' /\ HealthInv'
      BY <2>0, <2>2 DEF MachineInv, HealthInv, Usable, EtcdExists, ControlPlaneMembers, machines
    <3> QED
      BY <3>1, <3>2 DEF Parts
  <2> QED
    BY <1>4, <2>1, <2>2 DEF ResolveMembers
<1>5. CASE ApplyControlPlaneConfig
  <2>1. /\ pc = "apply" /\ pc' = "bootstrap" /\ HasBundle /\ Apply(batch)
        /\ UNCHANGED <<cluster, seen, secret, bundle, addr, copy, etcd>>
    BY <1>5 DEF ApplyControlPlaneConfig, HasBundle, PCs
  <2>2. BundleInv' /\ TrustsStoredBundle'
    BY <2>1, ApplyKeeps DEF BundleInv, TrustsStoredBundle
  <2>3. MachineInv' /\ HealthInv'
    BY <2>1, ApplyKeeps DEF MachineInv, HealthInv, Usable, EtcdExists
  <2> QED
    BY <2>2, <2>3 DEF Parts
<1>6. CASE EnsureBootstrapped
  <2>1. /\ pc = "bootstrap" /\ pc' = "kubeconfig" /\ HasBundle
        /\ UNCHANGED <<cluster, seen, secret, bundle, addr, stage, trusts>>
    BY <1>6 DEF EnsureBootstrapped, HasBundle, PCs
  <2>2. copy'.secretRef = copy.secretRef /\ copy'.controlPlaneReady = copy.controlPlaneReady
    BY <1>6, <1>c DEF EnsureBootstrapped, Cluster
  <2>3. \A m \in Machines : etcd[m] # NoMachine => etcd'[m] # NoMachine
    BY <1>6 DEF EnsureBootstrapped, Bootstrap
  <2>4. BundleInv' /\ TrustsStoredBundle'
    BY <2>1, <2>2 DEF BundleInv, TrustsStoredBundle
  <2>5. MachineInv' /\ HealthInv'
    BY <2>1, <2>2, <2>3 DEF MachineInv, HealthInv, Usable, EtcdExists, Machines
  <2> QED
    BY <2>4, <2>5 DEF Parts
<1>7. CASE FetchKubeconfig
  <2>0. HasBundle /\ pc = "kubeconfig" /\ UNCHANGED <<seen, machines>>
    BY <1>7 DEF FetchKubeconfig, HasBundle, PCs
  <2>1. CASE SetCondition([copy EXCEPT !.controlPlaneReady = "starting"], TRUE) /\ UNCHANGED secret
    BY <1>c, <2>0, <2>1, SetConditionKeeps DEF Cluster
  <2>2. CASE /\ stage[addr] = "serving" /\ secret' = [secret EXCEPT !.kubeconfig = TRUE]
             /\ pc' = "addons" /\ UNCHANGED <<cluster, bundle, copy>>
    <3>1. secret'.bundle = secret.bundle /\ secret'.kubeconfig
      BY <2>2
    <3>2. EtcdExists
      BY <2>0, <2>2 DEF MachineInv, EtcdExists, Machines
    <3>3. BundleInv' /\ TrustsStoredBundle'
      BY <2>0, <2>2, <3>1 DEF BundleInv, TrustsStoredBundle, machines
    <3>4. MachineInv' /\ HealthInv'
      BY <2>0, <2>2, <3>1, <3>2 DEF MachineInv, HealthInv, Usable, EtcdExists, machines
    <3> QED
      BY <3>3, <3>4 DEF Parts
  <2> QED
    BY <1>7, <2>1, <2>2 DEF FetchKubeconfig
<1>8. CASE ReconcileAddons
  <2> DEFINE new == [copy EXCEPT !.ready = IF addons = "healthy" THEN "installed" ELSE "pending"]
  <2>0. HasBundle /\ pc = "addons" /\ UNCHANGED <<seen, secret, machines>>
    BY <1>8 DEF ReconcileAddons, HasBundle, PCs
  <2>1. /\ new.secretRef = copy.secretRef /\ new.controlPlaneReady = copy.controlPlaneReady
    BY <1>c DEF Cluster
  <2>2. CASE SetCondition(new, new.ready # "installed")
    <3> HIDE DEF new
    <3> QED
      BY <2>0, <2>1, <2>2, SetConditionKeeps DEF HealthInv
  <2>3. CASE /\ copy' = new /\ pc' = "health" /\ UNCHANGED <<bundle, addr>> /\ cluster' \in {new, cluster}
    <3> HIDE DEF new
    <3>1. BundleInv' /\ TrustsStoredBundle'
      BY <2>0, <2>1, <2>3 DEF BundleInv, TrustsStoredBundle, machines
    <3>2. MachineInv' /\ HealthInv'
      BY <2>0, <2>1, <2>3 DEF MachineInv, HealthInv, BundleInv, Usable, EtcdExists, machines
    <3> QED
      BY <3>1, <3>2 DEF Parts
  <2>4. CASE Done(TRUE) /\ UNCHANGED cluster
    BY <2>0, <2>4, Returns DEF BundleInv, HealthInv
  <2> QED
    BY <1>8, <2>2, <2>3, <2>4 DEF ReconcileAddons
<1>9. CASE HealthCheck
  <2>0. HasBundle /\ Usable /\ UNCHANGED <<seen, secret, machines>>
    BY <1>9 DEF HealthCheck, HasBundle, PCs, HealthInv
  <2>1. PICK v \in {"unhealthy", "healthy"}, b \in BOOLEAN :
            SetCondition([copy EXCEPT !.controlPlaneReady = v], b)
    BY <1>9 DEF HealthCheck
  <2>2. [copy EXCEPT !.controlPlaneReady = v].secretRef = copy.secretRef
    BY <1>c DEF Cluster
  <2> QED
    BY <2>0, <2>1, <2>2, SetConditionKeeps
<1>10. CASE ReconcileWorkers
  <2>1. /\ pc = "workers" /\ HasBundle /\ pc' \in {"recheck", "addons"}
        /\ UNCHANGED <<cluster, seen, secret, bundle, addr, copy, etcd>>
        /\ (\E S : Apply(S)) \/ UNCHANGED <<stage, trusts>>
    BY <1>10 DEF ReconcileWorkers, HasBundle, PCs
  <2>2. BundleInv' /\ TrustsStoredBundle'
    BY <2>1, ApplyKeeps DEF BundleInv, TrustsStoredBundle
  <2>3. MachineInv'
    BY <2>1, ApplyKeeps DEF MachineInv
  <2>4. HealthInv'
    BY <2>1 DEF HealthInv, Usable, EtcdExists
  <2> QED
    BY <2>2, <2>3, <2>4 DEF Parts
<1>11. CASE Deliver \/ EditCluster
  <2>1. UNCHANGED <<cluster, secret, local, machines>> /\ seen' \in {seen, cluster}
    BY <1>11 DEF Deliver, EditCluster
  <2>2. BundleInv' /\ TrustsStoredBundle'
    BY <2>1 DEF BundleInv, TrustsStoredBundle, HasBundle, machines, local
  <2>3. MachineInv' /\ HealthInv'
    BY <2>1 DEF MachineInv, HealthInv, Usable, EtcdExists, machines, local
  <2> QED
    BY <2>2, <2>3 DEF Parts
<1>12. ASSUME UNCHANGED <<cluster, seen, secret, local, stage, trusts, etcd>> PROVE Parts'
  <2>1. BundleInv' /\ TrustsStoredBundle'
    BY <1>12 DEF BundleInv, TrustsStoredBundle, HasBundle, local
  <2>2. MachineInv' /\ HealthInv'
    BY <1>12 DEF MachineInv, HealthInv, Usable, EtcdExists, local
  <2> QED
    BY <2>1, <2>2 DEF Parts
<1>13. ASSUME NEW m \in Machines, Progress(m) PROVE Parts'
  <2>1. /\ UNCHANGED <<cluster, seen, secret, local, trusts>>
        /\ \A n \in Machines : etcd[n] # NoMachine => etcd'[n] # NoMachine
    BY <1>13 DEF Progress
  <2>2. \A n \in Machines : /\ stage'[n] # "maintenance" => stage[n] # "maintenance"
                            /\ stage'[n] = "serving" => etcd'[n] # NoMachine
    BY <1>13 DEF Progress, MachineInv
  <2>3. BundleInv' /\ TrustsStoredBundle'
    BY <2>1, <2>2 DEF BundleInv, TrustsStoredBundle, HasBundle, local
  <2>4. MachineInv' /\ HealthInv'
    BY <2>1, <2>2 DEF MachineInv, HealthInv, Usable, EtcdExists, Machines, local
  <2> QED
    BY <2>3, <2>4 DEF Parts
<1>14. ASSUME AddonsInstalled \/ AddonCrashes \/ AddonRecovers \/ (\E m \in Machines : Join(m))
              \/ UNCHANGED vars
       PROVE  UNCHANGED <<cluster, seen, secret, local, stage, trusts, etcd>>
  BY <1>14 DEF AddonsInstalled, AddonCrashes, AddonRecovers, Join, vars, machines
<1> QED
  BY <1>1, <1>2, <1>3, <1>4, <1>5, <1>6, <1>7, <1>8, <1>9, <1>10, <1>11, <1>12, <1>13, <1>14
     DEF Next, ReconcileStep

LEMMA IInvAlways == Spec => []IInv
BY IInvInit, IInvNext, PTL DEF Spec

\* ensureSecretsBundle never leaves a machine with the CA of a lost bundle,
\* whatever crash, conflict or stale copy comes between the Create and the
\* record of it.
THEOREM BundleIsKept == Spec => []TrustsStoredBundle
BY IInvAlways, PTL DEF IInv

\* A TalosCluster whose stored condition says healthy has a recorded secret, a
\* stored kubeconfig and an etcd.
THEOREM HealthyMeansUsable == Spec => []HealthyIsUsable
<1>1. IInv => HealthyIsUsable
  BY DEF IInv, HealthInv, HealthyIsUsable, Usable, EtcdExists
<1> QED
  BY <1>1, IInvAlways, PTL
-----------------------------------------------------------------------------
(***************************************************************************)
(* The add-ons of a cluster that has its kubeconfig: Addons, for any       *)
(* charts, waves, edits, failures and restarts.                            *)
(***************************************************************************)

\* A chart whose CRDs are served has been installed.
Installed(a) == release[a].req # NoRequest /\ CRDsReady(a)

\* Whatever asks for an installation asks for something, and what is asked for was
\* changed no more often than there were disturbances.
SpecInv ==
    /\ credential \in 1 .. disturbances + 1
    /\ \A a \in Addon :
          /\ addon[a].exists => addon[a].spec # 0
          /\ cached[a].exists => cached[a].spec # 0
          /\ addon[a].spec <= disturbances + 1

\* Ready means installed: in the store as in the cache.
ReadyInv ==
    \A a \in Addon :
        /\ addon[a].ready = "true" => Installed(a)
        /\ cached[a].ready = "true" => Installed(a)

\* The reconcile is past what it has done, and began after the waves before it.
WorkerInv ==
    worker.pc # "idle" =>
        /\ worker.cur \in Addon /\ worker.req # NoRequest
        /\ \A b \in worker.siblings : Installed(b)
        /\ worker.pc \in {"crds", "probe"} => release[worker.cur].req # NoRequest
        /\ worker.pc = "probe" \/ (worker.pc = "status" /\ worker.ready = "true")
              => Installed(worker.cur)

AddonsInv == AddonsTypeOK /\ SpecInv /\ ReadyInv /\ WorkerInv

\* What a step may do to the charts: no CRD that is served is lost, no chart that
\* was installed is forgotten.
NothingUndone == \A a \in Addon : Installed(a) => Installed(a)'

\* A first installation finds the earlier waves installed, and a cluster that
\* turns Ready with all Addons in the cache finds all of them installed.
Sound ==
    /\ \A a \in Addon :
          release[a].state = "none" /\ release'[a].state # "none" =>
              \A b \in worker.siblings \cap WithCRDs : crds[b] = "established"
    /\ ~talosCluster.ready /\ talosCluster'.ready /\ cached = addon =>
          \A a \in Addon : Enabled(addon[a]) => Installed(a)

\* The forms of an Addon.
LEMMA ObjectForms ==
    /\ MaxDisturbances \in Nat
    /\ Absent \in Objects
    /\ \A spec \in 0 .. MaxDisturbances + 1 : Seeded(spec) \in Objects
    /\ \A obj \in Objects :
          /\ \A spec \in 0 .. MaxDisturbances + 1 : [obj EXCEPT !.spec = spec] \in Objects
          /\ \A ready \in {"true", "false"} : [obj EXCEPT !.ready = ready] \in Objects
          /\ [obj EXCEPT !.enabled = ~@] \in Objects
          /\ obj.spec \in 0 .. MaxDisturbances + 1
  <1>1. MaxDisturbances \in Nat
    BY AddonsAssumption
  <1>2. Absent \in Objects /\ \A spec \in 0 .. MaxDisturbances + 1 : Seeded(spec) \in Objects
    BY <1>1 DEF Absent, Objects, Seeded
  <1>3. ASSUME NEW obj \in Objects
        PROVE  /\ \A spec \in 0 .. MaxDisturbances + 1 : [obj EXCEPT !.spec = spec] \in Objects
               /\ \A ready \in {"true", "false"} : [obj EXCEPT !.ready = ready] \in Objects
               /\ [obj EXCEPT !.enabled = ~@] \in Objects
               /\ obj.spec \in 0 .. MaxDisturbances + 1
    <2>1. ASSUME NEW b \in BOOLEAN
          PROVE  [obj EXCEPT !.enabled = b] \in Objects
      BY DEF Objects
    <2>2. (~obj.enabled) \in BOOLEAN
      OBVIOUS
    <2>3. [obj EXCEPT !.enabled = ~@] = [obj EXCEPT !.enabled = ~obj.enabled]
      OBVIOUS
    <2>4. [obj EXCEPT !.enabled = ~@] \in Objects
      BY <2>1, <2>2, <2>3
    <2> QED BY <2>4 DEF Objects
  <1> QED BY <1>1, <1>2, <1>3

\* Once done, an installation stays done.
LEMMA UndoneFact ==
    ASSUME AddonsTypeOK,
           \A a \in Addon : release'[a].req = release[a].req \/ release'[a].req # NoRequest,
           \A a \in Addon : crds[a] = "established" => crds'[a] = "established"
    PROVE  NothingUndone
BY DEF NothingUndone, Installed, CRDsReady, NoRequest

\* A step that keeps the worker where it is.
LEMMA WorkerStill ==
    ASSUME AddonsTypeOK, WorkerInv, NothingUndone, UNCHANGED <<worker, release>>
    PROVE  WorkerInv'
  <1>1. worker.siblings \subseteq Addon
    BY DEF AddonsTypeOK
  <1> QED BY <1>1 DEF WorkerInv, NothingUndone, NoRequest, Addon

\* An Addon that is stored after so many disturbances.
Proper(obj, a, n) ==
    /\ obj \in Objects
    /\ obj.exists => obj.spec # 0
    /\ obj.spec <= n + 1
    /\ obj.ready = "true" => Installed(a)

\* Every stored Addon is proper.
LEMMA StoredProper ==
    ASSUME AddonsInv
    PROVE  \A a \in Addon : Proper(addon[a], a, disturbances)
BY DEF AddonsInv, AddonsTypeOK, SpecInv, ReadyInv, Proper

\* Disturbances are counted.
LEMMA DisturbFact ==
    ASSUME AddonsTypeOK, Disturb \/ UNCHANGED disturbances
    PROVE  /\ disturbances \in Nat /\ disturbances' \in 0 .. MaxDisturbances
           /\ disturbances' = disturbances \/ disturbances' = disturbances + 1
  <1>1. MaxDisturbances \in Nat /\ disturbances \in 0 .. MaxDisturbances
    BY AddonsAssumption DEF AddonsTypeOK
  <1> QED BY <1>1 DEF Disturb

\* The credential changes no more often than there are disturbances.
LEMMA CredentialBound ==
    ASSUME NEW m \in Nat, NEW d \in Nat, NEW e \in 0 .. m, NEW c \in 1 .. d + 1, NEW f,
           e = d \/ e = d + 1, f = c \/ (f = c + 1 /\ e = d + 1)
    PROVE  f \in 1 .. e + 1 /\ f \in 0 .. m + 1
OBVIOUS

\* The spec of an Addon alone is replaced.
LEMMA SpecReplaced ==
    ASSUME NEW obj \in Objects, NEW spec \in 0 .. MaxDisturbances + 1
    PROVE  /\ [obj EXCEPT !.spec = spec] \in Objects
           /\ [obj EXCEPT !.spec = spec].spec = spec
           /\ [obj EXCEPT !.spec = spec].ready = obj.ready
           /\ [obj EXCEPT !.spec = spec].exists = obj.exists
BY DEF Objects

\* The status of an Addon alone is replaced.
LEMMA ReadyReplaced ==
    ASSUME NEW old \in Objects, NEW ready \in {"none", "true", "false"}, NEW obj,
           obj = [old EXCEPT !.ready = ready]
    PROVE  /\ obj \in Objects /\ obj.ready = ready
           /\ obj.spec = old.spec /\ obj.exists = old.exists
BY DEF Objects

\* One Addon is replaced by another.
LEMMA OneReplaced ==
    ASSUME NEW f \in [Addon -> Objects], NEW a \in Addon, NEW obj, NEW n,
           Proper(obj, a, n), \A b \in Addon : Proper(f[b], b, n)
    PROVE  /\ [f EXCEPT ![a] = obj] \in [Addon -> Objects]
           /\ \A b \in Addon : Proper([f EXCEPT ![a] = obj][b], b, n)
  <1>1. obj \in Objects
    BY DEF Proper
  <1> QED BY <1>1

\* A step that changes nothing on the cluster and stores proper Addons.
LEMMA HubStep ==
    ASSUME AddonsInv, UNCHANGED <<release, crds, pods, copied>>,
           Disturb \/ UNCHANGED disturbances,
           addon' \in [Addon -> Objects],
           \A a \in Addon : Proper(addon'[a], a, disturbances'),
           cached' = cached \/ cached' = addon,
           credential' = credential \/ (Disturb /\ credential' = credential + 1),
           hubSecret' \in {hubSecret, credential, 0},
           size' = size \/ size' = 3 - size,
           addonQueue' \subseteq Addon,
           worker' = worker \/ worker' = Idle,
           talosCluster' \in TalosClusters
    PROVE  AddonsInv'
  <1>1. AddonsTypeOK /\ SpecInv /\ ReadyInv /\ WorkerInv
    BY DEF AddonsInv
  <1>2. /\ MaxDisturbances \in Nat /\ disturbances \in Nat /\ disturbances' \in 0 .. MaxDisturbances
        /\ disturbances' = disturbances \/ disturbances' = disturbances + 1
    BY <1>1, DisturbFact, ObjectForms
  <1>3. \A a \in Addon : Installed(a)' <=> Installed(a)
    BY DEF Installed, CRDsReady, NoRequest
  <1>4. credential' \in 1 .. disturbances' + 1 /\ credential' \in 0 .. MaxDisturbances + 1
    <2>1. credential \in 1 .. disturbances + 1
      BY <1>1 DEF SpecInv
    <2>2. credential' = credential \/ (credential' = credential + 1 /\ disturbances' = disturbances + 1)
      BY DEF Disturb
    <2> QED BY <1>2, <2>1, <2>2, CredentialBound
  <1>5. cached' \in [Addon -> Objects]
    BY <1>1 DEF AddonsTypeOK
  <1>6. SpecInv' /\ ReadyInv'
    <2>1. \A a \in Addon : /\ addon'[a].exists => addon'[a].spec # 0
                           /\ addon'[a].spec <= disturbances' + 1
                           /\ addon'[a].ready = "true" => Installed(a)
      BY DEF Proper
    <2>2. \A a \in Addon : /\ cached'[a].exists => cached'[a].spec # 0
                           /\ cached'[a].ready = "true" => Installed(a)
      BY <1>1 DEF SpecInv, ReadyInv
    <2> QED BY <1>3, <1>4, <2>1, <2>2 DEF SpecInv, ReadyInv, Addon
  <1>7. WorkerInv'
    <2>1. CASE worker' = Idle
      BY <2>1 DEF WorkerInv, Idle
    <2>2. CASE worker' = worker
      <3>1. NothingUndone
        BY <1>3 DEF NothingUndone
      <3> QED BY <1>1, <2>2, <3>1, WorkerStill
    <2> QED BY <2>1, <2>2
  <1>8. AddonsTypeOK'
    <2>1. {credential', hubSecret', copied'} \subseteq 0 .. MaxDisturbances + 1
      <3>1. {credential, hubSecret, copied} \subseteq 0 .. MaxDisturbances + 1
        BY <1>1 DEF AddonsTypeOK
      <3> QED BY <1>2, <1>4, <3>1
    <2>2. size' \in 1 .. 2
      BY <1>1 DEF AddonsTypeOK
    <2>3. worker' \in [pc : {"idle", "secrets", "install", "finish", "crds", "probe", "status"},
                       cur : Addon \cup {NoAddon}, copy : Objects, siblings : SUBSET Addon,
                       req : Requests, ready : {"none", "true", "false"}]
      <3>1. NoRequest \in Requests
        BY <1>2 DEF NoRequest, Requests
      <3>2. CASE worker' = Idle
        BY <3>1, <3>2, ObjectForms DEF Idle
      <3>3. CASE worker' = worker
        BY <1>1, <3>3 DEF AddonsTypeOK
      <3> QED BY <3>2, <3>3
    <2> QED BY <1>1, <1>2, <1>5, <2>1, <2>2, <2>3
         DEF AddonsTypeOK, Addon, Objects, Requests
  <1> QED BY <1>6, <1>7, <1>8 DEF AddonsInv

\* What EnsureBuiltinSeeds and seedExternalDNS store.
LEMMA SeedFact ==
    ASSUME AddonsInv, NEW n
    PROVE  /\ WithSeeds(n) \in [Addon -> Objects]
           /\ \A a \in Addon : Proper(WithSeeds(n)[a], a, disturbances)
           /\ DnsSeed(WithSeeds(n)) \in [Addon -> Objects]
           /\ \A a \in Addon : Proper(DnsSeed(WithSeeds(n))[a], a, disturbances)
  <1> DEFINE seeds == WithSeeds(n)
  <1>1. /\ MaxDisturbances \in Nat /\ disturbances \in 0 .. MaxDisturbances
        /\ addon \in [Addon -> Objects]
        /\ credential \in 1 .. disturbances + 1 /\ credential \in 0 .. MaxDisturbances + 1
    BY ObjectForms DEF AddonsInv, AddonsTypeOK, SpecInv
  <1>2. \A a \in Addon : \A spec \in 1 .. disturbances + 1 : Proper(Seeded(spec), a, disturbances)
    <2> SUFFICES ASSUME NEW a \in Addon, NEW spec \in 1 .. disturbances + 1
                 PROVE  Proper(Seeded(spec), a, disturbances)
      OBVIOUS
    <2>1. spec \in 0 .. MaxDisturbances + 1 /\ spec # 0 /\ spec <= disturbances + 1
      BY <1>1
    <2>2. Seeded(spec) \in Objects
      BY <2>1, ObjectForms
    <2> QED BY <2>1, <2>2 DEF Proper, Seeded
  <1>3. seeds = [a \in Addon |-> IF a \in Missing(n) THEN Seeded(1) ELSE addon[a]]
    BY DEF WithSeeds
  <1>4. \A a \in Addon : Proper(seeds[a], a, disturbances) /\ seeds[a] \in Objects
    <2>1. 1 \in 1 .. disturbances + 1
      BY <1>1
    <2>2. \A a \in Addon : Proper(seeds[a], a, disturbances)
      BY <1>2, <1>3, <2>1, StoredProper
    <2> QED BY <2>2 DEF Proper
  <1>5. seeds \in [Addon -> Objects]
    BY <1>3, <1>4
  <1> HIDE DEF seeds
  <1>6. Dns \in Addon
    BY DEF Addon
  <1>7. CASE seeds[Dns].exists
    <2> DEFINE obj == [seeds[Dns] EXCEPT !.spec = credential]
    <2>1. DnsSeed(seeds) = [seeds EXCEPT ![Dns] = obj]
      BY <1>5, <1>6, <1>7 DEF DnsSeed
    <2>2. obj \in Objects /\ obj.ready = seeds[Dns].ready /\ obj.spec = credential
      BY <1>1, <1>5, <1>6, SpecReplaced
    <2>3. Proper(obj, Dns, disturbances)
      <3>1. credential # 0 /\ credential <= disturbances + 1
        BY <1>1
      <3> QED BY <1>4, <1>6, <2>2, <3>1 DEF Proper
    <2> HIDE DEF obj
    <2> QED BY <1>4, <1>5, <1>6, <2>1, <2>2, <2>3 DEF seeds
  <1>8. CASE ~seeds[Dns].exists
    <2>1. DnsSeed(seeds) = [seeds EXCEPT ![Dns] = Seeded(credential)]
      BY <1>8 DEF DnsSeed
    <2>2. Proper(Seeded(credential), Dns, disturbances)
      BY <1>1, <1>2, <1>6
    <2>3. Seeded(credential) \in Objects
      BY <2>2 DEF Proper
    <2> QED BY <1>4, <1>5, <1>6, <2>1, <2>2, <2>3 DEF seeds
  <1> QED BY <1>7, <1>8

\* The types of the worker and of a release.
WorkerStates ==
    [pc : {"idle", "secrets", "install", "finish", "crds", "probe", "status"},
     cur : Addon \cup {NoAddon}, copy : Objects, siblings : SUBSET Addon,
     req : Requests, ready : {"none", "true", "false"}]

ReleaseStates == [state : {"none", "pending", "failed", "deployed"}, req : Requests]

\* The worker moves on.
LEMMA WorkerMoves ==
    ASSUME AddonsTypeOK, NEW next \in {"install", "finish", "crds", "probe"},
           worker' = [worker EXCEPT !.pc = next]
    PROVE  /\ worker' \in WorkerStates /\ worker'.pc = next /\ worker'.cur = worker.cur
           /\ worker'.req = worker.req /\ worker'.siblings = worker.siblings
  <1>1. worker \in WorkerStates
    BY DEF AddonsTypeOK, WorkerStates
  <1> QED BY <1>1 DEF WorkerStates

\* The worker ends with Ready to be set.
LEMMA WorkerReports ==
    ASSUME AddonsTypeOK, NEW status \in {"true", "false"}, SetReadyNext(status)
    PROVE  /\ worker' \in WorkerStates /\ worker'.pc = "status" /\ worker'.cur = worker.cur
           /\ worker'.req = worker.req /\ worker'.siblings = worker.siblings
           /\ worker'.ready = status
  <1>1. worker \in WorkerStates
    BY DEF AddonsTypeOK, WorkerStates
  <1> QED BY <1>1 DEF WorkerStates, SetReadyNext

\* A step that leaves the hub alone and undoes nothing on the cluster.
LEMMA TargetStep ==
    ASSUME AddonsInv, NothingUndone,
           UNCHANGED <<addon, cached, credential, hubSecret, size, talosCluster>>,
           Disturb \/ UNCHANGED disturbances,
           addonQueue' \subseteq Addon, worker' \in WorkerStates, WorkerInv',
           copied' \in {copied, hubSecret},
           release' \in [Addon -> ReleaseStates],
           crds' \in [Addon -> {"none", "created", "established"}],
           pods' \in [Addon -> {"none", "starting", "healthy", "broken"}]
    PROVE  AddonsInv'
  <1>1. AddonsTypeOK /\ SpecInv /\ ReadyInv
    BY DEF AddonsInv
  <1>2. /\ MaxDisturbances \in Nat /\ disturbances \in Nat /\ disturbances' \in 0 .. MaxDisturbances
        /\ disturbances' = disturbances \/ disturbances' = disturbances + 1
    BY <1>1, DisturbFact, ObjectForms
  <1>3. ReadyInv'
    BY <1>1 DEF ReadyInv, NothingUndone, Addon
  <1>4. SpecInv'
    <2>1. credential' \in 1 .. disturbances' + 1
      BY <1>1, <1>2, CredentialBound DEF SpecInv
    <2>2. ASSUME NEW a \in Addon
          PROVE  addon[a].spec <= disturbances' + 1
      <3>1. addon[a].spec \in 0 .. MaxDisturbances + 1 /\ addon[a].spec <= disturbances + 1
        BY <1>1, ObjectForms DEF AddonsTypeOK, SpecInv
      <3> QED BY <1>2, <3>1
    <2> QED BY <1>1, <2>1, <2>2 DEF SpecInv, Addon
  <1>5. AddonsTypeOK'
    <2>1. {credential, hubSecret, copied'} \subseteq 0 .. MaxDisturbances + 1
      BY <1>1 DEF AddonsTypeOK
    <2> QED BY <1>1, <1>2, <2>1
         DEF AddonsTypeOK, WorkerStates, ReleaseStates, Addon, Objects, Requests
  <1> QED BY <1>3, <1>4, <1>5 DEF AddonsInv

\* The worker goes on after it has begun: its Addon, request and siblings stay.
LEMMA WorkerGoesOn ==
    ASSUME AddonsTypeOK, WorkerInv, NothingUndone, worker.pc # "idle",
           worker'.cur = worker.cur, worker'.req = worker.req, worker'.siblings = worker.siblings,
           worker'.pc \in {"crds", "probe"} => release'[worker.cur].req # NoRequest,
           worker'.pc = "probe" \/ (worker'.pc = "status" /\ worker'.ready = "true")
             => Installed(worker.cur)'
    PROVE  WorkerInv'
  <1>1. worker.siblings \subseteq Addon
    BY DEF AddonsTypeOK
  <1>2. /\ worker.cur \in Addon /\ worker.req # NoRequest
        /\ \A b \in worker.siblings : Installed(b)'
    BY <1>1 DEF WorkerInv, NothingUndone
  <1>3. \A b \in worker'.siblings : Installed(b)'
    BY <1>2
  <1> QED BY <1>2, <1>3 DEF WorkerInv, Installed, CRDsReady, NoRequest, Addon

\* Only a worker that has begun installs, and only the aggregation makes Ready.
LEMMA SoundFact ==
    ASSUME AddonsTypeOK, WorkerInv,
           worker.pc # "idle" \/ \A a \in Addon : release'[a].state = release[a].state,
           talosCluster'.ready = talosCluster.ready
    PROVE  Sound
  <1>1. worker.pc # "idle" => \A b \in worker.siblings \cap WithCRDs : crds[b] = "established"
    BY DEF WorkerInv, Installed, CRDsReady
  <1> QED BY <1>1 DEF Sound

\* The steps of the cluster's controller and of users.
LEMMA HubSteps ==
    ASSUME AddonsInv,
           \/ Seed \/ SeedFails \/ Aggregate \/ StoreKubeconfig \/ DeliverAddons
           \/ SetReady \/ Restart \/ DeleteSecret \/ Resize
           \/ \E a \in Addon : EditAddon(a)
    PROVE  AddonsInv' /\ Sound
  <1> DEFINE Goal == AddonsInv' /\ Sound
  <1> USE DEF hub, target
  <1>0. AddonsTypeOK /\ SpecInv /\ ReadyInv /\ WorkerInv
    BY DEF AddonsInv
  <1>t. /\ addon \in [Addon -> Objects] /\ addonQueue \subseteq Addon
        /\ talosCluster \in TalosClusters
        /\ worker.cur \in Addon \cup {NoAddon}
    BY <1>0 DEF AddonsTypeOK
  <1>p. \A a \in Addon : Proper(addon[a], a, disturbances)
    BY StoredProper
  <1>s. \A n : /\ WithSeeds(n) \in [Addon -> Objects]
               /\ \A a \in Addon : Proper(WithSeeds(n)[a], a, disturbances)
               /\ DnsSeed(WithSeeds(n)) \in [Addon -> Objects]
               /\ \A a \in Addon : Proper(DnsSeed(WithSeeds(n))[a], a, disturbances)
    BY SeedFact
  <1>m. ASSUME Disturb, NEW f, \A a \in Addon : Proper(f[a], a, disturbances)
        PROVE  \A a \in Addon : Proper(f[a], a, disturbances')
    <2>1. disturbances \in Nat /\ disturbances' = disturbances + 1
      BY <1>0, <1>m, DisturbFact DEF Disturb
    <2>2. ASSUME NEW a \in Addon
          PROVE  f[a].spec <= disturbances' + 1
      <3>1. f[a].spec \in 0 .. MaxDisturbances + 1 /\ f[a].spec <= disturbances + 1
        BY <1>m, ObjectForms DEF Proper
      <3> QED BY <2>1, <3>1
    <2> QED BY <1>m, <2>2 DEF Proper
  <1>1. ASSUME Seed
        PROVE  Goal
    <2>1. /\ UNCHANGED <<cached, credential, size, addonQueue, worker, release, crds, pods, copied, disturbances>>
          /\ hubSecret' = credential
      BY <1>1 DEF Seed
    <2>2. /\ addon' = WithSeeds(Len(Builtins)) \/ addon' = DnsSeed(WithSeeds(Len(Builtins)))
          /\ talosCluster' = talosCluster \/ talosCluster' = [talosCluster EXCEPT !.step = "aggregate"]
      BY <1>1 DEF Seed
    <2>3. addon' \in [Addon -> Objects] /\ \A a \in Addon : Proper(addon'[a], a, disturbances')
      BY <1>s, <2>1, <2>2
    <2>4. /\ talosCluster' \in TalosClusters
          /\ talosCluster'.ready = talosCluster.ready
      BY <1>t, <2>2 DEF TalosClusters
    <2>5. AddonsInv'
      BY <1>t, <2>1, <2>3, <2>4, HubStep
    <2> QED BY <1>0, <2>1, <2>4, <2>5, SoundFact
  <1>2. ASSUME SeedFails
        PROVE  Goal
    <2>1. /\ UNCHANGED <<cached, credential, size, addonQueue, worker, talosCluster, release, crds, pods, copied>>
          /\ hubSecret' \in {hubSecret, credential} /\ Disturb
          /\ \E n \in 0 .. Len(Builtins) : addon' = WithSeeds(n)
      BY <1>2 DEF SeedFails
    <2>2. addon' \in [Addon -> Objects] /\ \A a \in Addon : Proper(addon'[a], a, disturbances')
      BY <1>m, <1>s, <2>1
    <2>3. AddonsInv'
      BY <1>t, <2>1, <2>2, HubStep
    <2> QED BY <1>0, <2>1, <2>3, SoundFact
  <1>3. ASSUME Aggregate
        PROVE  Goal
    <2>1. UNCHANGED <<addon, cached, credential, hubSecret, size, addonQueue, worker, release, crds, pods,
                      copied, disturbances>>
      BY <1>3 DEF Aggregate
    <2>a. PICK healthy \in {talosCluster.cpReady, talosCluster.cpReady \/ PodsHealthy(Cni)} :
              talosCluster' = [talosCluster EXCEPT !.step = "seed", !.ready = AllReady, !.cpReady = healthy]
      BY <1>3 DEF Aggregate
    <2>b. healthy \in BOOLEAN
      BY <1>t, <2>a DEF TalosClusters
    <2>2. AllReady \in BOOLEAN
      BY DEF AllReady
    <2>3. /\ talosCluster' \in TalosClusters
          /\ talosCluster'.ready = AllReady
      BY <1>t, <2>2, <2>a, <2>b DEF TalosClusters
    <2>4. AddonsInv'
      BY <1>p, <1>t, <2>1, <2>3, HubStep
    <2>5. AllReady /\ cached = addon =>
              \A a \in Addon : Enabled(addon[a]) => Installed(a)
      BY <1>0 DEF AllReady, ReadyInv
    <2> QED BY <2>1, <2>3, <2>4, <2>5 DEF Sound
  <1>4. ASSUME StoreKubeconfig
        PROVE  Goal
    <2>1. /\ UNCHANGED <<addon, cached, credential, hubSecret, size, addonQueue, worker, release, crds, pods,
                         copied, disturbances>>
          /\ talosCluster' = [talosCluster EXCEPT !.kubeconfig = TRUE]
      BY <1>4 DEF StoreKubeconfig
    <2>2. /\ talosCluster' \in TalosClusters
          /\ talosCluster'.ready = talosCluster.ready
      BY <1>t, <2>1 DEF TalosClusters
    <2>3. AddonsInv'
      BY <1>p, <1>t, <2>1, <2>2, HubStep
    <2> QED BY <1>0, <2>1, <2>2, <2>3, SoundFact
  <1>5. ASSUME DeliverAddons
        PROVE  Goal
    <2>1. /\ UNCHANGED <<addon, credential, hubSecret, size, worker, talosCluster, release, crds, pods,
                         copied, disturbances>>
          /\ cached' = addon /\ addonQueue' \subseteq Addon
      BY <1>5, <1>t DEF DeliverAddons
    <2>2. AddonsInv'
      BY <1>p, <1>t, <2>1, HubStep
    <2> QED BY <1>0, <2>1, <2>2, SoundFact
  <1>6. ASSUME SetReady
        PROVE  Goal
    <2>1. /\ UNCHANGED <<cached, credential, hubSecret, size, talosCluster, release, crds, pods, copied,
                         disturbances>>
          /\ worker' = Idle /\ addonQueue' = addonQueue \cup {worker.cur}
          /\ addon' = addon \/ addon' = [addon EXCEPT ![worker.cur].ready = worker.ready]
      BY <1>6 DEF SetReady
    <2>2. worker.cur \in Addon /\ (worker.ready = "true" => Installed(worker.cur))
      BY <1>0, <1>6 DEF SetReady, WorkerInv
    <2>3. worker.ready \in {"none", "true", "false"} /\ addon[worker.cur] \in Objects
      BY <1>0, <2>2 DEF AddonsTypeOK
    <2>4. PICK obj : obj = [addon[worker.cur] EXCEPT !.ready = worker.ready]
      OBVIOUS
    <2>5. /\ obj \in Objects /\ obj.ready = worker.ready /\ obj.spec = addon[worker.cur].spec
          /\ obj.exists = addon[worker.cur].exists
      BY <2>3, <2>4, ReadyReplaced
    <2>6. Proper(obj, worker.cur, disturbances)
      BY <1>p, <2>2, <2>5 DEF Proper
    <2>7. addon' = addon \/ addon' = [addon EXCEPT ![worker.cur] = obj]
      BY <2>1, <2>4
    <2>8. addon' \in [Addon -> Objects] /\ \A a \in Addon : Proper(addon'[a], a, disturbances)
      <3>1. CASE addon' = addon
        BY <1>p, <1>t, <3>1
      <3>2. CASE addon' = [addon EXCEPT ![worker.cur] = obj]
        BY <1>p, <1>t, <2>2, <2>6, <3>2, OneReplaced
      <3> QED BY <2>7, <3>1, <3>2
    <2>9. AddonsInv'
      BY <1>t, <2>1, <2>2, <2>8, HubStep
    <2> QED BY <1>0, <2>1, <2>9, SoundFact
  <1>7. ASSUME Restart
        PROVE  Goal
    <2>1. /\ UNCHANGED <<addon, hubSecret, size, release, crds, pods, copied>>
          /\ worker' = Idle /\ cached' = addon /\ Disturb
          /\ addonQueue' \subseteq Addon
          /\ talosCluster' = [talosCluster EXCEPT !.step = "seed"]
          /\ credential' = credential \/ credential' = credential + 1
      BY <1>7 DEF Restart
    <2>2. \A a \in Addon : Proper(addon'[a], a, disturbances')
      BY <1>m, <1>p, <2>1
    <2>3. /\ talosCluster' \in TalosClusters
          /\ talosCluster'.ready = talosCluster.ready
      BY <1>t, <2>1 DEF TalosClusters
    <2>4. AddonsInv'
      BY <1>t, <2>1, <2>2, <2>3, HubStep
    <2> QED BY <1>0, <2>1, <2>3, <2>4, SoundFact
  <1>8. ASSUME DeleteSecret \/ Resize
        PROVE  Goal
    <2>1. /\ UNCHANGED <<addon, cached, credential, addonQueue, worker, talosCluster, release, crds, pods, copied>>
          /\ Disturb /\ hubSecret' \in {hubSecret, 0} /\ (size' = size \/ size' = 3 - size)
      BY <1>8 DEF DeleteSecret, Resize
    <2>2. \A a \in Addon : Proper(addon'[a], a, disturbances')
      BY <1>m, <1>p, <2>1
    <2>3. AddonsInv'
      BY <1>t, <2>1, <2>2, HubStep
    <2> QED BY <1>0, <2>1, <2>3, SoundFact
  <1>9. ASSUME NEW a \in Addon, EditAddon(a)
        PROVE  Goal
    <2>1. /\ UNCHANGED <<cached, credential, hubSecret, size, addonQueue, worker, talosCluster, release, crds,
                         pods, copied>>
          /\ Disturb /\ addon[a].exists
          /\ \/ addon' = [addon EXCEPT ![a] = [addon[a] EXCEPT !.enabled = ~@]]
             \/ addon' = [addon EXCEPT ![a] = [addon[a] EXCEPT !.spec = addon[a].spec + 1]]
      BY <1>t, <1>9 DEF EditAddon
    <2>2. /\ disturbances \in Nat /\ disturbances' = disturbances + 1 /\ MaxDisturbances \in Nat
          /\ disturbances' \in 0 .. MaxDisturbances
      BY <1>0, <2>1, DisturbFact, ObjectForms DEF Disturb
    <2>3. \A b \in Addon : Proper(addon[b], b, disturbances')
      BY <1>m, <1>p, <2>1
    <2>4. /\ addon[a] \in Objects /\ addon[a].spec \in 0 .. MaxDisturbances + 1
          /\ addon[a].spec <= disturbances + 1
      BY <1>p, ObjectForms DEF Proper
    <2>5. PICK obj : addon' = [addon EXCEPT ![a] = obj] /\ Proper(obj, a, disturbances')
      <3>1. CASE addon' = [addon EXCEPT ![a] = [addon[a] EXCEPT !.enabled = ~@]]
        <4> DEFINE obj == [addon[a] EXCEPT !.enabled = ~@]
        <4>1. obj \in Objects
          BY <2>4, ObjectForms
        <4>2. obj.exists = addon[a].exists /\ obj.spec = addon[a].spec /\ obj.ready = addon[a].ready
          BY <2>4 DEF Objects
        <4>3. Proper(obj, a, disturbances')
          BY <2>3, <4>1, <4>2 DEF Proper
        <4> QED BY <3>1, <4>3
      <3>2. CASE addon' = [addon EXCEPT ![a] = [addon[a] EXCEPT !.spec = addon[a].spec + 1]]
        <4> DEFINE obj == [addon[a] EXCEPT !.spec = addon[a].spec + 1]
        <4>1. /\ addon[a].spec + 1 \in 0 .. MaxDisturbances + 1
              /\ addon[a].spec + 1 # 0 /\ addon[a].spec + 1 <= disturbances' + 1
          BY <2>2, <2>4
        <4>2. obj \in Objects /\ obj.spec = addon[a].spec + 1 /\ obj.ready = addon[a].ready
          BY <2>4, <4>1, SpecReplaced
        <4>3. Proper(obj, a, disturbances')
          BY <2>3, <4>1, <4>2 DEF Proper
        <4> QED BY <3>2, <4>3
      <3> QED BY <2>1, <3>1, <3>2
    <2>6. obj \in Objects
      BY <2>5 DEF Proper
    <2>7. addon' \in [Addon -> Objects] /\ \A b \in Addon : Proper(addon'[b], b, disturbances')
      BY <1>t, <2>3, <2>5, <2>6
    <2>8. AddonsInv'
      BY <1>t, <2>1, <2>7, HubStep
    <2> QED BY <1>0, <2>1, <2>8, SoundFact
  <1> QED BY <1>1, <1>2, <1>3, <1>4, <1>5, <1>6, <1>7, <1>8, <1>9

\* The Addons that must come first are installed when the worker begins.
LEMMA Begins ==
    ASSUME AddonsInv, NEW a \in Addon, Reconcile(a)
    PROVE  worker' \in WorkerStates /\ WorkerInv' /\ addonQueue' \subseteq Addon
  <1>1. AddonsTypeOK /\ SpecInv /\ ReadyInv /\ WorkerInv
    BY DEF AddonsInv
  <1>2. /\ worker \in WorkerStates /\ addonQueue \subseteq Addon /\ size \in 1 .. 2
        /\ cached \in [Addon -> Objects] /\ MaxDisturbances \in Nat
    BY <1>1, ObjectForms DEF AddonsTypeOK, WorkerStates
  <1>3. addonQueue' \subseteq Addon /\ UNCHANGED <<release, crds>>
    BY <1>2 DEF Reconcile, target
  <1>4. \A b \in Addon : Installed(b)' <=> Installed(b)
    BY <1>3 DEF Installed, CRDsReady, NoRequest
  <1>5. CASE worker' = worker
    <2>1. NothingUndone
      BY <1>4 DEF NothingUndone
    <2> QED BY <1>1, <1>2, <1>3, <1>5, <2>1, WorkerStill
  <1>6. CASE worker' # worker
    <2>1. /\ worker' = [pc |-> "secrets", cur |-> a, copy |-> cached[a],
                        siblings |-> Earlier(a, cached),
                        req |-> Request(cached[a].spec, a), ready |-> "none"]
          /\ Enabled(cached[a]) /\ EarlierReady(a)
      BY <1>6 DEF Reconcile
    <2>2. cached[a] \in Objects /\ cached[a].spec \in 0 .. MaxDisturbances + 1 /\ cached[a].spec # 0
      BY <1>1, <1>2, <2>1, ObjectForms DEF Enabled, SpecInv
    <2>3. Request(cached[a].spec, a) \in Requests /\ Request(cached[a].spec, a) # NoRequest
      <3>1. Computed(a) \in 1 .. 2
        BY DEF Computed
      <3> QED BY <2>2, <3>1 DEF Request, Requests, NoRequest
    <2>4. Earlier(a, cached) \subseteq Addon
      BY DEF Earlier
    <2>5. \A b \in Earlier(a, cached) : Installed(b)'
      BY <1>1, <1>4, <2>1, <2>4 DEF EarlierReady, ReadyInv
    <2>6. worker' \in WorkerStates
      BY <2>1, <2>2, <2>3, <2>4 DEF WorkerStates
    <2>7. /\ worker'.pc = "secrets" /\ worker'.cur = a /\ worker'.siblings = Earlier(a, cached)
          /\ worker'.req # NoRequest
      BY <2>1, <2>3
    <2>8. WorkerInv'
      BY <2>5, <2>7 DEF WorkerInv, NoRequest, Addon
    <2> QED BY <1>3, <2>6, <2>8
  <1> QED BY <1>5, <1>6

\* Only the state of a release changes.
LEMMA ReleaseMoves ==
    ASSUME AddonsTypeOK, NEW a \in Addon, NEW st \in {"pending", "failed"},
           release' = [release EXCEPT ![a].state = st]
    PROVE  /\ release' \in [Addon -> ReleaseStates]
           /\ \A b \in Addon : release'[b].req = release[b].req
  <1>1. release \in [Addon -> ReleaseStates]
    BY DEF AddonsTypeOK, ReleaseStates
  <1> QED BY <1>1 DEF ReleaseStates

\* A release is deployed.
LEMMA ReleaseDeployed ==
    ASSUME AddonsTypeOK, NEW a \in Addon, NEW req \in Requests,
           release' = [release EXCEPT ![a] = [state |-> "deployed", req |-> req]]
    PROVE  /\ release' \in [Addon -> ReleaseStates] /\ release'[a].req = req
           /\ \A b \in Addon : b # a => release'[b] = release[b]
  <1>1. release \in [Addon -> ReleaseStates]
    BY DEF AddonsTypeOK, ReleaseStates
  <1> QED BY <1>1 DEF ReleaseStates

\* Applying a chart takes no CRD away.
LEMMA CRDsKept ==
    ASSUME AddonsTypeOK, NEW a \in Addon, crds' = crds \/ crds' = CRDsApplied(a)
    PROVE  /\ crds' \in [Addon -> {"none", "created", "established"}]
           /\ \A b \in Addon : crds[b] = "established" => crds'[b] = "established"
  <1>1. crds \in [Addon -> {"none", "created", "established"}]
    BY DEF AddonsTypeOK
  <1> QED BY <1>1 DEF CRDsApplied

\* The steps of the add-on controller short of its status.
LEMMA WorkerSteps ==
    ASSUME AddonsInv,
           \/ SyncSecrets \/ Install \/ FinishInstall \/ ChartCRDsReady
           \/ ProbeHealthy \/ StepFails
           \/ \E a \in Addon : Reconcile(a)
    PROVE  AddonsInv' /\ Sound
  <1> DEFINE Goal == AddonsInv' /\ Sound
  <1> USE DEF hub, target
  <1> DEFINE cur == worker.cur
  <1>0. AddonsTypeOK /\ SpecInv /\ ReadyInv /\ WorkerInv
    BY DEF AddonsInv
  <1>t. /\ addonQueue \subseteq Addon /\ worker \in WorkerStates
        /\ release \in [Addon -> ReleaseStates]
        /\ crds \in [Addon -> {"none", "created", "established"}]
        /\ pods \in [Addon -> {"none", "starting", "healthy", "broken"}]
    BY <1>0 DEF AddonsTypeOK, WorkerStates, ReleaseStates
  <1>w. worker.pc # "idle" => cur \in Addon /\ worker.req # NoRequest /\ worker.req \in Requests
    BY <1>0, <1>t DEF WorkerInv, WorkerStates
  <1>1. ASSUME NEW a \in Addon, Reconcile(a)
        PROVE  Goal
    <2>1. UNCHANGED <<addon, cached, credential, hubSecret, size, talosCluster, copied, release, crds, pods,
                      disturbances>>
      BY <1>1 DEF Reconcile
    <2>2. worker' \in WorkerStates /\ WorkerInv' /\ addonQueue' \subseteq Addon
      BY <1>1, Begins
    <2>3. NothingUndone
      BY <1>0, <2>1, UndoneFact
    <2>4. AddonsInv'
      BY <1>t, <2>1, <2>2, <2>3, TargetStep
    <2> QED BY <1>0, <2>1, <2>4, SoundFact
  <1>2. ASSUME SyncSecrets
        PROVE  Goal
    <2>1. /\ UNCHANGED <<addon, cached, credential, hubSecret, size, addonQueue, talosCluster, release, crds, pods,
                         disturbances>>
          /\ worker.pc = "secrets" /\ copied' \in {copied, hubSecret}
          /\ \/ worker' = [worker EXCEPT !.pc = "install"]
             \/ SetReadyNext("false")
      BY <1>2 DEF SyncSecrets
    <2>2. /\ worker' \in WorkerStates /\ worker'.cur = cur /\ worker'.req = worker.req
          /\ worker'.siblings = worker.siblings
          /\ worker'.pc = "install" \/ (worker'.pc = "status" /\ worker'.ready = "false")
      BY <1>0, <2>1, WorkerMoves, WorkerReports
    <2>3. NothingUndone
      BY <1>0, <2>1, UndoneFact
    <2>4. WorkerInv'
      BY <1>0, <2>1, <2>2, <2>3, WorkerGoesOn
    <2>5. AddonsInv'
      BY <1>t, <2>1, <2>2, <2>3, <2>4, TargetStep
    <2> QED BY <1>0, <2>1, <2>5, SoundFact
  <1>3. ASSUME Install
        PROVE  Goal
    <2>1. /\ UNCHANGED <<addon, cached, credential, hubSecret, size, addonQueue, talosCluster, copied, pods,
                         disturbances>>
          /\ worker.pc = "install"
          /\ \/ worker' = [worker EXCEPT !.pc = "finish"]
             \/ SetReadyNext("false")
          /\ release' = release \/ release' = [release EXCEPT ![cur].state = "pending"]
          /\ crds' = crds \/ crds' = CRDsApplied(cur)
      BY <1>3 DEF Install, StartHelm, StartApply
    <2>2. /\ worker' \in WorkerStates /\ worker'.cur = cur /\ worker'.req = worker.req
          /\ worker'.siblings = worker.siblings
          /\ worker'.pc = "finish" \/ (worker'.pc = "status" /\ worker'.ready = "false")
      BY <1>0, <2>1, WorkerMoves, WorkerReports
    <2>3. cur \in Addon
      BY <1>w, <2>1
    <2>4. /\ release' \in [Addon -> ReleaseStates]
          /\ \A a \in Addon : release'[a].req = release[a].req
          /\ crds' \in [Addon -> {"none", "created", "established"}]
          /\ \A a \in Addon : crds[a] = "established" => crds'[a] = "established"
      BY <1>0, <1>t, <2>1, <2>3, ReleaseMoves, CRDsKept
    <2>5. NothingUndone
      BY <1>0, <2>4, UndoneFact
    <2>6. WorkerInv'
      BY <1>0, <2>1, <2>2, <2>5, WorkerGoesOn
    <2>7. AddonsInv'
      BY <1>t, <2>1, <2>2, <2>4, <2>5, <2>6, TargetStep
    <2> QED BY <1>0, <2>1, <2>7, SoundFact
  <1>4. ASSUME FinishInstall
        PROVE  Goal
    <2>1. /\ UNCHANGED <<addon, cached, credential, hubSecret, size, addonQueue, talosCluster, copied,
                         disturbances>>
          /\ worker.pc = "finish" /\ worker' = [worker EXCEPT !.pc = "crds"]
          /\ release' = [release EXCEPT ![cur] = [state |-> "deployed", req |-> worker.req]]
          /\ crds' = CRDsApplied(cur)
          /\ pods' = [pods EXCEPT ![cur] = IF cur \in WithPods /\ release[cur].req # worker.req
                                           THEN "starting" ELSE @]
      BY <1>4 DEF FinishInstall
    <2>2. /\ worker' \in WorkerStates /\ worker'.cur = cur /\ worker'.req = worker.req
          /\ worker'.siblings = worker.siblings /\ worker'.pc = "crds"
      BY <1>0, <2>1, WorkerMoves
    <2>3. cur \in Addon /\ worker.req # NoRequest /\ worker.req \in Requests
      BY <1>w, <2>1
    <2>4. /\ release' \in [Addon -> ReleaseStates] /\ release'[cur].req = worker.req
          /\ \A a \in Addon : a # cur => release'[a] = release[a]
          /\ crds' \in [Addon -> {"none", "created", "established"}]
          /\ \A a \in Addon : crds[a] = "established" => crds'[a] = "established"
      <3>1. /\ release' \in [Addon -> ReleaseStates] /\ release'[cur].req = worker.req
            /\ \A a \in Addon : a # cur => release'[a] = release[a]
        BY <1>0, <2>1, <2>3, ReleaseDeployed
      <3>2. /\ crds' \in [Addon -> {"none", "created", "established"}]
            /\ \A a \in Addon : crds[a] = "established" => crds'[a] = "established"
        BY <1>0, <2>1, <2>3, CRDsKept
      <3> QED BY <3>1, <3>2
    <2>5. pods' \in [Addon -> {"none", "starting", "healthy", "broken"}]
      BY <1>t, <2>1
    <2>6. NothingUndone
      BY <1>0, <2>3, <2>4, UndoneFact
    <2>7. WorkerInv'
      BY <1>0, <2>1, <2>2, <2>3, <2>4, <2>6, WorkerGoesOn
    <2>8. AddonsInv'
      BY <1>t, <2>1, <2>2, <2>4, <2>5, <2>6, <2>7, TargetStep
    <2> QED BY <1>0, <2>1, <2>8, SoundFact
  <1>5. ASSUME ChartCRDsReady
        PROVE  Goal
    <2>1. /\ UNCHANGED <<addon, cached, credential, hubSecret, size, addonQueue, talosCluster, copied, release,
                         crds, pods, disturbances>>
          /\ worker.pc = "crds"
          /\ \/ CRDsReady(cur) /\ worker' = [worker EXCEPT !.pc = "probe"]
             \/ SetReadyNext("false")
      BY <1>5 DEF ChartCRDsReady
    <2>2. /\ worker' \in WorkerStates /\ worker'.cur = cur /\ worker'.req = worker.req
          /\ worker'.siblings = worker.siblings
          /\ \/ worker'.pc = "probe" /\ CRDsReady(cur)
             \/ worker'.pc = "status" /\ worker'.ready = "false"
      BY <1>0, <2>1, WorkerMoves, WorkerReports
    <2>3. release[cur].req # NoRequest
      BY <1>0, <2>1 DEF WorkerInv
    <2>4. NothingUndone
      BY <1>0, <2>1, UndoneFact
    <2>5. worker'.pc = "probe" => Installed(cur)'
      BY <2>1, <2>2, <2>3 DEF Installed, CRDsReady, NoRequest
    <2>6. WorkerInv'
      BY <1>0, <2>1, <2>2, <2>3, <2>4, <2>5, WorkerGoesOn
    <2>7. AddonsInv'
      BY <1>t, <2>1, <2>2, <2>4, <2>6, TargetStep
    <2> QED BY <1>0, <2>1, <2>7, SoundFact
  <1>6. ASSUME ProbeHealthy
        PROVE  Goal
    <2>1. /\ UNCHANGED <<addon, cached, credential, hubSecret, size, addonQueue, talosCluster, copied, release,
                         crds, pods, disturbances>>
          /\ worker.pc = "probe"
          /\ \E status \in {"true", "false"} : SetReadyNext(status)
      <3>1. (IF NamespaceHealthy(cur) THEN "true" ELSE "false") \in {"true", "false"}
        OBVIOUS
      <3> QED BY <1>6, <3>1 DEF ProbeHealthy
    <2>2. /\ worker' \in WorkerStates /\ worker'.cur = cur /\ worker'.req = worker.req
          /\ worker'.siblings = worker.siblings /\ worker'.pc = "status"
      BY <1>0, <2>1, WorkerReports
    <2>3. NothingUndone
      BY <1>0, <2>1, UndoneFact
    <2>4. Installed(cur)'
      BY <1>0, <1>w, <2>1, <2>2, <2>3 DEF WorkerInv, NothingUndone
    <2>5. WorkerInv'
      BY <1>0, <2>1, <2>2, <2>3, <2>4, WorkerGoesOn
    <2>6. AddonsInv'
      BY <1>t, <2>1, <2>2, <2>3, <2>5, TargetStep
    <2> QED BY <1>0, <2>1, <2>6, SoundFact
  <1>7. ASSUME StepFails
        PROVE  Goal
    <2>1. /\ UNCHANGED <<addon, cached, credential, hubSecret, size, talosCluster, copied, crds, pods>>
          /\ Disturb /\ worker.pc \in {"secrets", "install", "finish", "crds", "probe"}
          /\ \/ SetReadyNext("false")
             \/ worker' = Idle
          /\ addonQueue' = addonQueue \/ addonQueue' = addonQueue \cup {cur}
          /\ release' = release \/ release' = [release EXCEPT ![cur].state = "failed"]
      BY <1>7 DEF StepFails, Return
    <2>2. cur \in Addon /\ worker.pc # "idle"
      BY <1>w, <2>1
    <2>3. /\ release' \in [Addon -> ReleaseStates]
          /\ \A a \in Addon : release'[a].req = release[a].req
      BY <1>0, <1>t, <2>1, <2>2, ReleaseMoves
    <2>4. NothingUndone
      BY <1>0, <2>1, <2>3, UndoneFact
    <2>5. worker' \in WorkerStates /\ WorkerInv'
      <3>1. ASSUME worker' = Idle
            PROVE  worker' \in WorkerStates /\ WorkerInv'
        <4>1. NoRequest \in Requests
          BY ObjectForms DEF NoRequest, Requests
        <4> QED BY <3>1, <4>1, ObjectForms DEF Idle, WorkerStates, WorkerInv
      <3>2. ASSUME SetReadyNext("false")
            PROVE  worker' \in WorkerStates /\ WorkerInv'
        <4>1. /\ worker' \in WorkerStates /\ worker'.cur = cur /\ worker'.req = worker.req
              /\ worker'.siblings = worker.siblings /\ worker'.pc = "status" /\ worker'.ready = "false"
          BY <1>0, <3>2, WorkerReports
        <4> QED BY <1>0, <2>2, <2>4, <4>1, WorkerGoesOn
      <3> QED BY <2>1, <3>1, <3>2
    <2>6. AddonsInv'
      BY <1>t, <2>1, <2>2, <2>3, <2>4, <2>5, TargetStep
    <2> QED BY <1>0, <2>1, <2>2, <2>6, SoundFact
  <1> QED BY <1>1, <1>2, <1>3, <1>4, <1>5, <1>6, <1>7

\* The steps of the target cluster.
LEMMA TargetSteps ==
    ASSUME AddonsInv, NEW a \in Addon,
           Establish(a) \/ PodsStart(a) \/ PodsBreak(a) \/ PodsRecover(a)
    PROVE  AddonsInv' /\ Sound
  <1>0. AddonsTypeOK /\ WorkerInv
    BY DEF AddonsInv
  <1>t. /\ addonQueue \subseteq Addon /\ worker \in WorkerStates
        /\ release \in [Addon -> ReleaseStates]
        /\ crds \in [Addon -> {"none", "created", "established"}]
        /\ pods \in [Addon -> {"none", "starting", "healthy", "broken"}]
    BY <1>0 DEF AddonsTypeOK, WorkerStates, ReleaseStates
  <1>1. /\ UNCHANGED <<addon, cached, credential, hubSecret, size, addonQueue, worker, talosCluster, copied, release>>
        /\ Disturb \/ UNCHANGED disturbances
        /\ crds' = crds \/ crds' = [crds EXCEPT ![a] = "established"]
        /\ pods' = pods \/ \E st \in {"healthy", "broken"} : pods' = [pods EXCEPT ![a] = st]
    BY DEF Establish, PodsStart, PodsBreak, PodsRecover, hub
  <1>2. /\ crds' \in [Addon -> {"none", "created", "established"}]
        /\ \A b \in Addon : crds[b] = "established" => crds'[b] = "established"
        /\ pods' \in [Addon -> {"none", "starting", "healthy", "broken"}]
    BY <1>t, <1>1
  <1>3. NothingUndone
    BY <1>0, <1>1, <1>2, UndoneFact
  <1>4. WorkerInv'
    BY <1>0, <1>1, <1>3, WorkerStill
  <1>5. AddonsInv'
    BY <1>t, <1>1, <1>2, <1>3, <1>4, TargetStep
  <1> QED BY <1>0, <1>1, <1>5, SoundFact

\* No step leaves the invariant, and every step is sound.
LEMMA AddonsInvNext ==
    ASSUME AddonsInv, [AddonsNext]_addonVars
    PROVE  AddonsInv' /\ Sound
  <1>1. CASE AddonsNext
    BY <1>1, HubSteps, WorkerSteps, TargetSteps DEF AddonsNext, WorkerStep
  <1>2. CASE UNCHANGED addonVars
    <2>1. UNCHANGED <<addon, cached, credential, hubSecret, size, addonQueue, worker, talosCluster, copied, release,
                      crds, pods, disturbances>>
      BY <1>2 DEF addonVars, hub, target
    <2>2. AddonsTypeOK /\ WorkerInv
      BY DEF AddonsInv
    <2>3. /\ addon \in [Addon -> Objects] /\ addonQueue \subseteq Addon
          /\ talosCluster \in TalosClusters
      BY <2>2 DEF AddonsTypeOK
    <2>4. \A a \in Addon : Proper(addon'[a], a, disturbances')
      BY <2>1, StoredProper
    <2>5. AddonsInv'
      BY <2>1, <2>3, <2>4, HubStep
    <2> QED BY <2>1, <2>2, <2>5, SoundFact
  <1> QED BY <1>1, <1>2

\* Nothing is seeded at first.
LEMMA AddonsInvInit ==
    ASSUME AddonsInit
    PROVE  AddonsInv
  <1>1. MaxDisturbances \in Nat /\ Absent \in Objects
    BY ObjectForms
  <1>2. NoRequest \in Requests
    BY <1>1 DEF NoRequest, Requests
  <1>3. /\ addon = [a \in Addon |-> Absent] /\ cached = addon
        /\ credential = 1 /\ disturbances = 0 /\ worker = Idle
    BY DEF AddonsInit
  <1>4. SpecInv /\ ReadyInv /\ WorkerInv
    BY <1>1, <1>3 DEF SpecInv, ReadyInv, WorkerInv, Absent, Idle
  <1>5. AddonsTypeOK
    BY <1>1, <1>2 DEF AddonsInit, AddonsTypeOK, TalosClusters, Idle
  <1> QED BY <1>4, <1>5 DEF AddonsInv

\* The invariant of the add-ons.
LEMMA AddonsAlways ==
    AddonsSpec => []AddonsInv
  <1>1. AddonsInit => AddonsInv
    BY AddonsInvInit
  <1>2. AddonsInv /\ [AddonsNext]_addonVars => AddonsInv'
    BY AddonsInvNext
  <1> QED BY <1>1, <1>2, PTL DEF AddonsSpec

\* Every variable of Addons keeps its type, however often Addons are edited,
\* requests fail and the process restarts.
THEOREM AddonsTyping ==
    AddonsSpec => []AddonsTypeOK
  <1>1. AddonsInv => AddonsTypeOK
    BY DEF AddonsInv
  <1> QED BY <1>1, AddonsAlways, PTL

\* waitForEarlierWaves with setReady, for any waves: no chart is installed for
\* the first time before the CRDs of the earlier waves are served.
THEOREM WavesAreInOrder ==
    AddonsSpec => WavesInOrder
  <1>1. AddonsInv /\ [AddonsNext]_addonVars =>
           [\A a \in Addon :
               release[a].state = "none" /\ release'[a].state # "none" =>
                   \A b \in worker.siblings \cap WithCRDs : crds[b] = "established"]_addonVars
    BY AddonsInvNext DEF Sound
  <1> QED BY <1>1, AddonsAlways, PTL DEF AddonsSpec, WavesInOrder

\* reconcileAddons: a cluster that turns Ready with a current cache has all its
\* enabled add-ons installed and their CRDs served.
THEOREM ReadyMeansInstalled ==
    AddonsSpec => ReadyClusterHasAddons
  <1>1. AddonsInv /\ [AddonsNext]_addonVars =>
           [~talosCluster.ready /\ talosCluster'.ready /\ cached = addon =>
               \A a \in Addon : Enabled(addon[a]) =>
                   /\ release[a].req # NoRequest
                   /\ a \in WithCRDs => crds[a] = "established"]_addonVars
    BY AddonsInvNext DEF Sound, Installed, CRDsReady
  <1> QED BY <1>1, AddonsAlways, PTL DEF AddonsSpec, ReadyClusterHasAddons
==============================================================================
