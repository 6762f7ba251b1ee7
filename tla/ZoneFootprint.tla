--------------------------- MODULE ZoneFootprint ---------------------------
(***************************************************************************)
(* What pkg/domain/zone puts onto a zone's own cluster, in which order,    *)
(* and which version of kontinuum-server it deploys there.  Pure operators *)
(* only; ZoneController takes the steps.                                   *)
(***************************************************************************)
EXTENDS Naturals, Sequences, FiniteSets

CONSTANTS
    Servers,     \* registered kontinuum-servers, numbered in name order
    Own,         \* the one of them that runs in the zone
    MaxVersion   \* bound: the newest release there is

ASSUME FootprintAssumption ==
    /\ Servers \subseteq Nat /\ Own \in Servers
    /\ MaxVersion \in Nat \ {0, 1}

-----------------------------------------------------------------------------
(***************************************************************************)
(* Versions.  A Kontinuum that was created and never beat reports none.    *)
(***************************************************************************)
Unreported == 0
Floating == 1                  \* a tag such as "dev": not a semantic version
Released == 2 .. MaxVersion
Versions == Unreported .. MaxVersion
NotRegistered == MaxVersion + 1

Registered(fleet) == {s \in Servers : fleet[s] # NotRegistered}

\* semver.Compare: all invalid versions are equal and below the valid ones.
Precedence(v) == IF v \in Released THEN v ELSE 0

\* Mutant: the first Kontinuum by name speaks for the fleet.
AnyKontinuumVersion(fleet) ==
    IF Registered(fleet) = {} THEN Unreported
    ELSE fleet[CHOOSE s \in Registered(fleet) : \A t \in Registered(fleet) : s <= t]

\* The highest version reported, ties going to the first name.
FindKontinuumVersion(fleet) ==
    LET before(s, t) == \/ Precedence(fleet[s]) > Precedence(fleet[t])
                        \/ Precedence(fleet[s]) = Precedence(fleet[t]) /\ s <= t
    IN  IF Registered(fleet) = {} THEN Unreported
        ELSE fleet[CHOOSE s \in Registered(fleet) :
                       \A t \in Registered(fleet) : before(s, t)]

\* A Kontinuum of this zone that has beaten at least once.
FindJoinedKontinuum(fleet) == fleet[Own] \in Floating .. MaxVersion

-----------------------------------------------------------------------------
(***************************************************************************)
(* The objects, in the order they are ensured and deleted.                 *)
(***************************************************************************)
EnvObjects == <<"env">>            \* the Secret and the ConfigMap
IdentityRBAC == <<"rbac">>         \* the account, its Role and the binding
ServerObjects == <<"deployment">>
ServiceObjects == <<"service">>

\* Mutant: the Deployment goes first.
InstallServerFirst == <<"namespace">> \o ServerObjects \o EnvObjects \o IdentityRBAC \o ServiceObjects

InstallWorkload == <<"namespace">> \o EnvObjects \o IdentityRBAC \o ServerObjects \o ServiceObjects

Edge == <<"issuer", "gateway">>
Certified == <<"certificate", "route">>
InstallNetwork == Edge \o Certified

\* Mutant: the record waits for the certificate.
ExposeCertificateFirst == <<"network", "installed", "dns">>

\* finishInstallWithDomain: the certificate's state is read with the network,
\* but the DNS record is written before anyone waits for the certificate.
Expose == <<"network", "dns", "installed">>

\* reconcileClusterAndInstall and reconcileInstall.
InstallPlan(domain) ==
    <<"cluster", "prepare", "workload">>
        \o (IF domain THEN Expose ELSE <<"installed">>) \o <<"join">>

UninstallNetwork == <<"dnsendpoint", "credential", "route", "certificate", "gateway", "issuer">>
UninstallWorkload == <<"deployment", "service", "env", "namespace">>

TeardownPlan == <<"downstream", "cluster", "finalizer">>

\* What external-dns leaves: the copy of its credential and, with its chart,
\* the CRD of the DNSEndpoints.  It is seeded only if the hub has DNS
\* configured.
ExternalDNS == {"credential", "dnscrd"}

\* What the add-ons of a Ready cluster leave, with the namespace of
\* cert-manager.
AddonObjects == {"namespace"} \cup ExternalDNS

\* What the cluster itself adds once it gets round to it.
Settled == {"tls"}

SetOf(plan) == {plan[i] : i \in 1 .. Len(plan)}

Objects == SetOf(InstallWorkload) \cup SetOf(InstallNetwork)
             \cup {"identity", "dnsendpoint"} \cup AddonObjects \cup Settled

\* ClusterIssuers and CRDs are cluster scoped; all else lives in the
\* namespace and can neither be created without it nor outlive it.
Namespaced == Objects \ {"issuer", "dnscrd", "namespace"}

Prefix(plan, n) == SetOf(SubSeq(plan, 1, n))

\* deleteDNSEndpoint, unlike the other deletes of uninstallNetwork, takes a
\* kind the cluster does not know for a failure.
Deletable(down) == "dnscrd" \in down

\* client.Delete of each, NotFound being no error.
Without(down, objects) ==
    down \ (objects \cup IF "namespace" \in objects THEN Namespaced ELSE {})

\* What the Deployment's pod mounts, reads its environment from and signs with.
PodNeeds == {"namespace", "identity"} \cup SetOf(EnvObjects) \cup SetOf(IdentityRBAC)
=============================================================================
