------------------------ MODULE ZoneControllerProofs ------------------------
(***************************************************************************)
(* Proofs about ZoneController, for any number of servers and versions, any *)
(* number of faults and any order of events.                               *)
(***************************************************************************)
EXTENDS ZoneController, SequenceTheorems, WellFoundedInduction, TLAPS

\* A pass with a client has been where the client came from: one that installs
\* has put the zone's etcd identity in place, and one that tears down has left
\* nothing of its own.  When the cluster goes the client goes with it.
ClientInv ==
    pass.client => /\ pass.obj.st = "live" => "identity" \in down
                   /\ pass.obj.st = "deleting" => down \subseteq AddonObjects

IInv == TypeOK /\ ClientInv /\ PodHasItsParts
-----------------------------------------------------------------------------
(***************************************************************************)
(* The plans.                                                              *)
(***************************************************************************)

Names == {"namespace", "env", "rbac", "deployment", "service", "issuer", "gateway", "certificate",
          "route", "dnsendpoint", "credential", "dnscrd", "identity", "tls"}

\* What the first n requests of a plan name.
LEMMA PrefixOf ==
    ASSUME NEW s \in Seq(Names), NEW n \in 0 .. Len(s)
    PROVE  Prefix(s, n) = {s[i] : i \in 1 .. n}
BY DEF Prefix, SetOf

\* A plan of two halves: so far either part of the first has been done, or all
\* of it and the beginning of the second.
LEMMA Halves ==
    ASSUME NEW s \in Seq(Names), NEW t \in Seq(Names)
    PROVE  /\ s \o t \in Seq(Names) /\ Len(s \o t) = Len(s) + Len(t)
           /\ SetOf(s \o t) = SetOf(s) \cup SetOf(t)
           /\ \A n \in 0 .. Len(s \o t) :
                  /\ Prefix(s \o t, n) \subseteq SetOf(s) \cup SetOf(t)
                  /\ n = 0 => Prefix(s \o t, n) = {}
                  /\ n <= Len(s) => Prefix(s \o t, n) \subseteq SetOf(s)
                  /\ n > Len(s) => SetOf(s) \cup {t[1]} \subseteq Prefix(s \o t, n)
                  /\ n = Len(s \o t) => Prefix(s \o t, n) = SetOf(s \o t)
<1> DEFINE u == s \o t
<1>1. /\ u \in Seq(Names) /\ Len(u) = Len(s) + Len(t) /\ Len(s) \in Nat /\ Len(t) \in Nat
      /\ \A i \in 1 .. Len(s) + Len(t) : u[i] = IF i <= Len(s) THEN s[i] ELSE t[i - Len(s)]
  BY ConcatProperties
<1> HIDE DEF u
<1>2. SetOf(s) \subseteq SetOf(u)
  BY <1>1 DEF SetOf
<1>3. SetOf(t) \subseteq SetOf(u)
  <2> SUFFICES ASSUME NEW i \in 1 .. Len(t) PROVE t[i] \in SetOf(u)
    BY DEF SetOf
  <2>1. i + Len(s) \in 1 .. Len(u) /\ ~(i + Len(s) <= Len(s)) /\ (i + Len(s)) - Len(s) = i
    BY <1>1
  <2>2. u[i + Len(s)] = t[i]
    BY <1>1, <2>1
  <2> QED
    BY <2>1, <2>2 DEF SetOf
<1>4. \A i \in 1 .. Len(u) : IF i <= Len(s) THEN u[i] \in SetOf(s) ELSE u[i] \in SetOf(t)
  <2> SUFFICES ASSUME NEW i \in 1 .. Len(u)
               PROVE  IF i <= Len(s) THEN u[i] \in SetOf(s) ELSE u[i] \in SetOf(t)
    OBVIOUS
  <2>1. CASE i <= Len(s)
    BY <1>1, <2>1 DEF SetOf
  <2>2. CASE ~(i <= Len(s))
    <3>1. i - Len(s) \in 1 .. Len(t) /\ u[i] = t[i - Len(s)]
      BY <1>1, <2>2
    <3> QED
      BY <3>1, <2>2 DEF SetOf
  <2> QED
    BY <2>1, <2>2
<1>5. SetOf(u) = SetOf(s) \cup SetOf(t)
  <2>1. \A x \in SetOf(u) : x \in SetOf(s) \cup SetOf(t)
    BY <1>4 DEF SetOf
  <2> QED
    BY <1>2, <1>3, <2>1
<1>6. ASSUME NEW n \in 0 .. Len(u)
      PROVE  /\ Prefix(u, n) \subseteq SetOf(s) \cup SetOf(t)
             /\ n = 0 => Prefix(u, n) = {}
             /\ n <= Len(s) => Prefix(u, n) \subseteq SetOf(s)
             /\ n > Len(s) => SetOf(s) \cup {t[1]} \subseteq Prefix(u, n)
             /\ n = Len(u) => Prefix(u, n) = SetOf(u)
  <2>1. Prefix(u, n) = {u[i] : i \in 1 .. n}
    BY <1>1, PrefixOf
  <2>2. Prefix(u, n) \subseteq SetOf(s) \cup SetOf(t) /\ (n <= Len(s) => Prefix(u, n) \subseteq SetOf(s))
    BY <2>1, <1>1, <1>4
  <2>3. n = 0 => Prefix(u, n) = {}
    BY <2>1
  <2>4. n > Len(s) => SetOf(s) \cup {t[1]} \subseteq Prefix(u, n)
    <3>1. n > Len(s) => SetOf(s) \subseteq Prefix(u, n)
      BY <2>1, <1>1 DEF SetOf
    <3>2. n > Len(s) => t[1] \in Prefix(u, n)
      <4> SUFFICES ASSUME n > Len(s) PROVE t[1] \in Prefix(u, n)
        OBVIOUS
      <4>1. Len(s) + 1 \in 1 .. n /\ ~(Len(s) + 1 <= Len(s)) /\ (Len(s) + 1) - Len(s) = 1
            /\ Len(s) + 1 \in 1 .. Len(u)
        BY <1>1
      <4>2. u[Len(s) + 1] = t[1]
        BY <1>1, <4>1
      <4> QED
        BY <2>1, <4>1, <4>2
    <3> QED
      BY <3>1, <3>2
  <2>5. n = Len(u) => Prefix(u, n) = SetOf(u)
    BY <2>1 DEF SetOf
  <2> QED
    BY <2>2, <2>3, <2>4, <2>5
<1> QED
  BY <1>1, <1>5, <1>6 DEF u

\* What a sequence of requests does in two parts.
LEMMA Whole ==
    ASSUME NEW s \in Seq(Names), NEW t \in Seq(Names)
    PROVE  /\ s \o t \in Seq(Names) /\ Len(s \o t) = Len(s) + Len(t)
           /\ SetOf(s \o t) = SetOf(s) \cup SetOf(t)
           /\ \A i \in 1 .. Len(s) : (s \o t)[i] = s[i]
BY Halves, ConcatProperties

\* Sequences of one and of two requests.
LEMMA Singles ==
    /\ \A x \in Names : <<x>> \in Seq(Names) /\ Len(<<x>>) = 1 /\ SetOf(<<x>>) = {x} /\ <<x>>[1] = x
    /\ \A x, y \in Names : <<x, y>> \in Seq(Names) /\ Len(<<x, y>>) = 2 /\ SetOf(<<x, y>>) = {x, y}
<1>1. ASSUME NEW x \in Names PROVE SetOf(<<x>>) = {x}
  BY DEF SetOf
<1>2. ASSUME NEW x \in Names, NEW y \in Names PROVE SetOf(<<x, y>>) = {x, y}
  <2>1. Len(<<x, y>>) = 2 /\ 1 .. 2 = {1, 2}
    OBVIOUS
  <2> QED
    BY <2>1 DEF SetOf
<1> QED
  BY <1>1, <1>2

\* installWorkload: the Deployment comes after the namespace, the environment
\* and the account.
LEMMA Workload ==
    /\ SetOf(InstallWorkload) = {"namespace", "env", "rbac", "deployment", "service"}
    /\ \A n \in 0 .. Len(InstallWorkload) :
           /\ Prefix(InstallWorkload, n) \subseteq SetOf(InstallWorkload)
           /\ n = 0 => Prefix(InstallWorkload, n) = {}
           /\ "deployment" \in Prefix(InstallWorkload, n) =>
                  {"namespace", "env", "rbac"} \subseteq Prefix(InstallWorkload, n)
<1> DEFINE z == <<"namespace">>
           a == z \o EnvObjects
           b == a \o IdentityRBAC
           c == b \o ServerObjects
           d == c \o ServiceObjects
<1>1. /\ z \in Seq(Names) /\ SetOf(z) = {"namespace"} /\ Len(z) = 1
      /\ EnvObjects \in Seq(Names) /\ SetOf(EnvObjects) = {"env"} /\ Len(EnvObjects) = 1
      /\ IdentityRBAC \in Seq(Names) /\ SetOf(IdentityRBAC) = {"rbac"} /\ Len(IdentityRBAC) = 1
      /\ ServerObjects \in Seq(Names) /\ SetOf(ServerObjects) = {"deployment"} /\ Len(ServerObjects) = 1
      /\ ServiceObjects \in Seq(Names) /\ SetOf(ServiceObjects) = {"service"} /\ Len(ServiceObjects) = 1
  BY Singles DEF EnvObjects, IdentityRBAC, ServerObjects, ServiceObjects, Names
<1>0. d = InstallWorkload
  BY DEF InstallWorkload
<1> HIDE DEF z, a, b, c, d
<1>2. a \in Seq(Names) /\ Len(a) = 2 /\ SetOf(a) = {"namespace", "env"}
  <2>1. a \in Seq(Names) /\ Len(a) = Len(z) + Len(EnvObjects) /\ SetOf(a) = SetOf(z) \cup SetOf(EnvObjects)
    BY <1>1, Whole DEF a
  <2> QED
    BY <1>1, <2>1
<1>3. b \in Seq(Names) /\ Len(b) = 3 /\ SetOf(b) = {"namespace", "env", "rbac"}
  <2>1. b \in Seq(Names) /\ Len(b) = Len(a) + Len(IdentityRBAC) /\ SetOf(b) = SetOf(a) \cup SetOf(IdentityRBAC)
    BY <1>1, <1>2, Whole DEF b
  <2> QED
    BY <1>1, <1>2, <2>1
<1>4. /\ c \in Seq(Names) /\ Len(c) = 4 /\ SetOf(c) = {"namespace", "env", "rbac", "deployment"}
      /\ \A n \in 0 .. 4 : /\ n <= 3 => Prefix(c, n) \subseteq SetOf(b)
                           /\ n > 3 => SetOf(b) \subseteq Prefix(c, n)
  <2>1. c \in Seq(Names) /\ Len(c) = Len(b) + Len(ServerObjects) /\ SetOf(c) = SetOf(b) \cup SetOf(ServerObjects)
    BY <1>1, <1>3, Whole DEF c
  <2>2. c \in Seq(Names) /\ Len(c) = 4 /\ SetOf(c) = {"namespace", "env", "rbac", "deployment"}
    BY <1>1, <1>3, <2>1
  <2>3. \A n \in 0 .. Len(c) : /\ n <= Len(b) => Prefix(c, n) \subseteq SetOf(b)
                               /\ n > Len(b) => SetOf(b) \cup {ServerObjects[1]} \subseteq Prefix(c, n)
    BY <1>1, <1>3, Halves DEF c
  <2> QED
    BY <1>3, <2>2, <2>3
<1>5. /\ d \in Seq(Names) /\ Len(d) = 5
      /\ SetOf(d) = {"namespace", "env", "rbac", "deployment", "service"}
      /\ \A n \in 0 .. 5 : /\ Prefix(d, n) \subseteq SetOf(d) /\ (n = 0 => Prefix(d, n) = {})
                           /\ n > 4 => SetOf(c) \subseteq Prefix(d, n)
  <2>1. d \in Seq(Names) /\ Len(d) = Len(c) + Len(ServiceObjects) /\ SetOf(d) = SetOf(c) \cup SetOf(ServiceObjects)
    BY <1>1, <1>4, Whole DEF d
  <2>2. /\ d \in Seq(Names) /\ Len(d) = 5
        /\ SetOf(d) = {"namespace", "env", "rbac", "deployment", "service"}
    BY <1>1, <1>4, <2>1
  <2>3. \A n \in 0 .. Len(d) : /\ Prefix(d, n) \subseteq SetOf(c) \cup SetOf(ServiceObjects)
                               /\ n = 0 => Prefix(d, n) = {}
                               /\ n > Len(c) => SetOf(c) \cup {ServiceObjects[1]} \subseteq Prefix(d, n)
    BY <1>1, <1>4, Halves DEF d
  <2> QED
    BY <1>4, <2>1, <2>2, <2>3
<1>6. ASSUME NEW n \in 0 .. 4 PROVE Prefix(d, n) = Prefix(c, n)
  <2>1. \A i \in 1 .. Len(c) : d[i] = c[i]
    BY <1>1, <1>4, Whole DEF d
  <2>2. \A i \in 1 .. n : d[i] = c[i]
    BY <2>1, <1>1, <1>4
  <2>3. n \in 0 .. Len(c) /\ n \in 0 .. Len(d)
    BY <1>4, <1>5
  <2>4. Prefix(c, n) = {c[i] : i \in 1 .. n} /\ Prefix(d, n) = {d[i] : i \in 1 .. n}
    BY <2>3, <1>4, <1>5, PrefixOf
  <2> QED
    BY <2>2, <2>4
<1>7. ASSUME NEW n \in 0 .. 5, "deployment" \in Prefix(d, n)
      PROVE  {"namespace", "env", "rbac"} \subseteq Prefix(d, n)
  <2>1. CASE n > 4
    BY <2>1, <1>4, <1>5
  <2>2. CASE n \in 0 .. 4
    BY <2>2, <1>3, <1>4, <1>6, <1>7
  <2> QED
    BY <2>1, <2>2
<1> QED
  BY <1>0, <1>5, <1>7

\* installNetwork, and any part of it, touches its own objects only.
LEMMA Network ==
    /\ SetOf(InstallNetwork) = {"issuer", "gateway", "certificate", "route"}
    /\ \A n \in 0 .. Len(InstallNetwork) : Prefix(InstallNetwork, n) \subseteq SetOf(InstallNetwork)
<1>1. /\ Edge \in Seq(Names) /\ SetOf(Edge) = {"issuer", "gateway"}
      /\ Certified \in Seq(Names) /\ SetOf(Certified) = {"certificate", "route"}
  BY Singles DEF Edge, Certified, Names
<1> QED
  BY <1>1, Halves DEF InstallNetwork

\* The teardown deletes what the network needs first, and then the Deployment
\* before anything its pod needs.
LEMMA Undone ==
    /\ SetOf(Uninstall) = {"dnsendpoint", "credential", "route", "certificate", "gateway", "issuer",
                           "deployment", "service", "env", "namespace"}
    /\ Len(Uninstall) \in Nat
    /\ Prefix(Uninstall, Len(Uninstall)) = SetOf(Uninstall)
    /\ \A n \in 0 .. Len(Uninstall) :
           "deployment" \notin Prefix(Uninstall, n) =>
               Prefix(Uninstall, n) \subseteq {"dnsendpoint", "credential", "route", "certificate",
                                               "gateway", "issuer"}
<1> DEFINE N == UninstallNetwork
           W == UninstallWorkload
<1>1. /\ N \in Seq(Names) /\ Len(N) = 6
      /\ W \in Seq(Names) /\ Len(W) = 4 /\ W[1] = "deployment"
  BY DEF UninstallNetwork, UninstallWorkload, Names
<1>2. SetOf(N) = {"dnsendpoint", "credential", "route", "certificate", "gateway", "issuer"}
  <2>1. 1 .. Len(N) = {1, 2, 3, 4, 5, 6}
    BY <1>1
  <2> QED
    BY <2>1 DEF SetOf, UninstallNetwork
<1>3. SetOf(W) = {"deployment", "service", "env", "namespace"}
  <2>1. 1 .. Len(W) = {1, 2, 3, 4}
    BY <1>1
  <2> QED
    BY <2>1 DEF SetOf, UninstallWorkload
<1> HIDE DEF N, W
<1>4. /\ N \o W \in Seq(Names) /\ SetOf(N \o W) = SetOf(N) \cup SetOf(W)
      /\ \A n \in 0 .. Len(N \o W) : /\ n <= Len(N) => Prefix(N \o W, n) \subseteq SetOf(N)
                                     /\ n > Len(N) => "deployment" \in Prefix(N \o W, n)
                                     /\ n = Len(N \o W) => Prefix(N \o W, n) = SetOf(N \o W)
  BY <1>1, Halves
<1>5. Uninstall = N \o W
  BY DEF Uninstall, N, W
<1>6. Len(Uninstall) \in Nat
  BY <1>4, <1>5
<1>7. \A n \in 0 .. Len(Uninstall) : n <= Len(N) \/ n > Len(N)
  BY <1>1, <1>6
<1>8. \A n \in 0 .. Len(Uninstall) : "deployment" \notin Prefix(Uninstall, n) =>
          Prefix(Uninstall, n) \subseteq SetOf(N)
  BY <1>4, <1>5, <1>7
<1>9. Prefix(Uninstall, Len(Uninstall)) = SetOf(Uninstall)
  <2>1. Len(Uninstall) \in 0 .. Len(Uninstall)
    BY <1>6
  <2> QED
    BY <1>4, <1>5, <2>1
<1>10. SetOf(Uninstall) = {"dnsendpoint", "credential", "route", "certificate", "gateway", "issuer",
                           "deployment", "service", "env", "namespace"}
  BY <1>2, <1>3, <1>4, <1>5
<1> QED
  BY <1>2, <1>6, <1>8, <1>9, <1>10

\* The objects of a zone's footprint, by name.
LEMMA Named ==
    /\ Objects = Names /\ PodNeeds = {"namespace", "identity", "env", "rbac"}
    /\ Namespaced = Names \ {"issuer", "dnscrd", "namespace"}
<1>1. Objects = Names
  BY Workload, Network DEF Objects, Names, AddonObjects, ExternalDNS, Settled
<1>2. SetOf(EnvObjects) = {"env"} /\ SetOf(IdentityRBAC) = {"rbac"}
  BY Singles DEF EnvObjects, IdentityRBAC, Names
<1> QED
  BY <1>1, <1>2 DEF PodNeeds, Namespaced

-----------------------------------------------------------------------------
(***************************************************************************)
(* The version to deploy.                                                  *)
(***************************************************************************)

\* A set of numbers has a least one.
LEMMA Least == ASSUME NEW S, S \subseteq Nat, S # {} PROVE \E i \in S : \A j \in S : i <= j
<1> DEFINE R == OpToRel(<, Nat)
<1>1. IsWellFoundedOn(R, Nat)
  BY NatLessThanWellFounded, Zenon
<1>2. \A j, k \in Nat : j < k => <<j, k>> \in R
  BY DEF OpToRel
<1> HIDE DEF R
<1>3. PICK i \in S : \A j \in S : ~(<<j, i>> \in R)
  BY <1>1, WFMin, Zenon
<1>4. \A j \in S : i <= j
  <2> TAKE j \in S
  <2>1. i \in Nat /\ j \in Nat
    OBVIOUS
  <2>2. ~(j < i)
    BY <1>2, <1>3, <2>1, Zenon
  <2> QED
    BY <2>1, <2>2
<1> QED
  BY <1>4

\* What the assumptions say of each constant.
LEMMA Numbers == MaxVersion \in Nat /\ MaxVersion >= 2 /\ Servers \subseteq Nat /\ Own \in Servers
BY FootprintAssumption

\* findKontinuumVersion finds a version some server reports, and no server
\* reports one that takes precedence over it.
LEMMA Highest ==
    ASSUME NEW f \in [Servers -> Versions \cup {NotRegistered}]
    PROVE  /\ FindKontinuumVersion(f) \in Versions
           /\ \A t \in Registered(f) : Precedence(f[t]) <= Precedence(FindKontinuumVersion(f))
<1>1. CASE Registered(f) = {}
  BY <1>1, Numbers DEF FindKontinuumVersion, Versions, Unreported
<1>2. CASE Registered(f) # {}
  <2> DEFINE P(s) == Precedence(f[s])
             D == {MaxVersion - P(s) : s \in Registered(f)}
  <2>1. \A s \in Registered(f) : f[s] \in Versions /\ s \in Nat /\ P(s) \in 0 .. MaxVersion
    BY Numbers DEF Registered, Versions, Precedence, Released, Unreported
  <2>2. D \subseteq Nat /\ D # {}
    BY <2>1, <1>2, Numbers
  <2>3. PICK m \in D : \A j \in D : m <= j
    BY <2>2, Least
  <2> DEFINE T == {s \in Registered(f) : MaxVersion - P(s) = m}
  <2>4. T \subseteq Nat /\ T # {}
    BY <2>1, <2>3
  <2>5. PICK s \in T : \A t \in T : s <= t
    BY <2>4, Least
  <2>6. \A t \in Registered(f) : P(s) > P(t) \/ (P(s) = P(t) /\ s <= t)
    <3> TAKE t \in Registered(f)
    <3>1. MaxVersion - P(s) <= MaxVersion - P(t)
      BY <2>3, <2>5
    <3>2. P(s) \in 0 .. MaxVersion /\ P(t) \in 0 .. MaxVersion
      BY <2>1, <2>5
    <3>3. P(t) <= P(s)
      BY <3>1, <3>2, Numbers
    <3>4. P(s) = P(t) => t \in T
      BY <2>5
    <3> QED
      BY <3>2, <3>3, <3>4, <2>5
  <2> DEFINE B(r) == \A t \in Registered(f) : P(r) > P(t) \/ (P(r) = P(t) /\ r <= t)
             c == CHOOSE r \in Registered(f) : B(r)
  <2>7. c \in Registered(f) /\ B(c)
    <3>1. s \in Registered(f) /\ B(s)
      BY <2>5, <2>6
    <3> HIDE DEF B
    <3> QED
      BY <3>1
  <2>8. FindKontinuumVersion(f) = f[c]
    BY <1>2 DEF FindKontinuumVersion
  <2> HIDE DEF c
  <2> QED
    BY <2>1, <2>7, <2>8
<1> QED
  BY <1>1, <1>2

-----------------------------------------------------------------------------
(***************************************************************************)
(* The pass.                                                               *)
(***************************************************************************)

Passes == [todo : Seq(Steps), obj : Zones, fresh : BOOLEAN, client : BOOLEAN,
           image : Versions \X (0 .. 2), cert : BOOLEAN, again : BOOLEAN]

\* The pass is over, or goes on without a client it did not have.
Carries == pass' \in Passes /\ (pass'.client => pass.client /\ pass'.obj.st = pass.obj.st)

\* What is there before anything was added.
LEMMA Nothing ==
    /\ NoZone \in Zones /\ NoImage \in Versions \X (0 .. 2)
    /\ NoCluster \in [st : {"none", "live", "deleting"}, ready : BOOLEAN, owned : BOOLEAN]
    /\ Idle \in Passes /\ ~Idle.client
<1>1. NoZone \in Zones
  BY DEF NoZone, Zones, Conditions
<1>2. NoImage \in Versions \X (0 .. 2)
  BY Numbers DEF NoImage, Versions, Unreported
<1>3. NoCluster \in [st : {"none", "live", "deleting"}, ready : BOOLEAN, owned : BOOLEAN]
  BY DEF NoCluster
<1>4. Idle \in Passes /\ ~Idle.client
  BY <1>1, <1>2 DEF Idle, Passes
<1> QED
  BY <1>1, <1>2, <1>3, <1>4

\* The fields of a pass, and the pass after its next step.
LEMMA PassFields ==
    ASSUME TypeOK
    PROVE  /\ pass \in Passes
           /\ pass.obj \in Zones /\ pass.obj.conds \subseteq Conditions /\ pass.client \in BOOLEAN
           /\ pass.image \in Versions \X (0 .. 2)
           /\ Working => NextStep \in Passes /\ NextStep.client = pass.client /\ NextStep.obj = pass.obj
<1>1. pass \in Passes
  BY DEF TypeOK, Passes
<1>2. pass.obj \in Zones /\ pass.obj.conds \subseteq Conditions /\ pass.client \in BOOLEAN
      /\ pass.image \in Versions \X (0 .. 2) /\ pass.todo \in Seq(Steps)
  BY <1>1 DEF Passes, Zones
<1>3. Working => Tail(pass.todo) \in Seq(Steps)
  BY <1>2 DEF Working
<1>4. Working => NextStep \in Passes /\ NextStep.client = pass.client /\ NextStep.obj = pass.obj
  BY <1>1, <1>3 DEF NextStep, Passes
<1> QED
  BY <1>1, <1>2, <1>4

\* A pass that returns leaves none behind.
LEMMA Returned ==
    ASSUME TypeOK, NEW r \in BOOLEAN, Return(r)
    PROVE  queued' \in BOOLEAN /\ Carries
BY Nothing DEF Return, Carries, TypeOK

\* A copy of the Zone with other conditions is a Zone in the same state of deletion.
LEMMA Written ==
    ASSUME TypeOK, NEW c, c \subseteq Conditions
    PROVE  [pass.obj EXCEPT !.conds = c] \in Zones /\ [pass.obj EXCEPT !.conds = c].st = pass.obj.st
BY PassFields DEF Zones

\* A status write that ends the pass ...
LEMMA Persisted ==
    ASSUME TypeOK, NEW c, c \subseteq Conditions, NEW ok \in BOOLEAN, PersistAndReturn(c, ok)
    PROVE  zone' \in Zones /\ queued' \in BOOLEAN /\ Carries
<1>1. (~ok \/ pass.again \/ Unwritable(c)) \in BOOLEAN
  OBVIOUS
<1>2. queued' \in BOOLEAN /\ Carries
  BY <1>1, Returned DEF PersistAndReturn
<1>3. zone' \in Zones
  BY Written DEF PersistAndReturn, TypeOK
<1> QED
  BY <1>2, <1>3

\* ... and one after which it goes on.
LEMMA WentOn ==
    ASSUME TypeOK, NEW c, c \subseteq Conditions, Working, PersistAndGoOn(c)
    PROVE  zone' \in Zones /\ queued' \in BOOLEAN /\ Carries
<1>1. CASE Unwritable(c) /\ ReturnError /\ UNCHANGED zone
  BY <1>1, Returned DEF ReturnError, TypeOK
<1>2. CASE /\ zone' = IF pass.fresh THEN [pass.obj EXCEPT !.conds = c] ELSE zone
           /\ pass' = [NextStep EXCEPT !.obj.conds = c]
           /\ UNCHANGED queued
  <2>1. zone' \in Zones /\ queued' \in BOOLEAN
    BY <1>2, Written DEF TypeOK
  <2>2. pass' = [NextStep EXCEPT !.obj = [pass.obj EXCEPT !.conds = c]]
    BY <1>2, PassFields
  <2>3. Carries
    BY <2>2, PassFields, Written DEF Carries, Passes
  <2> QED
    BY <2>1, <2>3
<1> QED
  BY <1>1, <1>2 DEF PersistAndGoOn

\* The setters of conditions set conditions.
LEMMA ConditionSets ==
    ASSUME TypeOK
    PROVE  /\ \A c \in Conditions : SetFalse(c) \subseteq Conditions /\ SetTrue(c) \subseteq Conditions
           /\ \A j \in BOOLEAN : SetRegistryJoined(j) \subseteq Conditions
BY PassFields DEF SetFalse, SetTrue, SetRegistryJoined, Conditions

\* setInstalledFalse is a status write that ends the pass.
LEMMA NotInstalled == ASSUME TypeOK, SetInstalledFalse PROVE zone' \in Zones /\ queued' \in BOOLEAN /\ Carries
BY ConditionSets, Persisted DEF SetInstalledFalse, Conditions

\* The disturbances are counted up to their bound.
LEMMA DisturbedType == ASSUME TypeOK, Disturbed PROVE disturbances' \in 0 .. MaxDisturbances
BY ControllerAssumption DEF TypeOK, Disturbed

-----------------------------------------------------------------------------
(***************************************************************************)
(* The steps of a pass.                                                    *)
(***************************************************************************)

\* The plans of a pass consist of its steps.
LEMMA PlanTypes ==
    /\ \A d \in BOOLEAN : InstallPlan(d) \in Seq(Steps)
    /\ TeardownPlan \in Seq(Steps) /\ <<"finalizer">> \in Seq(Steps)
<1>1. /\ <<"cluster", "prepare", "workload">> \in Seq(Steps) /\ Expose \in Seq(Steps)
      /\ <<"installed">> \in Seq(Steps) /\ <<"join">> \in Seq(Steps)
      /\ TeardownPlan \in Seq(Steps) /\ <<"finalizer">> \in Seq(Steps)
  BY DEF Expose, TeardownPlan, Steps
<1>2. ASSUME NEW d \in BOOLEAN PROVE InstallPlan(d) \in Seq(Steps)
  <2> DEFINE a == <<"cluster", "prepare", "workload">>
             b == IF d THEN Expose ELSE <<"installed">>
             c == <<"join">>
  <2>1. a \in Seq(Steps) /\ b \in Seq(Steps) /\ c \in Seq(Steps)
    BY <1>1
  <2>2. InstallPlan(d) = a \o b \o c
    BY DEF InstallPlan
  <2> HIDE DEF a, b, c
  <2>3. a \o b \in Seq(Steps)
    BY <2>1, ConcatProperties
  <2> QED
    BY <2>1, <2>2, <2>3, ConcatProperties
<1> QED
  BY <1>1, <1>2

\* A pass begins without a client for the zone's cluster.
LEMMA ReconcileLiveStep == ASSUME IInv, ReconcileLive PROVE IInv'
<1> DEFINE obj == [cached EXCEPT !.fin = TRUE]
           new == [Idle EXCEPT !.todo = InstallPlan(obj.domain), !.obj = obj,
                               !.fresh = (cached = zone), !.again = Schedule(obj)]
<1>1. TypeOK
  BY DEF IInv
<1>2. obj \in Zones /\ obj.domain \in BOOLEAN
  BY <1>1 DEF TypeOK, Zones
<1>3. new \in Passes /\ ~new.client
  <2>1. InstallPlan(obj.domain) \in Seq(Steps)
    BY <1>2, PlanTypes
  <2>2. Schedule(obj) \in BOOLEAN
    BY DEF Schedule
  <2> HIDE DEF obj
  <2> QED
    BY <1>2, <2>1, <2>2, Nothing DEF Passes, Idle
<1>4. zone' \in Zones /\ queued' \in BOOLEAN /\ (pass' = new \/ pass' = pass)
  BY <1>1, <1>2 DEF ReconcileLive, TypeOK
<1> HIDE DEF new, obj
<1>5. Carries
  BY <1>1, <1>3, <1>4, PassFields DEF Carries
<1>6. down' = down
  BY DEF ReconcileLive, downVars
<1>7. ClientInv' /\ PodHasItsParts'
  BY <1>5, <1>6 DEF IInv, Carries, ClientInv, PodHasItsParts
<1>8. TypeOK'
  BY <1>1, <1>4, <1>5 DEF ReconcileLive, TypeOK, Carries, Passes, hubVars, downVars, worldVars
<1> QED
  BY <1>7, <1>8 DEF IInv

\* Steps that only write the status.
LEMMA CheckStep == ASSUME IInv, CheckCluster \/ FinishInstall \/ ReconcileRegistryJoin PROVE IInv'
<1>1. TypeOK
  BY DEF IInv
<1>2. /\ {"ClusterReady", "Installed"} \subseteq Conditions
      /\ Working /\ FindJoinedKontinuum(fleet) \in BOOLEAN
  <2>1. {"ClusterReady", "Installed"} \subseteq Conditions
    BY DEF Conditions
  <2>2. Working
    BY DEF CheckCluster, FinishInstall, ReconcileRegistryJoin, Installing
  <2>3. FindJoinedKontinuum(fleet) \in BOOLEAN
    BY DEF FindJoinedKontinuum
  <2> QED
    BY <2>1, <2>2, <2>3
<1>3. CheckCluster => zone' \in Zones /\ queued' \in BOOLEAN /\ Carries
  BY <1>1, <1>2, ConditionSets, WentOn, Persisted DEF CheckCluster
<1>4. FinishInstall => zone' \in Zones /\ queued' \in BOOLEAN /\ Carries
  BY <1>1, <1>2, ConditionSets, WentOn, NotInstalled DEF FinishInstall
<1>5. ReconcileRegistryJoin => zone' \in Zones /\ queued' \in BOOLEAN /\ Carries
  BY <1>1, <1>2, ConditionSets, Persisted DEF ReconcileRegistryJoin
<1>6. zone' \in Zones /\ queued' \in BOOLEAN /\ Carries
  BY <1>3, <1>4, <1>5
<1>7. UNCHANGED <<cached, cluster, seeded, kubeconfig, hubSecret, downVars, worldVars, disturbances>>
  BY DEF CheckCluster, FinishInstall, ReconcileRegistryJoin
<1>8. ClientInv' /\ PodHasItsParts'
  BY <1>6, <1>7 DEF IInv, Carries, ClientInv, PodHasItsParts, downVars
<1>9. TypeOK'
  BY <1>1, <1>6, <1>7 DEF TypeOK, Carries, Passes, downVars, worldVars
<1> QED
  BY <1>8, <1>9 DEF IInv

\* prepareZoneStorage gets the client and puts the identity in place before it goes on.
LEMMA PrepareStep == ASSUME IInv, Prepare PROVE IInv'
<1> DEFINE tag == FindKontinuumVersion(fleet)
           issued == LoadClusterKubeconfig /\ reachable /\ "namespace" \in down
<1>1. TypeOK /\ Working /\ pass.obj.st = "live"
  BY DEF IInv, Prepare, Installing
<1>2. tag \in Versions /\ ResolveImage(tag) \in Versions \X (0 .. 2) /\ <<tag, 0>> \in Versions \X (0 .. 2)
  BY <1>1, Highest DEF TypeOK, ResolveImage, ResolveDigest
<1>3. /\ down' = IF issued THEN down \cup {"identity"} ELSE down
      /\ hubSecret' = (hubSecret \/ issued)
      /\ UNCHANGED <<cached, cluster, seeded, kubeconfig, image, gateway, record, worldVars>>
  BY DEF Prepare
<1>4. \/ /\ issued
         /\ \/ pass' = [NextStep EXCEPT !.client = TRUE, !.image = ResolveImage(tag)]
            \/ pass' = [NextStep EXCEPT !.client = TRUE, !.image = <<tag, 0>>]
         /\ UNCHANGED <<zone, queued>>
      \/ SetInstalledFalse
  BY DEF Prepare
<1>5. disturbances' \in 0 .. MaxDisturbances
  BY <1>1, DisturbedType DEF Prepare, Fault, TypeOK
<1> HIDE DEF tag
<1>6. /\ zone' \in Zones /\ queued' \in BOOLEAN /\ pass' \in Passes
      /\ pass'.client => pass'.obj.st = "live" /\ (issued \/ pass.client)
  <2>1. CASE SetInstalledFalse
    BY <2>1, <1>1, NotInstalled DEF Carries
  <2>2. ASSUME NEW v \in Versions \X (0 .. 2), issued,
               pass' = [NextStep EXCEPT !.client = TRUE, !.image = v], UNCHANGED <<zone, queued>>
        PROVE  /\ zone' \in Zones /\ queued' \in BOOLEAN /\ pass' \in Passes
               /\ pass'.client => pass'.obj.st = "live" /\ (issued \/ pass.client)
    <3>1. pass' \in Passes /\ pass'.obj = pass.obj
      BY <1>1, <2>2, PassFields DEF Passes
    <3> QED
      BY <1>1, <2>2, <3>1 DEF TypeOK
  <2> QED
    BY <1>2, <1>4, <2>1, <2>2
<1>7. "identity" \in Objects /\ "identity" # "deployment"
  BY Named DEF Names
<1>8. TypeOK'
  BY <1>1, <1>3, <1>5, <1>6, <1>7 DEF TypeOK, Passes, worldVars
<1>9. ClientInv' /\ PodHasItsParts'
  BY <1>1, <1>3, <1>6, <1>7 DEF IInv, ClientInv, PodHasItsParts
<1> QED
  BY <1>8, <1>9 DEF IInv

\* A list of requests that got somewhere has had a client.
LEMMA EnsuredStep ==
    ASSUME TypeOK, NEW plan, NEW n \in 0 .. Len(plan), Ensured(plan, n), Working,
           n = Len(plan) => Carries
    PROVE  /\ zone' \in Zones /\ queued' \in BOOLEAN /\ disturbances' \in 0 .. MaxDisturbances
           /\ Carries /\ (n # 0 => pass.client)
<1>1. CASE n = Len(plan) /\ Answers /\ UNCHANGED <<zone, queued, disturbances>>
  BY <1>1 DEF TypeOK, Answers
<1>2. CASE /\ n < Len(plan)
           /\ IF Answers THEN Fault ELSE n = 0 /\ UNCHANGED disturbances
           /\ SetInstalledFalse
  BY <1>2, NotInstalled, DisturbedType DEF Fault, TypeOK, Answers
<1> QED
  BY <1>1, <1>2 DEF Ensured

\* installWorkload may stop after any request: what it wrote until then is a prefix.
LEMMA WorkloadStep == ASSUME IInv, EnsureWorkload PROVE IInv'
<1>1. TypeOK /\ Working /\ pass.obj.st = "live"
  BY DEF IInv, EnsureWorkload, Installing
<1>2. PICK n \in 0 .. Len(InstallWorkload) :
          /\ Ensured(InstallWorkload, n)
          /\ n = Len(InstallWorkload) => pass' = NextStep
          /\ image' = IF "deployment" \in Prefix(InstallWorkload, n) THEN pass.image ELSE image
  BY DEF EnsureWorkload
<1>3. n = Len(InstallWorkload) => Carries
  BY <1>1, <1>2, PassFields DEF Carries
<1>4. /\ zone' \in Zones /\ queued' \in BOOLEAN /\ disturbances' \in 0 .. MaxDisturbances
      /\ Carries /\ (n # 0 => pass.client)
  BY <1>1, <1>2, <1>3, EnsuredStep
<1>5. down' = down \cup Prefix(InstallWorkload, n)
  BY <1>2 DEF Ensured
<1>6. down' \subseteq Objects
  BY <1>1, <1>5, Workload DEF TypeOK, Objects
<1>7. image' \in Versions \X (0 .. 2)
  BY <1>1, <1>2, PassFields DEF TypeOK
<1>8. TypeOK'
  BY <1>1, <1>4, <1>6, <1>7 DEF EnsureWorkload, TypeOK, Carries, Passes, worldVars
<1>9. PodHasItsParts'
  <2> SUFFICES ASSUME "deployment" \in down', "deployment" \notin down PROVE PodNeeds \subseteq down'
    BY <1>5 DEF IInv, PodHasItsParts
  <2>1. "deployment" \in Prefix(InstallWorkload, n) /\ n # 0
    BY <1>5, Workload
  <2>2. {"namespace", "env", "rbac"} \subseteq down'
    BY <1>5, <2>1, Workload
  <2>3. "identity" \in down'
    BY <1>1, <1>4, <1>5, <2>1 DEF IInv, ClientInv
  <2> QED
    BY <2>2, <2>3, Named
<1>10. ClientInv'
  BY <1>1, <1>4, <1>5 DEF IInv, ClientInv, Carries
<1> QED
  BY <1>8, <1>9, <1>10 DEF IInv

\* installNetwork does not touch what the pod needs.
LEMMA NetworkStep == ASSUME IInv, EnsureNetwork PROVE IInv'
<1>1. TypeOK /\ Working /\ pass.obj.st = "live"
  BY DEF IInv, EnsureNetwork, Installing
<1>2. /\ zone' \in Zones /\ queued' \in BOOLEAN /\ disturbances' \in 0 .. MaxDisturbances /\ Carries
      /\ down \subseteq down' /\ down' \subseteq down \cup {"issuer", "gateway", "certificate", "route"}
  <2>1. ASSUME NEW n \in 0 .. Len(InstallNetwork), Ensured(InstallNetwork, n),
               n = Len(InstallNetwork) => pass' = [NextStep EXCEPT !.cert = "tls" \in down]
        PROVE  <1>2
    <3>1. n = Len(InstallNetwork) => Carries
      <4> DEFINE v == "tls" \in down
      <4>1. v \in BOOLEAN
        OBVIOUS
      <4> HIDE DEF v
      <4>2. Working => /\ [NextStep EXCEPT !.cert = v] \in Passes
                       /\ [NextStep EXCEPT !.cert = v].client = pass.client
                       /\ [NextStep EXCEPT !.cert = v].obj = pass.obj
        BY <1>1, <4>1, PassFields DEF Passes
      <4> QED
        BY <1>1, <2>1, <4>2 DEF Carries, v
    <3>2. down' = down \cup Prefix(InstallNetwork, n)
      BY <2>1 DEF Ensured
    <3> QED
      BY <1>1, <2>1, <3>1, <3>2, EnsuredStep, Network
  <2>2. CASE SetInstalledFalse /\ UNCHANGED <<down, disturbances>>
    BY <1>1, <2>2, NotInstalled DEF TypeOK
  <2> QED
    BY <2>1, <2>2 DEF EnsureNetwork
<1>3. down' \subseteq Objects
  BY <1>1, <1>2, Named DEF TypeOK, Names
<1>4. TypeOK'
  BY <1>1, <1>2, <1>3 DEF EnsureNetwork, TypeOK, Carries, Passes, worldVars
<1>5. ClientInv' /\ PodHasItsParts'
  BY <1>1, <1>2 DEF IInv, Carries, ClientInv, PodHasItsParts
<1> QED
  BY <1>4, <1>5 DEF IInv

\* reconcileDNS does not, either.
LEMMA DNSStep == ASSUME IInv, ReconcileDNS PROVE IInv'
<1>1. TypeOK /\ Working /\ pass.obj.st = "live"
  BY DEF IInv, ReconcileDNS, Installing
<1>2. /\ zone' \in Zones /\ queued' \in BOOLEAN /\ Carries
      /\ down \subseteq down' /\ down' \subseteq down \cup {"dnsendpoint"} /\ record' \in 0 .. 2
  <2>1. CASE /\ down' = IF gateway # 0 THEN down \cup {"dnsendpoint"} ELSE down
             /\ record' = IF gateway # 0 THEN gateway ELSE record
             /\ pass' = NextStep
             /\ UNCHANGED <<zone, queued>>
    BY <1>1, <2>1, PassFields DEF Carries, TypeOK
  <2>2. CASE SetInstalledFalse /\ UNCHANGED <<down, record>>
    BY <1>1, <2>2, NotInstalled DEF TypeOK
  <2> QED
    BY <2>1, <2>2 DEF ReconcileDNS
<1>3. down' \subseteq Objects
  BY <1>1, <1>2, Named DEF TypeOK, Names
<1>4. TypeOK'
  BY <1>1, <1>2, <1>3 DEF ReconcileDNS, TypeOK, Carries, Passes, worldVars
<1>5. ClientInv' /\ PodHasItsParts'
  BY <1>1, <1>2 DEF IInv, Carries, ClientInv, PodHasItsParts
<1> QED
  BY <1>4, <1>5 DEF IInv

\* The deletes, as far as they get: what goes without the Deployment is nothing
\* its pod needs, and all of them leave nothing.
LEMMA UninstalledStep ==
    ASSUME TypeOK, PodHasItsParts, NEW n \in 0 .. Len(Uninstall), Uninstalled(n)
    PROVE  /\ down' \subseteq down /\ image' \in Versions \X (0 .. 2)
           /\ gateway' \in 0 .. 2 /\ record' \in 0 .. 2
           /\ PodHasItsParts'
           /\ n = Len(Uninstall) => down' \subseteq AddonObjects
<1> DEFINE gone == Prefix(Uninstall, n)
<1>1. down' = Without(down, gone)
  BY DEF Uninstalled
<1>2. down' \subseteq down
  BY <1>1 DEF Without
<1>3. image' \in Versions \X (0 .. 2) /\ gateway' \in 0 .. 2 /\ record' \in 0 .. 2
  BY Nothing DEF Uninstalled, TypeOK
<1>4. PodHasItsParts'
  <2> SUFFICES ASSUME "deployment" \in down' PROVE PodNeeds \subseteq down'
    BY DEF PodHasItsParts
  <2>1. "deployment" \in down /\ "deployment" \notin gone
    BY <1>1 DEF Without
  <2>2. gone \subseteq {"dnsendpoint", "credential", "route", "certificate", "gateway", "issuer"}
    BY <2>1, Undone
  <2>3. PodNeeds \subseteq down
    BY <2>1 DEF PodHasItsParts
  <2> HIDE DEF gone
  <2> QED
    BY <1>1, <2>2, <2>3, Named DEF Without
<1>5. ASSUME n = Len(Uninstall) PROVE down' \subseteq AddonObjects
  <2>1. gone = SetOf(Uninstall) /\ "namespace" \in gone /\ "issuer" \in gone
    BY <1>5, Undone
  <2>2. down \subseteq Names
    BY Named DEF TypeOK
  <2> HIDE DEF gone
  <2> QED
    BY <1>1, <2>1, <2>2, Named DEF Without, AddonObjects, ExternalDNS
<1> QED
  BY <1>2, <1>3, <1>4, <1>5

\* teardownDownstream, which may also stop after any request: the Deployment goes before
\* what its pod needs.
LEMMA TeardownStep == ASSUME IInv, TeardownDownstream PROVE IInv'
<1>1. TypeOK /\ PodHasItsParts /\ Working /\ pass.obj.st = "deleting"
  BY DEF IInv, TeardownDownstream, TearingDown
<1>2. Len(Uninstall) \in Nat
  BY Undone
<1> DEFINE Typed == /\ queued' \in BOOLEAN /\ disturbances' \in 0 .. MaxDisturbances /\ pass' \in Passes
                    /\ down' \subseteq down /\ image' \in Versions \X (0 .. 2)
                    /\ gateway' \in 0 .. 2 /\ record' \in 0 .. 2
                    /\ PodHasItsParts'
                    /\ pass'.client => pass'.obj.st = "deleting" /\ down' \subseteq AddonObjects
<1>3. CASE /\ kubeconfig => Fault
           /\ ~kubeconfig => UNCHANGED disturbances
           /\ pass' = NextStep
           /\ UNCHANGED <<downVars, queued>>
  <2>1. disturbances' \in 0 .. MaxDisturbances
    BY <1>1, <1>3, DisturbedType DEF Fault, TypeOK
  <2>2. pass' \in Passes /\ pass'.client = pass.client /\ pass'.obj = pass.obj
    BY <1>1, <1>3, PassFields
  <2>3. Typed
    BY <1>1, <1>3, <2>1, <2>2 DEF TypeOK, downVars, PodHasItsParts, IInv, ClientInv
  <2> QED
    BY <1>1, <2>3 DEF TeardownDownstream, IInv, TypeOK, ClientInv, Passes, hubVars, worldVars
<1>4. CASE /\ Uninstalled(Len(Uninstall))
           /\ pass' = [NextStep EXCEPT !.client = TRUE]
           /\ UNCHANGED <<queued, disturbances>>
  <2>1. pass' \in Passes /\ pass'.obj = pass.obj
    BY <1>1, <1>4, PassFields DEF Passes
  <2>2. Len(Uninstall) \in 0 .. Len(Uninstall)
    BY <1>2
  <2>3. Typed
    BY <1>1, <1>4, <2>1, <2>2, UninstalledStep DEF TypeOK
  <2> QED
    BY <1>1, <2>3 DEF TeardownDownstream, IInv, TypeOK, ClientInv, Passes, hubVars, worldVars
<1>5. CASE /\ \E n \in 0 .. Len(Uninstall) - 1 :
                  /\ Uninstalled(n)
                  /\ IF reachable /\ Deletable(down) THEN Fault ELSE n = 0 /\ UNCHANGED disturbances
           /\ ReturnError
  <2>1. PICK n \in 0 .. Len(Uninstall) - 1 :
            Uninstalled(n) /\ IF reachable /\ Deletable(down) THEN Fault ELSE n = 0 /\ UNCHANGED disturbances
    BY <1>5
  <2>2. n \in 0 .. Len(Uninstall)
    BY <1>2
  <2>3. pass' = Idle /\ queued' \in BOOLEAN
    BY <1>1, <1>5 DEF ReturnError, Return, TypeOK
  <2>4. disturbances' \in 0 .. MaxDisturbances
    BY <1>1, <2>1, DisturbedType DEF Fault, TypeOK
  <2>5. Typed
    BY <1>1, <2>1, <2>2, <2>3, <2>4, UninstalledStep, Nothing
  <2> QED
    BY <1>1, <2>5 DEF TeardownDownstream, IInv, TypeOK, ClientInv, Passes, hubVars, worldVars
<1> QED
  BY <1>3, <1>4, <1>5 DEF TeardownDownstream

\* The steps of a teardown that leave the zone's cluster alone.
LEMMA LetGoStep ==
    ASSUME IInv, ReconcileTeardown \/ DeleteCluster \/ RemoveFinalizer \/ ReconcileNotFound PROVE IInv'
<1>1. TypeOK
  BY DEF IInv
<1>2. down' = down /\ image' = image /\ gateway' = gateway /\ record' = record
      /\ UNCHANGED <<cached, seeded, kubeconfig, worldVars>>
  BY DEF ReconcileTeardown, DeleteCluster, RemoveFinalizer, ReconcileNotFound, downVars, hubVars
<1>3. /\ zone' \in Zones /\ queued' \in BOOLEAN /\ disturbances' \in 0 .. MaxDisturbances
      /\ cluster' \in [st : {"none", "live", "deleting"}, ready : BOOLEAN, owned : BOOLEAN]
      /\ hubSecret' \in BOOLEAN
      /\ Carries
  <2>1. CASE ReconcileTeardown
    <3> DEFINE t == IF TeardownTimedOut \/ cluster.st = "none" THEN <<"finalizer">> ELSE TeardownPlan
               f == (cached = zone)
    <3>1. t \in Seq(Steps) /\ f \in BOOLEAN /\ cached \in Zones
      BY <1>1, PlanTypes DEF TypeOK
    <3>2. pass' = [Idle EXCEPT !.todo = t, !.obj = cached, !.fresh = f]
      BY <2>1 DEF ReconcileTeardown
    <3> HIDE DEF t, f
    <3>3. pass' \in Passes /\ ~pass'.client
      BY <3>1, <3>2, Nothing DEF Passes
    <3> QED
      BY <1>1, <2>1, <3>3 DEF ReconcileTeardown, hubVars, TypeOK, Carries
  <2>2. CASE DeleteCluster
    <3>1. Working
      BY <2>2 DEF DeleteCluster, TearingDown
    <3>2. cluster' \in [st : {"none", "live", "deleting"}, ready : BOOLEAN, owned : BOOLEAN]
      BY <1>1, <2>2 DEF DeleteCluster, TypeOK
    <3>3. queued' \in BOOLEAN /\ Carries
      BY <1>1, <2>2, <3>1, PassFields, Returned DEF DeleteCluster, ReturnError, Carries, TypeOK
    <3>4. disturbances' \in 0 .. MaxDisturbances
      BY <1>1, <2>2, DisturbedType DEF DeleteCluster, Fault, TypeOK
    <3> QED
      BY <1>1, <2>2, <3>2, <3>3, <3>4 DEF DeleteCluster, TypeOK
  <2>3. CASE RemoveFinalizer
    <3>1. cluster' \in [st : {"none", "live", "deleting"}, ready : BOOLEAN, owned : BOOLEAN]
      BY <1>1, <2>3 DEF RemoveFinalizer, TypeOK
    <3>2. queued' \in BOOLEAN /\ Carries
      BY <1>1, <2>3, Returned DEF RemoveFinalizer, ReturnError
    <3> QED
      BY <1>1, <2>3, <3>1, <3>2, Nothing DEF RemoveFinalizer, TypeOK
  <2>4. CASE ReconcileNotFound
    BY <1>1, <2>4, PassFields DEF ReconcileNotFound, hubVars, TypeOK, Carries
  <2> QED
    BY <2>1, <2>2, <2>3, <2>4
<1>4. ClientInv' /\ PodHasItsParts'
  BY <1>2, <1>3 DEF IInv, Carries, ClientInv, PodHasItsParts
<1>5. TypeOK'
  BY <1>1, <1>2, <1>3 DEF TypeOK, Carries, Passes, worldVars
<1> QED
  BY <1>4, <1>5 DEF IInv

-----------------------------------------------------------------------------
(***************************************************************************)
(* The operator and the world.                                             *)
(***************************************************************************)

Clusters == [st : {"none", "live", "deleting"}, ready : BOOLEAN, owned : BOOLEAN]

\* The operator's commands, the watch and a crash of the process.
LEMMA OperatorStep ==
    ASSUME IInv, (\E n \in 1 .. 3, domain \in BOOLEAN : Add(n, domain)) \/ DeleteZone \/ Deliver \/ Crash
    PROVE  IInv'
<1>1. TypeOK /\ cluster \in Clusters
  BY DEF IInv, TypeOK, Clusters
<1>2. ASSUME NEW n \in 1 .. 3, NEW domain \in BOOLEAN, Add(n, domain) PROVE IInv'
  <2>1. zone' \in Zones
    BY <1>1, <1>2, Nothing DEF Add, TypeOK, Zones
  <2>2. cluster' \in Clusters
    BY <1>1, <1>2, Nothing DEF Add, Clusters
  <2>3. disturbances' \in 0 .. MaxDisturbances
    BY <1>1, <1>2, DisturbedType DEF Add, TypeOK
  <2>4. seeded' \in BOOLEAN /\ queued' \in BOOLEAN
    BY <1>2 DEF Add
  <2>5. UNCHANGED <<cached, kubeconfig, hubSecret, downVars, worldVars, pass>>
    BY <1>2 DEF Add
  <2>6. TypeOK'
    BY <1>1, <2>1, <2>2, <2>3, <2>4, <2>5 DEF TypeOK, Clusters, downVars, worldVars
  <2> QED
    BY <2>5, <2>6 DEF IInv, ClientInv, PodHasItsParts, downVars
<1>3. CASE DeleteZone
  <2>1. zone' \in Zones
    BY <1>1, <1>3, Nothing DEF DeleteZone, TypeOK, Zones
  <2>2. cluster' \in Clusters
    BY <1>1, <1>3 DEF DeleteZone, Clusters
  <2>3. disturbances' \in 0 .. MaxDisturbances
    BY <1>1, <1>3, DisturbedType DEF DeleteZone, Change
  <2>4. pass' \in Passes /\ pass'.client = pass.client /\ pass'.obj = pass.obj
    BY <1>1, <1>3, PassFields DEF DeleteZone, Passes
  <2>5. hubSecret' \in BOOLEAN /\ late' \in BOOLEAN
    BY <1>3 DEF DeleteZone
  <2>6. UNCHANGED <<cached, seeded, kubeconfig, downVars, pushed, fleet, config, reachable, queued>>
    BY <1>3 DEF DeleteZone
  <2>7. TypeOK'
    BY <1>1, <2>1, <2>2, <2>3, <2>4, <2>5, <2>6 DEF TypeOK, Clusters, Passes, downVars
  <2> QED
    BY <2>4, <2>6, <2>7 DEF IInv, ClientInv, PodHasItsParts, downVars
<1>4. CASE Deliver
  <2>1. cached' = zone /\ queued' = TRUE
        /\ UNCHANGED <<zone, cluster, seeded, kubeconfig, hubSecret, downVars, worldVars, pass, disturbances>>
    BY <1>4 DEF Deliver
  <2> QED
    BY <1>1, <2>1 DEF IInv, TypeOK, ClientInv, PodHasItsParts, downVars, worldVars
<1>5. CASE Crash
  <2>1. disturbances' \in 0 .. MaxDisturbances
    BY <1>1, <1>5, DisturbedType DEF Crash, Fault
  <2>2. config' \subseteq Configurable
    BY <1>1, <1>5 DEF Crash, TypeOK
  <2>3. cached' = zone /\ queued' = TRUE /\ pass' = Idle
        /\ UNCHANGED <<zone, cluster, seeded, kubeconfig, hubSecret, downVars, pushed, fleet, reachable, late>>
    BY <1>5 DEF Crash
  <2>4. TypeOK'
    BY <1>1, <2>1, <2>2, <2>3, Nothing DEF TypeOK, Passes, downVars
  <2> QED
    BY <2>3, <2>4, Nothing DEF IInv, ClientInv, PodHasItsParts, downVars
<1> QED
  BY <1>2, <1>3, <1>4, <1>5

\* The TalosCluster and the garbage collector.  A cluster that goes takes everything on it
\* along.
LEMMA ClusterStep ==
    ASSUME IInv, CollectGarbage \/ ClusterBoots \/ ClusterReady \/ ClusterDegrades \/ ClusterGone PROVE IInv'
<1>1. TypeOK /\ cluster \in Clusters
  BY DEF IInv, TypeOK, Clusters
<1>2. CASE CollectGarbage \/ ClusterDegrades
  <2>1. cluster' \in Clusters
    BY <1>1, <1>2 DEF CollectGarbage, ClusterDegrades, Clusters
  <2>2. disturbances' \in 0 .. MaxDisturbances
    BY <1>1, <1>2, DisturbedType DEF CollectGarbage, ClusterDegrades, Change, TypeOK
  <2>3. queued' = TRUE /\ UNCHANGED <<zone, cached, seeded, kubeconfig, hubSecret, downVars, worldVars, pass>>
    BY <1>2 DEF CollectGarbage, ClusterDegrades
  <2> QED
    BY <1>1, <2>1, <2>2, <2>3 DEF IInv, TypeOK, Clusters, ClientInv, PodHasItsParts, downVars, worldVars
<1>3. CASE ClusterReady
  <2>1. cluster' \in Clusters
    BY <1>1, <1>3 DEF ClusterReady, Clusters
  <2>2. /\ queued' = TRUE /\ down \subseteq down' /\ down' \subseteq down \cup AddonObjects
        /\ UNCHANGED <<zone, cached, seeded, kubeconfig, hubSecret, image, gateway, record, worldVars, pass,
                       disturbances>>
    BY <1>3 DEF ClusterReady, AddonObjects, ExternalDNS
  <2>3. AddonObjects \subseteq Objects /\ "deployment" \notin AddonObjects
    BY DEF AddonObjects, ExternalDNS, Objects
  <2>4. TypeOK'
    BY <1>1, <2>1, <2>2, <2>3 DEF TypeOK, Clusters, worldVars
  <2> QED
    BY <2>2, <2>3, <2>4 DEF IInv, ClientInv, PodHasItsParts
<1>a. CASE ClusterBoots
  BY <1>1, <1>a DEF ClusterBoots, IInv, TypeOK, ClientInv, PodHasItsParts, downVars, worldVars
<1>4. CASE ClusterGone
  <2>1. /\ cluster' = NoCluster /\ seeded' = FALSE /\ kubeconfig' = FALSE /\ queued' = TRUE
        /\ down' = {} /\ image' = NoImage /\ gateway' = 0 /\ record' = 0
        /\ UNCHANGED <<zone, cached, hubSecret, worldVars, disturbances>>
    BY <1>4 DEF ClusterGone
  <2>2. pass' \in Passes /\ ~pass'.client
    BY <1>1, <1>4, PassFields DEF ClusterGone, Passes
  <2>3. /\ cluster' \in Clusters /\ seeded' \in BOOLEAN /\ kubeconfig' \in BOOLEAN /\ queued' \in BOOLEAN
        /\ down' \subseteq Objects /\ image' \in Versions \X (0 .. 2)
        /\ gateway' \in 0 .. 2 /\ record' \in 0 .. 2
    <3>1. cluster' \in Clusters /\ image' \in Versions \X (0 .. 2) /\ down' \subseteq Objects
      BY <2>1, Nothing DEF Clusters
    <3>2. gateway' \in 0 .. 2 /\ record' \in 0 .. 2
      BY <2>1
    <3> QED
      BY <2>1, <3>1, <3>2
  <2>4. UNCHANGED <<zone, cached, hubSecret, pushed, fleet, config, reachable, late, disturbances>>
    BY <2>1 DEF worldVars
  <2>5. TypeOK'
    BY <1>1, <2>2, <2>3, <2>4 DEF TypeOK, Clusters, Passes
  <2> QED
    BY <2>1, <2>2, <2>5 DEF IInv, ClientInv, PodHasItsParts
<1> QED
  BY <1>2, <1>3, <1>4, <1>a

\* cert-manager and the load balancer.
LEMMA GatewayStep ==
    ASSUME IInv, AssignAddress \/ ChangeAddress \/ IssueCertificate \/ LoseCertificate PROVE IInv'
<1>1. TypeOK
  BY DEF IInv
<1>2. /\ gateway' \in 0 .. 2 /\ disturbances' \in 0 .. MaxDisturbances
      /\ UNCHANGED <<hubVars, image, record, worldVars, queued, pass>>
  BY <1>1, DisturbedType DEF AssignAddress, ChangeAddress, IssueCertificate, LoseCertificate, Change, TypeOK
<1>3. CASE AssignAddress \/ ChangeAddress
  <2>1. down' = down
    BY <1>3 DEF AssignAddress, ChangeAddress
  <2> QED
    BY <1>1, <1>2, <2>1 DEF IInv, TypeOK, ClientInv, PodHasItsParts, hubVars, worldVars
<1>4. CASE IssueCertificate
  <2>1. down' = down \cup {"tls"} /\ "gateway" \in down
    BY <1>4 DEF IssueCertificate
  <2>2. "tls" \in Objects
    BY DEF Objects, Settled
  <2>3. ~(down \subseteq AddonObjects)
    BY <2>1 DEF AddonObjects, ExternalDNS
  <2>4. TypeOK'
    BY <1>1, <1>2, <2>1, <2>2 DEF TypeOK, hubVars, worldVars
  <2>5. ClientInv'
    BY <1>2, <2>1, <2>3 DEF IInv, ClientInv
  <2>6. PodHasItsParts'
    BY <2>1 DEF IInv, PodHasItsParts
  <2> QED
    BY <2>4, <2>5, <2>6 DEF IInv
<1>5. CASE LoseCertificate
  <2>1. down' = down \ {"tls"}
    BY <1>5 DEF LoseCertificate
  <2>2. TypeOK'
    BY <1>1, <1>2, <2>1 DEF TypeOK, hubVars, worldVars
  <2>3. ClientInv'
    BY <1>2, <2>1 DEF IInv, ClientInv
  <2>4. PodHasItsParts'
    BY <2>1, Named DEF IInv, PodHasItsParts
  <2> QED
    BY <2>2, <2>3, <2>4 DEF IInv
<1> QED
  BY <1>3, <1>4, <1>5

\* The servers, the registry of images and the network.
LEMMA WorldStep ==
    ASSUME IInv, \/ ServerBeats \/ ServerForgotten \/ ServerReaped \/ FleetChanges \/ PushImage
                 \/ Unreachable \/ Reachable \/ Deadline
    PROVE  IInv'
<1>1. TypeOK
  BY DEF IInv
<1>2. UNCHANGED <<hubVars, downVars, config, pass>>
  BY DEF ServerBeats, ServerForgotten, ServerReaped, FleetChanges, Report, PushImage, Unreachable, Reachable,
     Deadline
<1>3. disturbances' \in 0 .. MaxDisturbances
  BY <1>1, DisturbedType DEF ServerBeats, ServerForgotten, ServerReaped, FleetChanges, PushImage, Unreachable,
     Reachable, Deadline, Change, TypeOK
<1>4. /\ fleet' \in [Servers -> Versions \cup {NotRegistered}]
      /\ pushed' \in 1 .. 2 /\ reachable' \in BOOLEAN /\ late' \in BOOLEAN /\ queued' \in BOOLEAN
  <2>1. ASSUME NEW s \in Servers, NEW v \in Versions \cup {NotRegistered}, Report(s, v)
        PROVE  <1>4
    BY <1>1, <2>1 DEF Report, Notified, TypeOK
  <2>2. /\ Own \in Servers /\ image[1] \in Versions
        /\ {Unreported, Floating, MaxVersion, NotRegistered} \subseteq Versions \cup {NotRegistered}
    BY <1>1, Numbers DEF TypeOK, Versions, Unreported, Floating
  <2>3. CASE ServerBeats \/ ServerForgotten \/ ServerReaped
    BY <2>1, <2>2, <2>3 DEF ServerBeats, ServerForgotten, ServerReaped
  <2>5. CASE FleetChanges
    <3>1. \E s \in Servers, v \in {Unreported, Floating, MaxVersion, NotRegistered} : Report(s, v)
      BY <2>5 DEF FleetChanges
    <3> QED
      BY <2>1, <2>2, <3>1
  <2>4. CASE PushImage \/ Unreachable \/ Reachable \/ Deadline
    <3>1. pushed' \in 1 .. 2
      BY <1>1, <2>4 DEF PushImage, Unreachable, Reachable, Deadline, TypeOK
    <3> QED
      BY <1>1, <2>4, <3>1 DEF PushImage, Unreachable, Reachable, Deadline, TypeOK
  <2> QED
    BY <2>3, <2>4, <2>5
<1>5. TypeOK'
  BY <1>1, <1>2, <1>3, <1>4 DEF TypeOK, hubVars, downVars
<1> QED
  BY <1>2, <1>5 DEF IInv, ClientInv, PodHasItsParts, downVars
-----------------------------------------------------------------------------

LEMMA InductiveInit == Init => IInv
<1> SUFFICES ASSUME Init PROVE IInv
  OBVIOUS
<1>1. fleet \in [Servers -> Versions \cup {NotRegistered}]
  BY Numbers DEF Init, Versions, Unreported, Floating
<1>2. config \subseteq Configurable
  BY DEF Init, Configurable
<1>3. /\ zone \in Zones /\ cached \in Zones /\ cluster \in Clusters
      /\ image \in Versions \X (0 .. 2) /\ pass \in Passes
  BY Nothing DEF Init, Clusters
<1>4. /\ seeded \in BOOLEAN /\ kubeconfig \in BOOLEAN /\ hubSecret \in BOOLEAN /\ down \subseteq Objects
      /\ reachable \in BOOLEAN /\ late \in BOOLEAN /\ queued \in BOOLEAN
  BY DEF Init
<1>5. /\ pushed \in 1 .. 2 /\ gateway \in 0 .. 2 /\ record \in 0 .. 2
      /\ disturbances \in 0 .. MaxDisturbances
  BY ControllerAssumption DEF Init
<1>6. TypeOK
  BY <1>1, <1>2, <1>3, <1>4, <1>5 DEF TypeOK, Clusters, Passes
<1> QED
  BY <1>6, Nothing DEF Init, IInv, ClientInv, PodHasItsParts

\* Every step keeps the invariant.
LEMMA InductiveNext == IInv /\ [Next]_vars => IInv'
<1> SUFFICES ASSUME IInv, [Next]_vars PROVE IInv'
  OBVIOUS
<1>1. CASE UNCHANGED vars
  BY <1>1 DEF vars, hubVars, downVars, worldVars, IInv, TypeOK, ClientInv, PodHasItsParts
<1>2. CASE Reconcile
  BY <1>2, ReconcileLiveStep, CheckStep, PrepareStep, WorkloadStep, NetworkStep, DNSStep, TeardownStep,
     LetGoStep DEF Reconcile
<1>3. CASE World
  BY <1>3, OperatorStep, ClusterStep, GatewayStep, WorldStep DEF World
<1>4. CASE (\E n \in 1 .. 3, domain \in BOOLEAN : Add(n, domain)) \/ Deliver \/ Crash
  BY <1>4, OperatorStep
<1> QED
  BY <1>1, <1>2, <1>3, <1>4 DEF Next

LEMMA Inductive == Spec => []IInv
BY InductiveInit, InductiveNext, PTL DEF Spec

\* TypeOK is an invariant; in particular the controller always has a version of
\* some server, or none, to deploy.
THEOREM Typing == Spec => []TypeOK
<1>1. IInv => TypeOK
  BY DEF IInv
<1> QED
  BY <1>1, Inductive, PTL

\* A Deployment is never without what its pod needs, wherever installs and
\* teardowns are cut short, however often they are repeated, and whatever the
\* cluster does meanwhile.
THEOREM PodsAreComplete == Spec => []PodHasItsParts
<1>1. IInv => PodHasItsParts
  BY DEF IInv
<1> QED
  BY <1>1, Inductive, PTL

\* The controller deletes a Zone's TalosCluster only after its footprint is gone
\* from it, or without ever having had a client for it.
THEOREM FootprintGoesFirst == Spec => TornDownFirst
<1>1. IInv /\ [Next]_vars =>
        [(TearingDown /\ Step = "cluster" /\ cluster'.st # cluster.st)
           => \/ down \subseteq AddonObjects
              \/ ~pass.client]_vars
  BY DEF IInv, ClientInv, TearingDown
<1> QED
  BY <1>1, Inductive, PTL DEF Spec, TornDownFirst
=============================================================================
