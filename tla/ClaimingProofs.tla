--------------------------- MODULE ClaimingProofs ---------------------------
(***************************************************************************)
(* Proofs about Claiming for any number of pools and Instances, any lag of *)
(* the caches and any number of user edits.                                *)
(***************************************************************************)
EXTENDS Claiming, FiniteSetTheorems, WellFoundedInduction, TLAPS

\* The informer's copy with the stored resourceVersion is the stored object.
CacheInv == \A i \in Instances : Current(Informer, i) => seen[i] = inst[i]

\* A probe whose status write can still go through is of an Instance that is
\* there and unclaimed.
ProbeInv ==
    probing # NoInstance /\ Current(Discovery, probing) =>
        Exists(probing) /\ inst[probing].claimedBy = NoPool

\* What a pool relies on between listing candidates and claiming one.
ClaimInv == TypeOK /\ CacheInv /\ ProbeInv

\* Discovered once, and not lost since unless the object is gone, or another
\* one took its name while it was still shown.
Latched(i) == inst[i].discovered \/ ~Exists(i) \/ i \in reborn

\* Discovered in the cache, or picked as a candidate, is Discovered in the
\* store, however old the copy.
LatchInv ==
    /\ \A i \in Instances : seen[i].discovered => Latched(i)
    /\ \A p \in Pools : pc[p] = "claim" => \A i \in todo[p] : Latched(i)

IInv == ClaimInv /\ LatchInv /\ UndiscoveredIsReborn
-----------------------------------------------------------------------------

\* Names are ordered: a non-empty set of Instances has a first one.
LEMMA FirstIn == ASSUME NEW S, S \subseteq Instances, S # {} PROVE First(S) \in S
<1> DEFINE R == OpToRel(<, Nat)
<1>1. S \subseteq Nat
  BY InventoryAssumption
<1>2. IsWellFoundedOn(R, Nat)
  BY NatLessThanWellFounded, Zenon
<1>3. \A j, k \in Nat : j < k => <<j, k>> \in R
  BY DEF OpToRel
<1> HIDE DEF R
<1>4. PICK i \in S : \A j \in S : ~(<<j, i>> \in R)
  BY <1>1, <1>2, WFMin, Zenon
<1>5. \A j \in S : i <= j
  <2> TAKE j \in S
  <2>1. i \in Nat /\ j \in Nat
    BY <1>1
  <2>2. ~(j < i)
    BY <1>3, <1>4, <2>1, Zenon
  <2> QED
    BY <2>1, <2>2
<1> QED
  BY <1>5 DEF First

\* The objects that stand for "no such object" are objects.
LEMMA Nothing == Gone \in Object /\ Fresh \in Object /\ NoSuchPool \in PoolObject
<1>1. Gone \in Object /\ Fresh \in Object
  BY DEF Gone, Fresh, Object
<1>2. NoSuchPool \in PoolObject
  <2>1. <<>> \in {<<>>} \cup Nat \X Nat
    BY Zenon
  <2> QED
    BY <2>1, PoolAssumption DEF NoSuchPool, PoolObject
<1> QED
  BY <1>1, <1>2

\* Sets of Instances are finite, so the counts in a pool's status are numbers.
LEMMA Counts == ASSUME NEW S, S \subseteq Instances PROVE Cardinality(S) \in Nat
BY PoolAssumption, FS_Subset, FS_CardinalityType

\* A probe result changes what is known of the machine, and nothing else.
LEMMA ProbedFact ==
    ASSUME NEW obj \in Object, answered \in BOOLEAN
    PROVE  /\ Probed(obj) \in Object
           /\ Probed(obj).claimedBy = obj.claimedBy
           /\ obj.discovered => Probed(obj).discovered
<1>1. (obj.discovered \/ answered) \in BOOLEAN
  OBVIOUS
<1> QED
  BY <1>1 DEF Probed, Object

LEMMA TypeInit == Init => TypeOK
<1> SUFFICES ASSUME Init PROVE TypeOK
  OBVIOUS
<1> USE Nothing, InventoryAssumption, PoolAssumption
<1>1. InventoryTypeOK
  BY DEF Init, InventoryInit, InventoryTypeOK, NodeStates
<1>2. DiscoveryTypeOK
  BY DEF Init, DiscoveryInit, DiscoveryTypeOK
<1>3. ASSUME NEW n \in 1..MaxReplicas
      PROVE  [NoSuchPool EXCEPT !.deleting = FALSE, !.replicas = n] \in PoolObject
  <2>1. n \in 0..MaxReplicas
    OBVIOUS
  <2> QED
    BY <2>1 DEF PoolObject, NoSuchPool
<1>4. pool \in [Pools -> PoolObject]
  <2> DEFINE New == {[NoSuchPool EXCEPT !.deleting = FALSE, !.replicas = n] :
                        n \in 1..MaxReplicas}
  <2>1. New \subseteq PoolObject
    BY <1>3
  <2>2. pool \in [Pools -> New]
    BY DEF Init, PoolInit
  <2> HIDE DEF New
  <2> QED
    BY <2>1, <2>2
<1>5. PoolTypeOK
  BY <1>4 DEF Init, PoolInit, PoolTypeOK, PoolPCs
<1>6. reborn \subseteq Instances
  BY DEF Init
<1> QED
  BY <1>1, <1>2, <1>5, <1>6 DEF TypeOK

\* A reconcile that returns leaves well-typed state behind.
LEMMA DoneType ==
    ASSUME TypeOK, NEW p \in Pools, NEW again \in BOOLEAN, Done(p, again)
    PROVE  /\ queue' \subseteq Pools
           /\ pc' \in [Pools -> PoolPCs]
           /\ copy' \in [Pools -> PoolObject]
           /\ claimed' \in [Pools -> SUBSET Instances]
           /\ ready' \in [Pools -> SUBSET Instances]
           /\ todo' \in [Pools -> SUBSET Instances]
           /\ held' \subseteq (Readers \cup {Informer}) \X Instances
BY Nothing DEF Done, Goto, Drop, TypeOK, PoolTypeOK, InventoryTypeOK, PoolPCs

\* What a status write stores is a pool.
LEMMA StatusType ==
    ASSUME TypeOK, NEW p \in Pools PROVE WithStatus(p) \in PoolObject
<1>1. Cardinality(ready[p] \cap claimed[p]) \in Nat /\ Cardinality(claimed[p]) \in Nat
  BY Counts DEF TypeOK, PoolTypeOK
<1>2. copy[p] \in PoolObject /\ copy[p].replicas \in Nat
  BY PoolAssumption DEF TypeOK, PoolTypeOK, PoolObject
<1> QED
  BY <1>1, <1>2 DEF WithStatus, PoolObject

\* Writing an object, or none, keeps the store well typed.
LEMMA PutType ==
    ASSUME InventoryTypeOK, NEW i \in Instances, NEW obj \in Object, Put(i, obj)
    PROVE  /\ inst' \in [Instances -> Object]
           /\ held' \subseteq (Readers \cup {Informer}) \X Instances
BY DEF Put, InventoryTypeOK

\* Reading copies hands current copies to a reader.
LEMMA ReadType ==
    ASSUME InventoryTypeOK, NEW r \in Readers, NEW S, S \subseteq Instances, Read(r, S)
    PROVE  held' \subseteq (Readers \cup {Informer}) \X Instances
<1> SUFFICES ASSUME NEW h \in held' PROVE h \in (Readers \cup {Informer}) \X Instances
  OBVIOUS
<1>1. CASE h \in held
  BY <1>1 DEF InventoryTypeOK
<1>2. CASE \E i \in S : h = <<r, i>>
  BY <1>2
<1> QED
  BY <1>1, <1>2 DEF Read

\* A write of a pool keeps the pools and the copies of them well typed.
LEMMA PutPoolType ==
    ASSUME PoolTypeOK, NEW p \in Pools, NEW obj \in PoolObject, PutPool(p, obj)
    PROVE  /\ pool' \in [Pools -> PoolObject]
           /\ poolHeld' \subseteq {Informer, "reconcile"} \X Pools
BY DEF PutPool, PoolTypeOK

\* The edits are counted up to their bound.
LEMMA EditType == ASSUME InventoryTypeOK, Edit PROVE edits' \in 0..MaxEdits
BY InventoryAssumption DEF InventoryTypeOK, Edit

\* Every step keeps the types, action by action.
LEMMA TypeNext == TypeOK /\ [Next]_vars => TypeOK'
<1> SUFFICES ASSUME TypeOK, [Next]_vars PROVE TypeOK'
  OBVIOUS
<1> USE Nothing
<1>a. InventoryTypeOK /\ DiscoveryTypeOK /\ PoolTypeOK
  BY DEF TypeOK
<1>b. \A i \in Instances : inst[i] \in Object /\ seen[i] \in Object
  BY <1>a DEF InventoryTypeOK
<1>c. \A p \in Pools : /\ pool[p] \in PoolObject /\ poolSeen[p] \in PoolObject
                       /\ copy[p] \in PoolObject /\ todo[p] \subseteq Instances
  BY <1>a DEF PoolTypeOK
<1>1. CASE DiscoveryNext /\ UNCHANGED <<poolVars, reborn>>
  <2>1. PoolTypeOK'
    BY <1>1, <1>a DEF PoolTypeOK, poolVars
  <2>2. ASSUME NEW i \in Instances, Probe(i) PROVE InventoryTypeOK' /\ DiscoveryTypeOK'
    <3>1. DiscoveryTypeOK'
      BY <2>2 DEF Probe, DiscoveryTypeOK
    <3>2. held' \subseteq (Readers \cup {Informer}) \X Instances
      BY <2>2, <1>a, DiscoveryAssumption, ReadType DEF Probe
    <3> QED
      BY <2>2, <1>a, <3>1, <3>2 DEF Probe, InventoryTypeOK
  <2>3. ASSUME RecordProbeResult PROVE InventoryTypeOK' /\ DiscoveryTypeOK'
    <3>1. DiscoveryTypeOK'
      BY <2>3 DEF RecordProbeResult, ProbeEnds, DiscoveryTypeOK
    <3>2. probing \in Instances /\ answered \in BOOLEAN
      BY <2>3, <1>a DEF RecordProbeResult, DiscoveryTypeOK
    <3>3. Probed(inst[probing]) \in Object
      BY <1>b, <3>2, ProbedFact
    <3>4. ASSUME Put(probing, Probed(inst[probing])), UNCHANGED edits PROVE InventoryTypeOK'
      BY <2>3, <1>a, <3>2, <3>3, <3>4, PutType DEF RecordProbeResult, InventoryTypeOK
    <3>5. ASSUME Edit, Put(probing, inst[probing]) PROVE InventoryTypeOK'
      BY <2>3, <1>a, <1>b, <3>2, <3>5, PutType, EditType DEF RecordProbeResult, InventoryTypeOK
    <3>6. ASSUME UNCHANGED <<inst, edits>>, Drop(Discovery) PROVE InventoryTypeOK'
      BY <2>3, <1>a, <3>6 DEF RecordProbeResult, InventoryTypeOK, Drop
    <3> QED
      BY <2>3, <3>1, <3>4, <3>5, <3>6 DEF RecordProbeResult
  <2>4. ASSUME ProbeNotRecorded PROVE InventoryTypeOK' /\ DiscoveryTypeOK'
    BY <2>4, <1>a, EditType
       DEF ProbeNotRecorded, ProbeEnds, Drop, InventoryTypeOK, DiscoveryTypeOK
  <2> QED
    BY <1>1, <2>1, <2>2, <2>3, <2>4 DEF DiscoveryNext, TypeOK
<1>2. ASSUME NEW p \in Pools, PoolStep(p) \/ Fail(p) \/ DeliverPool(p)
      PROVE  InventoryTypeOK' /\ PoolTypeOK'
  <2>1. CASE Start(p)
    <3>1. [poolSeen[p] EXCEPT !.finalizer = TRUE] \in PoolObject
      BY <1>c DEF PoolObject
    <3>2. [pool[p] EXCEPT !.finalizer = TRUE] \in PoolObject
      BY <1>c DEF PoolObject
    <3>3. pool' \in [Pools -> PoolObject]
      BY <2>1, <1>a, <3>2 DEF Start, PoolTypeOK
    <3>4. copy' \in [Pools -> PoolObject]
      BY <2>1, <1>a, <3>1 DEF Start, PoolTypeOK
    <3>5. poolHeld' \subseteq {Informer, "reconcile"} \X Pools
      BY <2>1, <1>a DEF Start, PoolTypeOK
    <3>6. queue' \subseteq Pools /\ pc' \in [Pools -> PoolPCs]
      BY <2>1, <1>a DEF Start, PoolTypeOK, Goto, PoolPCs
    <3> QED
      BY <2>1, <1>a, <3>3, <3>4, <3>5, <3>6
         DEF Start, PoolTypeOK, InventoryTypeOK, inventoryVars
  <2>2. CASE ListClaimed(p)
    <3>1. held' \subseteq (Readers \cup {Informer}) \X Instances
      BY <2>2, <1>a, PoolAssumption, ReadType DEF ListClaimed, SeenClaimed
    <3>2. /\ claimed' \in [Pools -> SUBSET Instances]
          /\ ready' \in [Pools -> SUBSET Instances]
          /\ todo' \in [Pools -> SUBSET Instances]
      BY <2>2, <1>a DEF ListClaimed, PoolTypeOK, SeenClaimed, FirstByName
    <3>3. pc' \in [Pools -> PoolPCs]
      BY <2>2, <1>a DEF ListClaimed, PoolTypeOK, Goto, PoolPCs
    <3> QED
      BY <2>2, <1>a, <3>1, <3>2, <3>3 DEF ListClaimed, PoolTypeOK, InventoryTypeOK
  <2>3. CASE Release(p)
    <3> DEFINE i == First(todo[p])
    <3>1. i \in Instances
      BY <2>3, <1>c, FirstIn DEF Release
    <3> HIDE DEF i
    <3>2. Unclaim(inst[i]) \in Object
      BY <3>1, <1>b DEF Unclaim, Object
    <3>3. /\ claimed' \in [Pools -> SUBSET Instances]
          /\ todo' \in [Pools -> SUBSET Instances]
      BY <2>3, <1>a, <3>1 DEF Release, PoolTypeOK, i
    <3>4. inst' \in [Instances -> Object] /\ held' \subseteq (Readers \cup {Informer}) \X Instances
      <4>1. Put(i, Unclaim(inst[i])) \/ UNCHANGED <<inst, held>>
        BY <2>3 DEF Release, i
      <4> QED
        BY <4>1, <1>a, <3>1, <3>2, PutType DEF InventoryTypeOK
    <3> QED
      BY <2>3, <1>a, <3>3, <3>4 DEF Release, PoolTypeOK, InventoryTypeOK
  <2>4. CASE Released(p)
    BY <2>4, <1>a, DoneType, PoolAssumption DEF Released, DropPool, PoolTypeOK, InventoryTypeOK
  <2>5. CASE RemoveFinalizer(p)
    <3>1. PutPool(p, NoSuchPool) /\ Done(p, FALSE)
      BY <2>5 DEF RemoveFinalizer
    <3> QED
      BY <2>5, <1>a, <3>1, DoneType, PutPoolType DEF RemoveFinalizer, PoolTypeOK, InventoryTypeOK
  <2>6. CASE ListCandidates(p)
    BY <2>6, <1>a DEF ListCandidates, PoolTypeOK, InventoryTypeOK, Goto, PoolPCs, inventoryVars
  <2>7. CASE TryClaim(p)
    <3> DEFINE i == First(todo[p])
    <3>1. i \in Instances
      BY <2>7, <1>c, FirstIn DEF TryClaim, Settled
    <3> HIDE DEF i
    <3>2. [inst[i] EXCEPT !.claimedBy = p] \in Object
      BY <3>1, <1>b DEF Object
    <3>3. /\ claimed' \in [Pools -> SUBSET Instances]
          /\ ready' \in [Pools -> SUBSET Instances]
          /\ todo' \in [Pools -> SUBSET Instances]
      BY <2>7, <1>a, <3>1 DEF TryClaim, PoolTypeOK, i
    <3>4. inst' \in [Instances -> Object] /\ held' \subseteq (Readers \cup {Informer}) \X Instances
      <4>1. Put(i, [inst[i] EXCEPT !.claimedBy = p]) \/ UNCHANGED <<inst, held>>
        BY <2>7 DEF TryClaim, i
      <4> QED
        BY <4>1, <1>a, <3>1, <3>2, PutType DEF InventoryTypeOK
    <3> QED
      BY <2>7, <1>a, <3>3, <3>4 DEF TryClaim, PoolTypeOK, InventoryTypeOK
  <2>8. CASE UpdateStatus(p)
    <3>1. Done(p, Insufficient(p)) /\ Insufficient(p) \in BOOLEAN
      BY <2>8 DEF UpdateStatus, Insufficient
    <3>2. /\ pool' \in [Pools -> PoolObject]
          /\ poolHeld' \subseteq {Informer, "reconcile"} \X Pools
      <4>1. CASE DropPool(p) /\ UNCHANGED pool
        BY <4>1, <1>a DEF DropPool, PoolTypeOK
      <4>2. CASE PutPool(p, WithStatus(p))
        BY <4>2, <1>a, StatusType, PutPoolType
      <4> QED
        BY <2>8, <4>1, <4>2 DEF UpdateStatus
    <3> QED
      BY <2>8, <1>a, <3>1, <3>2, DoneType DEF UpdateStatus, PoolTypeOK, InventoryTypeOK
  <2>9. CASE Refused(p)
    <3>1. Done(p, TRUE) /\ DropPool(p) /\ UNCHANGED <<pool, poolSeen, inst, seen, node, edits>>
      BY <2>9 DEF Refused
    <3> QED
      BY <1>a, <3>1, DoneType DEF DropPool, PoolTypeOK, InventoryTypeOK
  <2>10. CASE Fail(p)
    <3>1. /\ Edit /\ Done(p, TRUE) /\ DropPool(p)
          /\ UNCHANGED <<pool, poolSeen, inst, seen, node>>
      BY <2>10 DEF Fail
    <3> QED
      BY <1>a, <3>1, DoneType, EditType DEF DropPool, PoolTypeOK, InventoryTypeOK
  <2>11. CASE DeliverPool(p)
    BY <2>11, <1>a DEF DeliverPool, PoolTypeOK, InventoryTypeOK, inventoryVars
  <2> QED
    BY <1>2, <2>1, <2>2, <2>3, <2>4, <2>5, <2>6, <2>7, <2>8, <2>9, <2>10, <2>11 DEF PoolStep
<1>3. ASSUME NEW i \in Instances, DeliverInstance(i) PROVE InventoryTypeOK' /\ PoolTypeOK'
  BY <1>3, <1>a DEF DeliverInstance, Deliver, PoolTypeOK, InventoryTypeOK
<1>4. ASSUME UserStep PROVE InventoryTypeOK' /\ PoolTypeOK'
  <2>1. ASSUME NEW i \in Instances, DeleteInstance(i), UNCHANGED poolVars
        PROVE  InventoryTypeOK' /\ PoolTypeOK'
    <3>1. Settle([inst[i] EXCEPT !.deleting = TRUE]) \in Object
      BY <1>b DEF Settle, Object
    <3> QED
      BY <2>1, <1>a, <3>1, PutType, EditType
         DEF DeleteInstance, InventoryTypeOK, PoolTypeOK, poolVars
  <2>2. ASSUME NEW i \in Instances, Power(i), UNCHANGED poolVars
        PROVE  InventoryTypeOK' /\ PoolTypeOK'
    BY <2>2, <1>a, EditType DEF Power, NodeStates, InventoryTypeOK, PoolTypeOK, poolVars
  <2>3. ASSUME NEW i \in Instances, Recreate(i), UNCHANGED poolVars
        PROVE  InventoryTypeOK' /\ PoolTypeOK'
    BY <2>3, <1>a, PutType DEF Recreate, CreateInstance, InventoryTypeOK, PoolTypeOK, poolVars
  <2>4. ASSUME NEW p \in Pools, DeletePool(p) PROVE InventoryTypeOK' /\ PoolTypeOK'
    <3> DEFINE obj == IF pool[p].finalizer THEN [pool[p] EXCEPT !.deleting = TRUE] ELSE NoSuchPool
    <3>1. obj \in PoolObject
      BY <1>c DEF PoolObject
    <3>2. PutPool(p, obj)
      BY <2>4 DEF DeletePool
    <3> HIDE DEF obj
    <3> QED
      BY <2>4, <1>a, <3>1, <3>2, PutPoolType, EditType DEF DeletePool, InventoryTypeOK, PoolTypeOK
  <2>5. ASSUME NEW p \in Pools, NEW n \in 0..MaxReplicas, Scale(p, n)
        PROVE  InventoryTypeOK' /\ PoolTypeOK'
    <3>1. [pool[p] EXCEPT !.replicas = n] \in PoolObject
      BY <1>c DEF PoolObject
    <3> QED
      BY <2>5, <1>a, <3>1, PutPoolType, EditType DEF Scale, InventoryTypeOK, PoolTypeOK
  <2> QED
    BY <1>4, <2>1, <2>2, <2>3, <2>4, <2>5 DEF UserStep
<1>5. CASE UNCHANGED vars
  BY <1>5 DEF vars, inventoryVars, discoveryVars, poolVars,
              TypeOK, InventoryTypeOK, DiscoveryTypeOK, PoolTypeOK
<1>6. UNCHANGED discoveryVars => DiscoveryTypeOK'
  BY <1>a DEF discoveryVars, DiscoveryTypeOK
<1>7. reborn' \subseteq Instances
  BY DEF TypeOK, Next, UserStep, Recreate, vars
<1> QED
  BY <1>1, <1>2, <1>3, <1>4, <1>5, <1>6, <1>7 DEF Next, TypeOK

\* Every reachable state of discovery and the pools is well typed.
THEOREM Typing == Spec => []TypeOK
BY TypeInit, TypeNext, PTL DEF Spec
-----------------------------------------------------------------------------
\* The ways a step can write Instance i.
WrittenByProbe(i) ==
    /\ probing = i /\ probing # NoInstance /\ Current(Discovery, i)
    /\ \E obj \in {inst[i], Probed(inst[i])} : Put(i, obj)

Claims(p, i) ==
    /\ pc[p] = "claim" /\ i \in todo[p]
    /\ StillClaimable(seen[i]) /\ Current(Informer, i)
    /\ Put(i, [inst[i] EXCEPT !.claimedBy = p])

Recreates(i) ==
    /\ ~Exists(i) /\ Put(i, Fresh)
    /\ UNCHANGED <<pc, todo>>
    /\ StillShown(i) => i \in reborn'
    /\ reborn \ {i} \subseteq reborn'

Written(i) ==
    \/ WrittenByProbe(i)
    \/ Put(i, Unclaim(inst[i]))
    \/ \E p \in Pools : Claims(p, i)
    \/ Put(i, Settle([inst[i] EXCEPT !.deleting = TRUE]))
    \/ Recreates(i)

\* Every step of every actor leaves the stored Instances alone or writes one
\* of them in one of those ways.
LEMMA Writes ==
    ASSUME TypeOK, [Next]_vars
    PROVE  inst' = inst \/ (UNCHANGED seen /\ \E i \in Instances : Written(i))
<1>1. ASSUME NEW i \in Instances, Probe(i) PROVE inst' = inst
  BY <1>1 DEF Probe
<1>2. CASE RecordProbeResult
  <2>1. probing \in Instances /\ UNCHANGED seen
    BY <1>2 DEF RecordProbeResult, TypeOK, DiscoveryTypeOK
  <2>2. inst' = inst \/ WrittenByProbe(probing)
    BY <1>2 DEF RecordProbeResult, WrittenByProbe
  <2> QED
    BY <2>1, <2>2 DEF Written
<1>3. CASE ProbeNotRecorded
  BY <1>3 DEF ProbeNotRecorded
<1>4. ASSUME NEW p \in Pools, Release(p) PROVE inst' = inst \/ (UNCHANGED seen /\ \E i \in Instances : Written(i))
  <2>1. First(todo[p]) \in Instances
    BY <1>4, FirstIn DEF Release, TypeOK, PoolTypeOK
  <2> QED
    BY <1>4, <2>1 DEF Release, Written
<1>5. ASSUME NEW p \in Pools, TryClaim(p) PROVE inst' = inst \/ (UNCHANGED seen /\ \E i \in Instances : Written(i))
  <2> DEFINE i == First(todo[p])
  <2>1. i \in todo[p] /\ i \in Instances
    BY <1>5, FirstIn DEF TryClaim, Settled, TypeOK, PoolTypeOK
  <2>2. inst' = inst \/ Claims(p, i)
    BY <1>5, <2>1 DEF TryClaim, Claims
  <2>3. UNCHANGED seen
    BY <1>5 DEF TryClaim
  <2> QED
    BY <2>1, <2>2, <2>3 DEF Written
<1>6. ASSUME NEW p \in Pools, PoolStep(p), ~Release(p), ~TryClaim(p) PROVE inst' = inst
  BY <1>6 DEF PoolStep, Start, ListClaimed, Released, RemoveFinalizer, ListCandidates,
              UpdateStatus, Refused, inventoryVars
<1>7. ASSUME NEW p \in Pools, Fail(p) \/ DeliverPool(p) PROVE inst' = inst
  BY <1>7 DEF Fail, DeliverPool, inventoryVars
<1>8. ASSUME NEW i \in Instances, DeliverInstance(i) PROVE inst' = inst
  BY <1>8 DEF DeliverInstance
<1>9. ASSUME NEW i \in Instances, DeleteInstance(i) \/ Power(i) \/ Recreate(i),
             UNCHANGED poolVars
      PROVE inst' = inst \/ (UNCHANGED seen /\ Written(i))
  BY <1>9 DEF DeleteInstance, Power, CreateInstance, Recreate, Recreates, Written, poolVars
<1>10. ASSUME NEW p \in Pools, DeletePool(p) \/ \E n \in 0..MaxReplicas : Scale(p, n) PROVE inst' = inst
  BY <1>10 DEF DeletePool, Scale
<1>11. CASE UNCHANGED vars
  BY <1>11 DEF vars, inventoryVars
<1> QED
  BY <1>1, <1>2, <1>3, <1>4, <1>5, <1>6, <1>7, <1>8, <1>9, <1>10, <1>11
     DEF Next, DiscoveryNext, UserStep

\* A copy is current only as long as nobody writes the object, and becomes
\* current only by being taken from a current copy or from the store.
Copies ==
    \A j \in Instances :
        /\ Current(Informer, j)' =>
              /\ inst'[j] = inst[j]
              /\ \/ Current(Informer, j) /\ seen'[j] = seen[j]
                 \/ seen'[j] = inst[j]
        /\ Current(Discovery, j)' /\ probing' = j /\ j # NoInstance =>
              /\ inst'[j] = inst[j]
              /\ \/ Current(Discovery, j) /\ probing = j
                 \/ Current(Informer, j) /\ StillClaimable(seen[j])

\* The first three are what the operators on copies do to them.
LEMMA PutCopies ==
    ASSUME TypeOK, NEW i \in Instances, NEW obj, Put(i, obj), UNCHANGED seen,
           UNCHANGED probing \/ probing' = NoInstance
    PROVE  Copies
BY DEF Put, Copies, Current, TypeOK, InventoryTypeOK

LEMMA DropCopies ==
    ASSUME held' \subseteq held, UNCHANGED <<inst, seen>>,
           UNCHANGED probing \/ probing' = NoInstance
    PROVE  Copies
BY DEF Copies, Current

LEMMA ReadCopies ==
    ASSUME NEW r \in Pools, NEW S, Read(r, S), UNCHANGED <<inst, seen, probing>>
    PROVE  Copies
<1>1. r # Informer /\ r # Discovery
  BY InventoryAssumption, PoolAssumption, DiscoveryAssumption
<1>2. \A j \in Instances : Current(Informer, j)' => Current(Informer, j)
  BY <1>1 DEF Read, Current
<1>3. \A j \in Instances : Current(Discovery, j)' => Current(Discovery, j)
  BY <1>1 DEF Read, Current
<1> QED
  BY <1>2, <1>3 DEF Copies

\* Every step of every controller, user and cache treats copies that way.
LEMMA CopiesNext == ASSUME TypeOK, [Next]_vars PROVE Copies
<1>1. CASE DiscoveryNext
  <2>1. ASSUME NEW i \in Instances, Probe(i) PROVE Copies
    <3>1. Discovery # Informer
      BY DiscoveryAssumption, InventoryAssumption
    <3>2. \A j \in Instances : Current(Informer, j)' => Current(Informer, j)
      BY <2>1, <3>1 DEF Probe, Read, Current
    <3>3. Current(Discovery, i)' => Current(Informer, i)
      BY <2>1 DEF Probe, Read, Current
    <3> QED
      BY <2>1, <3>2, <3>3 DEF Probe, Copies, StillClaimable
  <2>2. CASE RecordProbeResult
    <3>1. probing \in Instances
      BY <2>2 DEF RecordProbeResult, TypeOK, DiscoveryTypeOK
    <3>2. probing' = NoInstance /\ UNCHANGED seen
      BY <2>2 DEF RecordProbeResult, ProbeEnds
    <3>3. (\E obj : Put(probing, obj)) \/ (UNCHANGED inst /\ held' \subseteq held)
      BY <2>2 DEF RecordProbeResult, Drop
    <3> QED
      BY <3>1, <3>2, <3>3, PutCopies, DropCopies
  <2>3. CASE ProbeNotRecorded
    BY <2>3, DropCopies DEF ProbeNotRecorded, ProbeEnds, Drop
  <2> QED
    BY <1>1, <2>1, <2>2, <2>3 DEF DiscoveryNext
<1>2. ASSUME NEW p \in Pools, PoolStep(p) \/ Fail(p) \/ DeliverPool(p), UNCHANGED probing
      PROVE  Copies
  <2>1. CASE ListClaimed(p)
    BY <1>2, <2>1, ReadCopies DEF ListClaimed
  <2>2. CASE Release(p) \/ TryClaim(p)
    <3> DEFINE i == First(todo[p])
    <3>1. i \in Instances /\ UNCHANGED seen
      BY <2>2, FirstIn DEF Release, TryClaim, Settled, TypeOK, PoolTypeOK
    <3>2. (\E obj : Put(i, obj)) \/ UNCHANGED <<inst, held>>
      BY <2>2 DEF Release, TryClaim
    <3> QED
      BY <1>2, <3>1, <3>2, PutCopies, DropCopies
  <2>3. CASE Start(p) \/ ListCandidates(p) \/ DeliverPool(p)
    BY <1>2, <2>3, DropCopies DEF Start, ListCandidates, DeliverPool, inventoryVars
  <2>4. CASE Released(p) \/ RemoveFinalizer(p) \/ UpdateStatus(p) \/ Refused(p) \/ Fail(p)
    <3>1. UNCHANGED <<inst, seen>> /\ \E b : Done(p, b)
      BY <2>4 DEF Released, RemoveFinalizer, UpdateStatus, Refused, Fail
    <3>2. held' \subseteq held
      BY <3>1 DEF Done, Drop
    <3> QED
      BY <1>2, <3>1, <3>2, DropCopies
  <2> QED
    BY <1>2, <2>1, <2>2, <2>3, <2>4 DEF PoolStep
<1>3. ASSUME NEW i \in Instances, DeliverInstance(i), UNCHANGED probing PROVE Copies
  <2>1. Discovery # Informer
    BY DiscoveryAssumption, InventoryAssumption
  <2> QED
    BY <1>3, <2>1 DEF DeliverInstance, Deliver, Copies, Current, TypeOK, InventoryTypeOK
<1>4. ASSUME UserStep, UNCHANGED probing PROVE Copies
  <2>1. ASSUME NEW i \in Instances, DeleteInstance(i) \/ Power(i) \/ Recreate(i)
        PROVE Copies
    BY <1>4, <2>1, PutCopies, DropCopies DEF DeleteInstance, Power, CreateInstance, Recreate
  <2>2. ASSUME NEW p \in Pools, DeletePool(p) \/ \E n \in 0..MaxReplicas : Scale(p, n)
        PROVE Copies
    BY <1>4, <2>2, DropCopies DEF DeletePool, Scale
  <2> QED
    BY <1>4, <2>1, <2>2 DEF UserStep
<1>5. CASE UNCHANGED vars
  BY <1>5, DropCopies DEF vars, inventoryVars, discoveryVars
<1> QED
  BY <1>1, <1>2, <1>3, <1>4, <1>5 DEF Next, discoveryVars
-----------------------------------------------------------------------------
\* At first the cache is current and nothing is being probed.
LEMMA ClaimInvInit == Init => ClaimInv
BY TypeInit DEF Init, InventoryInit, DiscoveryInit, ClaimInv, CacheInv, ProbeInv

\* Who can write an Instance knows what is stored: the copies say so.
LEMMA ClaimInvNext == ClaimInv /\ [Next]_vars => ClaimInv'
<1> SUFFICES ASSUME ClaimInv, [Next]_vars PROVE ClaimInv'
  OBVIOUS
<1>1. TypeOK /\ TypeOK' /\ Copies
  BY TypeNext, CopiesNext DEF ClaimInv
<1>2. CacheInv'
  BY <1>1 DEF Copies, CacheInv, ClaimInv
<1>3. ProbeInv'
  <2> SUFFICES ASSUME probing' # NoInstance, Current(Discovery, probing)'
               PROVE  inst'[probing'] # Gone /\ inst'[probing'].claimedBy = NoPool
    BY DEF ProbeInv, Exists
  <2>1. PICK i \in Instances : probing' = i /\ i # NoInstance
    BY <1>1 DEF TypeOK, DiscoveryTypeOK
  <2>2. Current(Discovery, i)'
    BY <2>1 DEF Current
  <2>3. /\ inst'[i] = inst[i]
        /\ \/ Current(Discovery, i) /\ probing = i
           \/ Current(Informer, i) /\ StillClaimable(seen[i])
    BY <1>1, <2>1, <2>2 DEF Copies
  <2>4. inst[i] # Gone /\ inst[i].claimedBy = NoPool
    BY <2>1, <2>3 DEF ClaimInv, CacheInv, ProbeInv, Exists, StillClaimable
  <2> QED
    BY <2>1, <2>3, <2>4
<1> QED
  BY <1>1, <1>2, <1>3 DEF ClaimInv

\* So the invariant of the copies holds at every moment.
LEMMA ClaimInvAlways == Spec => []ClaimInv
BY ClaimInvInit, ClaimInvNext, PTL DEF Spec

\* What each kind of write may do to a claim and to the Live condition.
LEMMA WrittenKeeps ==
    ASSUME ClaimInv, NEW i \in Instances, Written(i),
           NEW j \in Instances, inst[j].claimedBy # NoPool
    PROVE  /\ inst'[j].claimedBy \in {inst[j].claimedBy, NoPool}
           /\ inst'[j].claimedBy = inst[j].claimedBy => inst'[j].live = inst[j].live
<1> USE DEF ClaimInv, TypeOK, InventoryTypeOK, DiscoveryTypeOK
<1>1. CASE j # i
  BY <1>1 DEF Written, WrittenByProbe, Claims, Recreates, Put
<1>2. CASE j = i
  <2>0. inst[i] \in Object /\ inst[i].claimedBy # NoPool
    BY <1>2
  <2>1. ~WrittenByProbe(i)
    BY <2>0 DEF WrittenByProbe, ProbeInv
  <2>2. CASE Put(i, Unclaim(inst[i]))
    BY <1>2, <2>0, <2>2 DEF Put, Unclaim, Object
  <2>3. ASSUME NEW p \in Pools PROVE ~Claims(p, i)
    BY <2>0 DEF Claims, CacheInv, StillClaimable
  <2>4. CASE Put(i, Settle([inst[i] EXCEPT !.deleting = TRUE]))
    BY <1>2, <2>0, <2>4 DEF Put, Settle, Object, Gone
  <2>5. ~Recreates(i)
    BY <2>0 DEF Recreates, Exists, Gone
  <2> QED
    BY <2>1, <2>2, <2>3, <2>4, <2>5, <1>2 DEF Written
<1> QED
  BY <1>1, <1>2

\* However stale the caches pools work from, and whoever creates, deletes or
\* probes Instances meanwhile, a claim is given up only by its owner or with
\* the Instance.
THEOREM ClaimsAreSafe == Spec => ClaimNeverStolen
<1> DEFINE Step == \A i \in Instances :
                      inst[i].claimedBy # NoPool
                        => inst'[i].claimedBy \in {inst[i].claimedBy, NoPool}
<1>1. ClaimInv /\ [Next]_vars => Step
  BY Writes, WrittenKeeps DEF ClaimInv
<1>2. Spec => [][Step]_vars
  BY <1>1, ClaimInvAlways, PTL DEF Spec
<1> QED
  BY <1>2 DEF ClaimNeverStolen

\* The answer of a probe that was under way when its Instance was claimed is
\* discarded, in every interleaving.
THEOREM ProbesSpareClaimed == Spec => ClaimedNotProbed
<1> DEFINE Step == \A i \in Instances :
                      inst[i].claimedBy # NoPool /\ inst'[i].claimedBy = inst[i].claimedBy
                        => inst'[i].live = inst[i].live
<1>1. ClaimInv /\ [Next]_vars => Step
  BY Writes, WrittenKeeps DEF ClaimInv
<1>2. Spec => [][Step]_vars
  BY <1>1, ClaimInvAlways, PTL DEF Spec
<1> QED
  BY <1>2 DEF ClaimedNotProbed
-----------------------------------------------------------------------------
LEMMA IInvInit == Init => IInv
<1> SUFFICES ASSUME Init PROVE IInv
  OBVIOUS
<1>1. \A i \in Instances : inst[i] = Fresh /\ seen[i] = Fresh
  BY DEF Init, InventoryInit
<1>2. ~Fresh.discovered /\ Fresh.claimedBy = NoPool
  BY DEF Fresh, Gone
<1>3. \A p \in Pools : pc[p] = "idle"
  BY DEF Init, PoolInit
<1> QED
  BY <1>1, <1>2, <1>3, ClaimInvInit DEF IInv, LatchInv, UndiscoveredIsReborn

\* Only a creation changes what is known to be reborn.
LEMMA RebornStays ==
    ASSUME [Next]_vars
    PROVE  UNCHANGED reborn \/ \E i \in Instances : Recreates(i)
BY DEF Next, UserStep, Recreate, Recreates, CreateInstance, poolVars, vars

\* Discovered is never lost but with the object, and an object that takes a
\* name somebody still works with is recorded as reborn.
LEMMA LatchedStays ==
    ASSUME ClaimInv, [Next]_vars, NEW j \in Instances, Latched(j),
           StillShown(j) \/ ~Recreates(j)
    PROVE  Latched(j)'
<1> USE DEF ClaimInv, TypeOK, InventoryTypeOK, DiscoveryTypeOK
<1>a. CASE j \in reborn
  <2>1. j \in reborn'
    BY <1>a, RebornStays DEF Recreates
  <2> QED
    BY <2>1 DEF Latched
<1>b. CASE Recreates(j)
  BY <1>b DEF Recreates, Latched
<1> SUFFICES ASSUME j \notin reborn, ~Recreates(j) PROVE Latched(j)'
  BY <1>a, <1>b
<1>0. inst[j] \in Object /\ (inst[j].discovered \/ inst[j] = Gone)
  BY DEF Latched, Exists
<1> SUFFICES inst'[j].discovered \/ inst'[j] = Gone
  BY DEF Latched, Exists
<1>1. ASSUME NEW i \in Instances, Written(i) PROVE inst'[j].discovered \/ inst'[j] = Gone
  <2>1. CASE j # i
    BY <1>0, <1>1, <2>1 DEF Written, WrittenByProbe, Claims, Recreates, Put
  <2>2. CASE j = i
    <3>1. CASE WrittenByProbe(i)
      <4>1. inst[i] # Gone /\ answered \in BOOLEAN
        BY <3>1 DEF WrittenByProbe, ProbeInv, Exists
      <4>2. inst[i].discovered
        BY <1>0, <2>2, <4>1
      <4>3. PICK obj \in {inst[i], Probed(inst[i])} : Put(i, obj)
        BY <3>1 DEF WrittenByProbe
      <4>4. obj.discovered
        BY <1>0, <4>1, <4>2, <4>3, ProbedFact
      <4>5. inst'[i] = obj
        BY <1>0, <4>3 DEF Put
      <4> QED
        BY <2>2, <4>4, <4>5
    <3>2. CASE Put(i, Unclaim(inst[i]))
      <4>1. inst'[i] = Unclaim(inst[i])
        BY <3>2 DEF Put
      <4>2. Unclaim(Gone) = Gone
        <5>1. Gone.claimedBy = NoPool
          BY DEF Gone
        <5>2. ASSUME NEW o \in Object, o.claimedBy = NoPool PROVE Unclaim(o) = o
          BY <5>2 DEF Unclaim, Object
        <5> QED
          BY <5>1, <5>2, Nothing
      <4>3. inst[i].discovered => Unclaim(inst[i]).discovered
        BY <1>0, <2>2 DEF Unclaim, Object
      <4> QED
        BY <1>0, <2>2, <4>1, <4>2, <4>3
    <3>3. ASSUME NEW p \in Pools, Claims(p, i) PROVE inst'[j].discovered
      <4>1. inst[i] # Gone
        BY <3>3 DEF Claims, CacheInv, StillClaimable
      <4> QED
        BY <1>0, <2>2, <3>3, <4>1 DEF Claims, Put, Object
    <3>4. CASE Put(i, Settle([inst[i] EXCEPT !.deleting = TRUE]))
      BY <1>0, <2>2, <3>4 DEF Put, Settle, Object, Gone
    <3> QED
      BY <1>1, <2>2, <3>1, <3>2, <3>3, <3>4 DEF Written
  <2> QED
    BY <2>1, <2>2
<1> QED
  BY <1>0, <1>1, Writes

\* Candidates come from the cache, and a queue of them only gets shorter.
LEMMA Candidates ==
    ASSUME TypeOK, [Next]_vars, NEW p \in Pools, pc'[p] = "claim", NEW i \in todo'[p]
    PROVE  (pc[p] = "claim" /\ i \in todo[p]) \/ seen[i].discovered
<1> USE DEF TypeOK, PoolTypeOK
<1> DEFINE G == (pc[p] = "claim" /\ i \in todo[p]) \/ seen[i].discovered
<1>1. CASE UNCHANGED <<pc, todo>>
  BY <1>1
<1>2. ASSUME NEW q \in Pools, PoolStep(q) \/ Fail(q) PROVE G
  <2>1. CASE ListClaimed(q)
    <3>1. CASE q = p
      <4>1. todo'[p] = {}
        BY <2>1, <3>1 DEF ListClaimed, Goto
      <4> QED
        BY <4>1
    <3> QED
      BY <2>1, <3>1 DEF ListClaimed, Goto
  <2>2. CASE ListCandidates(q)
    BY <2>2 DEF ListCandidates, Goto, Claimable
  <2>3. CASE Release(q) \/ TryClaim(q)
    BY <2>3 DEF Release, TryClaim
  <2>4. CASE Start(q)
    BY <2>4 DEF Start, Goto
  <2>5. ASSUME NEW b, Done(q, b) PROVE G
    BY <2>5 DEF Done, Goto
  <2> QED
    BY <1>2, <2>1, <2>2, <2>3, <2>4, <2>5
       DEF PoolStep, Released, RemoveFinalizer, UpdateStatus, Refused, Fail
<1> QED
  BY <1>1, <1>2 DEF Next, UserStep, DeliverPool, DeliverInstance, DeletePool, Scale,
                    vars, poolVars

\* Every step keeps what is claimed discovered or known to be reborn: a pool's
\* claim by the candidates it listed, the others by the latch.
LEMMA IInvNext == IInv /\ [Next]_vars => IInv'
<1> SUFFICES ASSUME IInv, [Next]_vars PROVE IInv'
  OBVIOUS
<1>1. ClaimInv /\ TypeOK /\ ClaimInv' /\ TypeOK' /\ Copies
  BY ClaimInvNext, CopiesNext DEF IInv, ClaimInv
<1>2. \A i \in Instances :
         Latched(i) /\ (StillShown(i) \/ ~Recreates(i)) => Latched(i)'
  BY <1>1, LatchedStays
<1>3. LatchInv'
  <2>1. ASSUME NEW i \in Instances, seen'[i].discovered PROVE Latched(i)'
    <3>1. CASE seen'[i] = seen[i]
      <4>1. StillShown(i)
        BY <2>1, <3>1 DEF StillShown, Gone
      <4> QED
        BY <1>2, <2>1, <3>1, <4>1 DEF IInv, LatchInv
    <3>2. CASE seen'[i] # seen[i]
      <4>1. \E j \in Instances : DeliverInstance(j)
        BY <3>2 DEF Next, DiscoveryNext, Probe, RecordProbeResult, ProbeNotRecorded, PoolStep,
                    Start, ListClaimed, Release, Released, RemoveFinalizer, ListCandidates,
                    TryClaim, UpdateStatus, Refused, Fail, DeliverPool, UserStep,
                    DeleteInstance, Power, Recreate, CreateInstance, DeletePool, Scale,
                    vars, inventoryVars
      <4>2. seen'[i] = inst[i] /\ inst' = inst
        BY <1>1, <3>2, <4>1 DEF DeliverInstance, Deliver, TypeOK, InventoryTypeOK
      <4> QED
        BY <2>1, <4>2 DEF Latched
    <3> QED
      BY <3>1, <3>2
  <2>2. ASSUME NEW p \in Pools, pc'[p] = "claim", NEW i \in todo'[p] PROVE Latched(i)'
    <3>1. i \in Instances
      BY <1>1, <2>2 DEF TypeOK, PoolTypeOK
    <3>2. (pc[p] = "claim" /\ i \in todo[p]) \/ seen[i].discovered
      BY <1>1, <2>2, Candidates
    <3>3. Latched(i)
      BY <3>1, <3>2 DEF IInv, LatchInv
    <3>4. StillShown(i)
      BY <3>2 DEF StillShown, Gone
    <3> QED
      BY <1>2, <3>1, <3>3, <3>4
  <2> QED
    BY <2>1, <2>2 DEF LatchInv
<1>4. UndiscoveredIsReborn'
  <2> SUFFICES ASSUME NEW j \in Instances, inst'[j].claimedBy # NoPool PROVE Latched(j)'
    BY DEF UndiscoveredIsReborn, Latched, Exists, Gone
  <2>1. CASE inst[j].claimedBy # NoPool
    <3>1. ~Recreates(j)
      BY <2>1 DEF Recreates, Exists, Gone
    <3> QED
      BY <1>2, <2>1, <3>1 DEF Latched, IInv, UndiscoveredIsReborn
  <2>2. CASE inst[j].claimedBy = NoPool
    <3>1. PICK i \in Instances : Written(i)
      BY <1>1, <2>2, Writes
    <3>2. inst[i] \in Object /\ inst \in [Instances -> Object]
      BY <1>1 DEF TypeOK, InventoryTypeOK
    <3>3. i = j /\ \E p \in Pools : Claims(p, i)
      <4>1. i = j
        BY <2>2, <3>1, <3>2 DEF Written, WrittenByProbe, Claims, Recreates, Put
      <4>2. ~WrittenByProbe(i)
        <5>1. answered \in BOOLEAN
          BY <1>1 DEF TypeOK, DiscoveryTypeOK
        <5>2. Probed(inst[i]).claimedBy = NoPool
          BY <2>2, <3>2, <4>1, <5>1, ProbedFact
        <5> QED
          BY <2>2, <3>2, <4>1, <5>2 DEF WrittenByProbe, Put
      <4>3. ~Put(i, Unclaim(inst[i]))
        BY <3>2, <4>1 DEF Put, Unclaim, Object
      <4>4. ~Put(i, Settle([inst[i] EXCEPT !.deleting = TRUE]))
        BY <2>2, <3>2, <4>1 DEF Put, Settle, Object, Gone
      <4>5. ~Recreates(i)
        BY <3>2, <4>1 DEF Recreates, Put, Fresh, Gone
      <4> QED
        BY <3>1, <4>1, <4>2, <4>3, <4>4, <4>5 DEF Written
    <3>4. Latched(j) /\ StillShown(j)
      BY <3>3 DEF Claims, IInv, LatchInv, StillShown
    <3> QED
      BY <1>2, <3>4
  <2> QED
    BY <2>1, <2>2
<1> QED
  BY <1>1, <1>3, <1>4 DEF IInv

\* However the caches lag, pools race and names are used again: a pool claims an
\* Instance that discovery has not seen only if it was created under a name
\* whose former owner the cache or a pool's candidates still showed.
THEOREM ClaimsAreDiscovered == Spec => []UndiscoveredIsReborn
<1>1. IInv => UndiscoveredIsReborn
  BY DEF IInv
<1> QED
  BY IInvInit, IInvNext, <1>1, PTL DEF Spec
=============================================================================
