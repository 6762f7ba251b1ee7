-------------------------- MODULE OffboardingProofs --------------------------
(***************************************************************************)
(* Proofs about Offboarding, for any pools and Instances, any number of    *)
(* edits, failures and timeouts and caches that lag behind as they like:   *)
(* no machine is wiped under a member that stays, however often the lease  *)
(* passes to a process whose cache lags.                                   *)
(*                                                                         *)
(* It rests on what a deletion mark does.  It is never taken back, so a    *)
(* stale copy that has it is right, and a stale copy that lacks it can     *)
(* only cause what is undone later.                                        *)
(***************************************************************************)
EXTENDS Offboarding, WellFoundedInduction, TLAPS

\* An Instance that the cache shows as deleted is deleted, or gone.
MarkInv == \A i \in Instances : seen[i].deleting => inst[i].deleting

\* The instance-reset controller has an Instance in work, and one that it is
\* about to reset is deleted.
IntentInv ==
    /\ want # "nothing" => resetting \in Instances
    /\ want = "reset" => inst[resetting].deleting

\* The cluster is deleted if the cache of any process says so, and one that is
\* torn down is deleted.
ClusterInv ==
    /\ \A p \in Procs : clusterSeen[p] # "live" => cluster # "live"
    /\ stage \in {"teardown", "clear", "letgo"} => cluster # "live"

IInv == TypeOK /\ MarkInv /\ IntentInv /\ ClusterInv
-----------------------------------------------------------------------------
(***************************************************************************)
(* Operators.                                                              *)
(***************************************************************************)

\* What is there of an object when there is none.
LEMMA GoneFact == Gone \in Object /\ Gone.deleting = TRUE
BY DEF Gone, Object

\* Removing the last finalizer leaves an object or none, deleted if it was.
LEMMA SettleFact ==
    ASSUME NEW obj \in Object
    PROVE  Settle(obj) \in Object /\ (obj.deleting => Settle(obj).deleting)
BY GoneFact DEF Settle

\* What the controllers and users write is an object, and whoever writes one
\* that is deleted leaves it deleted.
LEMMA WriteFact ==
    ASSUME NEW obj \in Object
    PROVE  /\ \A p \in Pools \cup {NoPool} :
                 LET o == [obj EXCEPT !.claimedBy = p]
                 IN  o \in Object /\ (obj.deleting => o.deleting)
           /\ \A b \in BOOLEAN :
                 LET o == [obj EXCEPT !.configured = b]
                 IN  o \in Object /\ (obj.deleting => o.deleting)
           /\ \A b \in BOOLEAN :
                 LET o == [obj EXCEPT !.finalizer = b]
                 IN  o \in Object /\ (obj.deleting => o.deleting)
           /\ [obj EXCEPT !.deleting = TRUE] \in Object
           /\ [obj EXCEPT !.deleting = TRUE].deleting
BY DEF Object

\* So does the instance-reset controller.
LEMMA WantedFact ==
    ASSUME NEW obj \in Object, want \in {"finalizer", "clear", "remove"}
    PROVE  Wanted(obj) \in Object /\ (obj.deleting => Wanted(obj).deleting)
  <1>1. CASE want = "finalizer"
    BY <1>1, WriteFact DEF Wanted
  <1>2. CASE want = "clear"
    BY <1>2, WriteFact DEF Wanted
  <1>3. CASE want = "remove"
    <2> DEFINE o == [obj EXCEPT !.finalizer = FALSE]
    <2>1. o \in Object /\ (obj.deleting => o.deleting)
      BY WriteFact
    <2>2. Wanted(obj) = Settle(o)
      BY <1>3 DEF Wanted
    <2> HIDE DEF o
    <2> QED BY <2>1, <2>2, SettleFact
  <1> QED BY <1>1, <1>2, <1>3

\* A set of Instances has a first one.
LEMMA First ==
    ASSUME NEW S, S \subseteq Instances, S # {}
    PROVE  \E i \in S : \A j \in S : i <= j
  <1> DEFINE R == OpToRel(<, Nat)
  <1>0. S \subseteq Nat
    BY InventoryAssumption
  <1>1. IsWellFoundedOn(R, Nat)
    BY NatLessThanWellFounded, Zenon
  <1>2. \A j, k \in Nat : j < k => <<j, k>> \in R
    BY DEF OpToRel
  <1> HIDE DEF R
  <1>3. PICK i \in S : \A j \in S : ~(<<j, i>> \in R)
    BY <1>0, <1>1, WFMin, Zenon
  <1>4. ASSUME NEW j \in S
        PROVE  i <= j
    <2>1. i \in Nat /\ j \in Nat
      BY <1>0
    <2>2. ~(j < i)
      BY <1>2, <1>3, <2>1, Zenon
    <2> QED BY <2>1, <2>2
  <1> QED BY <1>4

\* A pass that has members left goes on with one of them.
LEMMA NextMemberFact ==
    ASSUME ClusterTypeOK, members # NoMembers
    PROVE  NextMember \in DOMAIN members
  <1> DEFINE Workers == {i \in DOMAIN members : members[i].pool # ControlPlanePool}
             Group == IF Workers # {} THEN Workers ELSE DOMAIN members
  <1>1. DOMAIN members # {}
    BY DEF ClusterTypeOK, NoMembers
  <1>2. Group \subseteq DOMAIN members /\ Group # {} /\ Group \subseteq Instances
    BY <1>1 DEF ClusterTypeOK
  <1>3. NextMember = CHOOSE i \in Group : \A j \in Group : i <= j
    BY DEF NextMember
  <1> HIDE DEF Group
  <1>4. NextMember \in Group
    BY <1>2, <1>3, First
  <1> QED BY <1>2, <1>4

\* The copies that are left without one of them.
LEMMA WithoutFact ==
    ASSUME ClusterTypeOK, NEW i
    PROVE  /\ DOMAIN Without(i) = DOMAIN members \ {i}
           /\ Without(i) \in [DOMAIN Without(i) -> Copy]
BY DEF ClusterTypeOK, Without

\* The copies a pass begins with are of claimed Instances.
LEMMA CopiesFact ==
    ASSUME InventoryTypeOK, NEW S, S \subseteq Instances, \A i \in S : IsClaimed(seen[i])
    PROVE  DOMAIN CopiesOf(S) = S /\ CopiesOf(S) \in [DOMAIN CopiesOf(S) -> Copy]
  <1>1. \A i \in S : seen[i].claimedBy \in Pools /\ seen[i].configured \in BOOLEAN
    BY DEF InventoryTypeOK, Object, IsClaimed
  <1> QED BY <1>1 DEF CopiesOf, Copy

\* No copy is left.
LEMMA NoMembersFact == DOMAIN NoMembers = {} /\ NoMembers \in [DOMAIN NoMembers -> Copy]
BY DEF NoMembers

-----------------------------------------------------------------------------
(***************************************************************************)
(* What is written to the store.                                           *)
(***************************************************************************)

Holders == (Readers \cup {Informer}) \X Instances

\* A step that changes Instances in the store keeps them well typed and deleted
\* if they were; copies of them are held by readers.
Stored ==
    /\ inst' \in [Instances -> Object]
    /\ \A i \in Instances : inst[i].deleting => inst'[i].deleting
    /\ held' \subseteq Holders

\* A write by whoever leaves deleted what was deleted ...
LEMMA PutStored ==
    ASSUME InventoryTypeOK, NEW i \in Instances, NEW obj \in Object,
           inst[i].deleting => obj.deleting, Put(i, obj)
    PROVE  Stored
BY DEF InventoryTypeOK, Put, Stored, Holders

\* ... and one whose answer brings the new resourceVersion back.
LEMMA PutBackStored ==
    ASSUME InventoryTypeOK, NEW r \in Readers, NEW i \in Instances, NEW obj \in Object,
           inst[i].deleting => obj.deleting, PutBack(r, i, obj)
    PROVE  Stored
  <1>1. inst' \in [Instances -> Object] /\ \A j \in Instances : inst[j].deleting => inst'[j].deleting
    BY DEF InventoryTypeOK, PutBack
  <1>2. held' \subseteq Holders
    BY DEF InventoryTypeOK, PutBack, Holders
  <1> QED BY <1>1, <1>2 DEF Stored

\* A step that leaves the store alone and drops or keeps copies.
LEMMA StillStored ==
    ASSUME InventoryTypeOK, inst' = inst, held' \subseteq held
    PROVE  Stored
BY DEF InventoryTypeOK, Stored, Holders

\* Reading hands copies that the cache holds to a reader.
LEMMA ReadStored ==
    ASSUME InventoryTypeOK, inst' = inst, NEW r \in Readers, NEW S, S \subseteq Instances, Read(r, S)
    PROVE  Stored
  <1>1. ASSUME NEW h \in held'
        PROVE  h \in Holders
    <2>1. CASE h \in held
      BY <2>1 DEF InventoryTypeOK, Holders
    <2>2. CASE \E i \in S : h = <<r, i>>
      BY <2>2 DEF Holders
    <2> QED BY <2>1, <2>2 DEF Read
  <1> QED BY <1>1 DEF InventoryTypeOK, Stored

\* The edits are counted up to their bound.
LEMMA EditFact == ASSUME InventoryTypeOK, Edit PROVE edits' \in 0 .. MaxEdits
BY InventoryAssumption DEF InventoryTypeOK, Edit

\* What a step has to show of Instances and machines.
LEMMA InventoryKept ==
    ASSUME InventoryTypeOK, Stored, seen' = seen, node' \in [Instances -> NodeStates],
           edits' \in 0 .. MaxEdits
    PROVE  InventoryTypeOK' /\ (MarkInv => MarkInv')
BY DEF InventoryTypeOK, Stored, Holders, MarkInv

\* The machine of an Instance is wiped.
LEMMA WipeFact ==
    ASSUME InventoryTypeOK, NEW i \in Instances, Wipe(i)
    PROVE  node' \in [Instances -> NodeStates]
BY DEF InventoryTypeOK, Wipe, NodeStates

-----------------------------------------------------------------------------
(***************************************************************************)
(* The instance-reset controller.                                          *)
(***************************************************************************)

\* A reconcile that ends has no Instance in work any more.
LEMMA ResetDoneFact ==
    ASSUME TypeOK, IntentInv, want # "nothing" \/ resetting # NoInstance, NEW again \in BOOLEAN,
           ResetDone(again)
    PROVE  ResetTypeOK' /\ IntentInv'
  <1>1. resetting \in Instances
    BY DEF TypeOK, ResetTypeOK, IntentInv
  <1>2. want' = "nothing" /\ resetting' = NoInstance /\ pool' = NoPool
    BY DEF ResetDone
  <1>3. resetQueue' \subseteq Instances
    BY <1>1 DEF ResetDone, TypeOK, ResetTypeOK
  <1> QED BY <1>2, <1>3 DEF ResetTypeOK, IntentInv, Wants

\* What a step of the controller has to show.
LEMMA ResetKept ==
    ASSUME IInv, Stored, seen' = seen, node' \in [Instances -> NodeStates], edits' \in 0 .. MaxEdits,
           ResetTypeOK', IntentInv', UNCHANGED memberVars, UNCHANGED clusterVars
    PROVE  IInv'
  <1>1. InventoryTypeOK' /\ MarkInv'
    BY InventoryKept DEF IInv, TypeOK
  <1>2. MembersTypeOK' /\ ClusterTypeOK'
    BY DEF IInv, TypeOK, MembersTypeOK, ClusterTypeOK, memberVars, clusterVars
  <1>3. ClusterInv'
    BY DEF IInv, ClusterInv, memberVars, clusterVars
  <1> QED BY <1>1, <1>2, <1>3 DEF IInv, TypeOK

\* Reconcile sets out to reset only what its copy shows as deleted.
LEMMA ResetFetchStep ==
    ASSUME IInv, NEW i \in Instances, NEW p \in Procs, ResetFetch(i, p), UNCHANGED clusterVars
    PROVE  IInv'
  <1>1. /\ TypeOK /\ InventoryTypeOK /\ ResetTypeOK /\ MarkInv /\ IntentInv
        /\ inst' = inst /\ seen' = seen /\ node' = node /\ edits' = edits /\ UNCHANGED memberVars
    BY DEF IInv, TypeOK, ResetFetch
  <1>2. node' \in [Instances -> NodeStates] /\ edits' \in 0 .. MaxEdits
    BY <1>1 DEF InventoryTypeOK
  <1>3. resetQueue' \subseteq Instances
    BY <1>1 DEF ResetFetch, ResetTypeOK
  <1>4. CASE UNCHANGED <<resetting, want, pool, held>>
    <2>1. Stored
      BY <1>1, <1>4, StillStored
    <2>2. ResetTypeOK' /\ IntentInv'
      BY <1>1, <1>3, <1>4 DEF ResetTypeOK, IntentInv
    <2> QED BY <1>1, <1>2, <2>1, <2>2, ResetKept
  <1>5. CASE /\ resetting' = i /\ want' = Intent(seen[i], p) /\ pool' = seen[i].claimedBy
             /\ Read(Resetter, {i})
    <2>1. Stored
      BY <1>1, <1>5, ReadStored, ResetAssumption
    <2>2. Intent(seen[i], p) \in Wants
      BY DEF Intent, Wants
    <2>3. Intent(seen[i], p) = "reset" => seen[i].deleting
      BY DEF Intent, WantsReset
    <2>4. seen[i].claimedBy \in Pools \cup {NoPool}
      BY <1>1 DEF InventoryTypeOK, Object
    <2>5. ResetTypeOK'
      BY <1>3, <1>5, <2>2, <2>4 DEF ResetTypeOK
    <2>6. IntentInv'
      BY <1>1, <1>5, <2>3 DEF IntentInv, MarkInv
    <2> QED BY <1>1, <1>2, <2>1, <2>5, <2>6, ResetKept
  <1> QED BY <1>4, <1>5 DEF ResetFetch

\* The Update that ends a reconcile is a current one, or refused.
LEMMA ResetWriteStep ==
    ASSUME IInv, ResetWrite, UNCHANGED clusterVars
    PROVE  IInv'
  <1>1. /\ TypeOK /\ InventoryTypeOK /\ IntentInv
        /\ seen' = seen /\ node' = node /\ edits' = edits /\ UNCHANGED memberVars
    BY DEF IInv, TypeOK, ResetWrite
  <1>2. node' \in [Instances -> NodeStates] /\ edits' \in 0 .. MaxEdits
    BY <1>1 DEF InventoryTypeOK
  <1>3. want \in {"finalizer", "clear", "remove"} /\ want # "nothing" /\ resetting \in Instances
    BY <1>1 DEF ResetWrite, IntentInv
  <1>4. \E again \in BOOLEAN : ResetDone(again)
    BY DEF ResetWrite
  <1>5. ResetTypeOK' /\ IntentInv'
    BY <1>1, <1>3, <1>4, ResetDoneFact
  <1>6. Stored
    <2>1. CASE Put(resetting, Wanted(inst[resetting]))
      <3>1. inst[resetting] \in Object
        BY <1>1, <1>3 DEF InventoryTypeOK
      <3> QED BY <1>1, <1>3, <2>1, <3>1, WantedFact, PutStored
    <2>2. CASE UNCHANGED <<inst, held>>
      BY <1>1, <2>2, StillStored
    <2> QED BY <2>1, <2>2 DEF ResetWrite
  <1> QED BY <1>1, <1>2, <1>5, <1>6, ResetKept

\* The Reset RPC reaches the machine or not; its answer is another matter.
LEMMA ResetMachineStep ==
    ASSUME IInv, ResetMachine, UNCHANGED clusterVars
    PROVE  IInv'
  <1>1. /\ TypeOK /\ InventoryTypeOK /\ ResetTypeOK /\ IntentInv
        /\ inst' = inst /\ seen' = seen /\ UNCHANGED memberVars /\ want = "reset"
    BY DEF IInv, TypeOK, ResetMachine
  <1>2. resetting \in Instances
    BY <1>1 DEF IntentInv
  <1>3. node' \in [Instances -> NodeStates]
    <2>1. CASE Wipe(resetting)
      BY <1>1, <1>2, <2>1, WipeFact
    <2>2. CASE node' = node
      BY <1>1, <2>2 DEF InventoryTypeOK
    <2> QED BY <2>1, <2>2 DEF ResetMachine
  <1>4. edits' \in 0 .. MaxEdits
    <2>1. Edit \/ edits' = edits
      BY DEF ResetMachine
    <2> QED BY <1>1, <2>1, EditFact DEF InventoryTypeOK
  <1>5. CASE want' = "remove" /\ UNCHANGED <<resetting, resetQueue, pool, held>>
    <2>1. Stored
      BY <1>1, <1>5, StillStored
    <2>2. ResetTypeOK' /\ IntentInv'
      BY <1>1, <1>2, <1>5 DEF ResetTypeOK, IntentInv, Wants
    <2> QED BY <1>1, <1>3, <1>4, <2>1, <2>2, ResetKept
  <1>6. CASE ResetDone(TRUE) /\ Drop(Resetter)
    <2>1. Stored
      BY <1>1, <1>6, StillStored DEF Drop
    <2>2. ResetTypeOK' /\ IntentInv'
      BY <1>1, <1>6, ResetDoneFact
    <2> QED BY <1>1, <1>3, <1>4, <2>1, <2>2, ResetKept
  <1> QED BY <1>5, <1>6 DEF ResetMachine

\* The process dies or a request fails.
LEMMA ResetFailsStep ==
    ASSUME IInv, ResetFails, UNCHANGED clusterVars
    PROVE  IInv'
  <1>1. /\ TypeOK /\ InventoryTypeOK /\ IntentInv /\ Edit /\ Drop(Resetter)
        /\ inst' = inst /\ seen' = seen /\ node' = node /\ UNCHANGED memberVars
    BY DEF IInv, TypeOK, ResetFails
  <1>2. node' \in [Instances -> NodeStates] /\ edits' \in 0 .. MaxEdits
    BY <1>1, EditFact DEF InventoryTypeOK
  <1>3. Stored
    BY <1>1, StillStored DEF Drop
  <1>4. \E again \in BOOLEAN : ResetDone(again)
    BY DEF ResetFails
  <1>5. ResetTypeOK' /\ IntentInv'
    BY <1>1, <1>4, ResetDoneFact DEF ResetFails
  <1> QED BY <1>1, <1>2, <1>3, <1>5, ResetKept

-----------------------------------------------------------------------------
(***************************************************************************)
(* The TalosCluster reconciler.                                            *)
(***************************************************************************)

\* What a step of the reconciler has to show.
LEMMA ClusterKept ==
    ASSUME IInv, Stored, seen' = seen, node' \in [Instances -> NodeStates], edits' \in 0 .. MaxEdits,
           MembersTypeOK', ClusterTypeOK', ClusterInv', UNCHANGED resetVars
    PROVE  IInv'
  <1>1. InventoryTypeOK' /\ MarkInv'
    BY InventoryKept DEF IInv, TypeOK
  <1>2. ResetTypeOK'
    BY DEF IInv, TypeOK, ResetTypeOK, resetVars
  <1>3. IntentInv'
    BY DEF IInv, IntentInv, Stored, resetVars
  <1> QED BY <1>1, <1>2, <1>3 DEF IInv, TypeOK

\* A member is handled: the reconcile goes on without it.
LEMMA ProceedFact ==
    ASSUME ClusterTypeOK, NEW next \in {"configure", "teardown"}, Proceed(next),
           failed' \in BOOLEAN, UNCHANGED <<leader, queued, cpReady, unregister>>
    PROVE  ClusterTypeOK'
  <1>1. DOMAIN members' \subseteq Instances /\ members' \in [DOMAIN members' -> Copy]
    BY WithoutFact DEF Proceed, ClusterTypeOK
  <1>2. stage' = next /\ member' = NoMember
    BY DEF Proceed
  <1> QED BY <1>1, <1>2 DEF ClusterTypeOK, Stages

\* A pass begins, on copies from the cache.
LEMMA ClusterFetchStep ==
    ASSUME IInv, ClusterFetch, UNCHANGED resetVars
    PROVE  IInv'
  <1> DEFINE S == IF StillLive THEN ToConfigure ELSE ToTearDown
  <1>1. /\ TypeOK /\ InventoryTypeOK /\ MembersTypeOK /\ ClusterTypeOK /\ ClusterInv
        /\ inst' = inst /\ seen' = seen /\ node' = node /\ edits' = edits /\ UNCHANGED memberVars
        /\ failed' = FALSE /\ queued' = FALSE /\ stage = "idle" /\ UNCHANGED <<leader, member, cpReady>>
    BY DEF IInv, TypeOK, ClusterFetch
  <1>2. node' \in [Instances -> NodeStates] /\ edits' \in 0 .. MaxEdits /\ MembersTypeOK'
    BY <1>1 DEF InventoryTypeOK, MembersTypeOK, memberVars
  <1>3. CASE UNCHANGED <<stage, members, held, unregister>>
    <2>1. Stored
      BY <1>1, <1>3, StillStored
    <2>2. ClusterTypeOK'
      BY <1>1, <1>3 DEF ClusterTypeOK
    <2>3. ClusterInv'
      BY <1>1, <1>3 DEF ClusterInv, memberVars
    <2> QED BY <1>1, <1>2, <2>1, <2>2, <2>3, ClusterKept
  <1>4. CASE /\ stage' = IF StillLive THEN "configure" ELSE "teardown"
             /\ members' = CopiesOf(S) /\ Read(ClusterReader, S)
             /\ unregister' \in (IF StillLive THEN {FALSE} ELSE BOOLEAN)
    <2>1. S \subseteq Instances /\ \A i \in S : IsClaimed(seen[i])
      BY MembersAssumption, InventoryAssumption DEF ToConfigure, ToTearDown, ControlPlane, IsClaimed
    <2> HIDE DEF S
    <2>2. Stored
      BY <1>1, <1>4, <2>1, ReadStored, TeardownAssumption
    <2>3. DOMAIN members' \subseteq Instances /\ members' \in [DOMAIN members' -> Copy]
      BY <1>1, <1>4, <2>1, CopiesFact
    <2>4. stage' \in {"configure", "teardown"} /\ unregister' \in BOOLEAN
      BY <1>4
    <2>5. ClusterTypeOK'
      BY <1>1, <2>3, <2>4 DEF ClusterTypeOK, Stages
    <2>6. ClusterInv'
      <3>1. stage' \in {"teardown", "clear", "letgo"} => clusterSeen[leader] # "live"
        BY <1>4 DEF StillLive
      <3>2. leader \in Procs
        BY <1>1 DEF ClusterTypeOK
      <3> QED BY <1>1, <3>1, <3>2 DEF ClusterInv, memberVars
    <2> QED BY <1>1, <1>2, <2>2, <2>5, <2>6, ClusterKept
  <1> QED BY <1>3, <1>4 DEF ClusterFetch

\* The members are configured, one after the other.
LEMMA ConfigureStep ==
    ASSUME IInv, UNCHANGED resetVars, Configured \/ MarkConfigured \/ \E i \in Instances : Configure(i)
    PROVE  IInv'
  <1>1. /\ TypeOK /\ InventoryTypeOK /\ MembersTypeOK /\ ClusterTypeOK /\ ClusterInv
        /\ seen' = seen /\ edits' = edits /\ UNCHANGED memberVars
        /\ stage \in {"configure", "mark"} /\ failed' = failed /\ unregister' = unregister /\ leader' = leader
    BY DEF IInv, TypeOK, Configured, MarkConfigured, Configure
  <1>2. edits' \in 0 .. MaxEdits /\ MembersTypeOK'
    BY <1>1 DEF InventoryTypeOK, MembersTypeOK, memberVars
  <1>4. ASSUME stage' \in {"idle", "configure", "mark"}
        PROVE  ClusterInv'
    BY <1>1, <1>4 DEF ClusterInv, memberVars
  <1>5. CASE Configured
    <2>1. inst' = inst /\ held' \subseteq held /\ node' \in [Instances -> NodeStates]
      BY <1>1, <1>5 DEF Configured, Drop, InventoryTypeOK
    <2>2. Stored
      BY <1>1, <2>1, StillStored
    <2>3. stage' = "idle" /\ queued' = TRUE /\ cpReady' \in BOOLEAN /\ UNCHANGED <<members, member>>
      BY <1>1, <1>5 DEF Configured, ClusterTypeOK
    <2>4. ClusterTypeOK'
      BY <1>1, <2>3 DEF ClusterTypeOK, Stages
    <2> QED BY <1>1, <1>2, <1>4, <2>1, <2>2, <2>3, <2>4, ClusterKept
  <1>6. CASE MarkConfigured
    <2>1. member \in Instances /\ inst[member] \in Object
      BY <1>1, <1>6 DEF MarkConfigured, ClusterTypeOK, InventoryTypeOK
    <2>2. Stored
      <3>1. CASE UNCHANGED <<inst, held>>
        BY <1>1, <3>1, StillStored
      <3>2. CASE PutBack(ClusterReader, member, [inst[member] EXCEPT !.configured = TRUE])
        BY <1>1, <2>1, <3>2, WriteFact, PutBackStored, TeardownAssumption
      <3> QED BY <1>6, <3>1, <3>2 DEF MarkConfigured
    <2>3. ClusterTypeOK' /\ stage' = "configure"
      BY <1>1, <1>6, ProceedFact DEF MarkConfigured, Proceed, ClusterTypeOK
    <2>4. node' \in [Instances -> NodeStates]
      BY <1>1, <1>6 DEF MarkConfigured, InventoryTypeOK
    <2> QED BY <1>1, <1>2, <1>4, <2>2, <2>3, <2>4, ClusterKept
  <1>7. ASSUME NEW i \in Instances, Configure(i)
        PROVE  IInv'
    <2>1. Stored
      BY <1>1, <1>7, StillStored DEF Configure
    <2>2. node' \in [Instances -> NodeStates]
      BY <1>1, <1>7 DEF Configure, InventoryTypeOK, NodeStates
    <2>3. i \in DOMAIN members /\ UNCHANGED <<leader, queued, cpReady>>
      BY <1>7 DEF Configure
    <2>4. CASE stage' = "mark" /\ member' = i /\ UNCHANGED members
      <3>1. ClusterTypeOK'
        BY <1>1, <2>3, <2>4 DEF ClusterTypeOK, Stages
      <3> QED BY <1>1, <1>2, <1>4, <2>1, <2>2, <2>4, <3>1, ClusterKept
    <2>5. CASE members' = Without(i) /\ stage = "configure" /\ UNCHANGED <<stage, member>>
      <3>1. DOMAIN members' \subseteq Instances /\ members' \in [DOMAIN members' -> Copy]
        BY <1>1, <2>5, WithoutFact DEF ClusterTypeOK
      <3>2. ClusterTypeOK'
        BY <1>1, <2>3, <2>5, <3>1 DEF ClusterTypeOK
      <3> QED BY <1>1, <1>2, <1>4, <2>1, <2>2, <2>5, <3>2, ClusterKept
    <2> QED BY <1>7, <2>4, <2>5 DEF Configure
  <1> QED BY <1>5, <1>6, <1>7

\* The members are torn down, one after the other.
LEMMA TeardownStep ==
    ASSUME IInv, UNCHANGED resetVars, TeardownReset \/ TeardownClear \/ TeardownLetGo
    PROVE  IInv'
  <1>1. /\ TypeOK /\ InventoryTypeOK /\ MembersTypeOK /\ ClusterTypeOK /\ ClusterInv
        /\ seen' = seen /\ UNCHANGED memberVars /\ UNCHANGED <<leader, queued, cpReady, unregister>>
        /\ stage \in {"teardown", "clear", "letgo"}
    BY DEF IInv, TypeOK, TeardownReset, TeardownClear, TeardownLetGo
  <1>2. MembersTypeOK'
    BY <1>1 DEF MembersTypeOK, memberVars
  <1>3. ASSUME stage' \in {"teardown", "clear", "letgo"}
        PROVE  ClusterInv'
    BY <1>1, <1>3 DEF ClusterInv, memberVars
  <1>4. edits' \in 0 .. MaxEdits
    <2>1. Edit \/ edits' = edits
      BY DEF TeardownReset, TeardownClear, TeardownLetGo
    <2> QED BY <1>1, <2>1, EditFact DEF InventoryTypeOK
  <1>5. CASE TeardownReset
    <2> DEFINE i == NextMember
    <2>1. i \in DOMAIN members /\ i \in Instances
      BY <1>1, <1>5, NextMemberFact DEF TeardownReset, ClusterTypeOK
    <2>2. stage = "teardown" /\ inst' = inst /\ held' = held
      BY <1>5 DEF TeardownReset
    <2>3. node' = node \/ Wipe(i)
      BY <1>5 DEF TeardownReset
    <2>4. \/ stage' \in {"letgo", "clear"} /\ member' = i /\ UNCHANGED <<members, failed>>
          \/ members' = Without(i) /\ failed' = TRUE /\ UNCHANGED <<stage, member>>
      BY <1>5 DEF TeardownReset
    <2> HIDE DEF i
    <2>5. Stored
      BY <1>1, <2>2, StillStored
    <2>6. node' \in [Instances -> NodeStates]
      BY <1>1, <2>1, <2>3, WipeFact DEF InventoryTypeOK
    <2>7. CASE stage' \in {"letgo", "clear"} /\ member' = i /\ UNCHANGED <<members, failed>>
      <3>1. ClusterTypeOK'
        BY <1>1, <2>1, <2>7 DEF ClusterTypeOK, Stages
      <3> QED BY <1>1, <1>2, <1>3, <1>4, <2>5, <2>6, <2>7, <3>1, ClusterKept
    <2>8. CASE members' = Without(i) /\ failed' = TRUE /\ UNCHANGED <<stage, member>>
      <3>1. DOMAIN members' \subseteq Instances /\ members' \in [DOMAIN members' -> Copy]
        BY <1>1, <2>8, WithoutFact DEF ClusterTypeOK
      <3>2. ClusterTypeOK'
        BY <1>1, <2>2, <2>8, <3>1 DEF ClusterTypeOK
      <3> QED BY <1>1, <1>2, <1>3, <1>4, <2>2, <2>5, <2>6, <2>8, <3>2, ClusterKept
    <2> QED BY <2>4, <2>7, <2>8
  <1>6. CASE TeardownClear
    <2>1. member \in DOMAIN members /\ member \in Instances /\ inst[member] \in Object
      BY <1>1, <1>6 DEF TeardownClear, ClusterTypeOK, InventoryTypeOK
    <2>2. Stored
      <3>1. CASE UNCHANGED <<inst, held>>
        BY <1>1, <3>1, StillStored
      <3>2. CASE PutBack(ClusterReader, member, [inst[member] EXCEPT !.configured = FALSE])
        BY <1>1, <2>1, <3>2, WriteFact, PutBackStored, TeardownAssumption
      <3> QED BY <1>6, <3>1, <3>2 DEF TeardownClear
    <2>3. /\ stage' = "letgo" /\ node' \in [Instances -> NodeStates]
          /\ UNCHANGED <<members, member, failed>>
      BY <1>1, <1>6 DEF TeardownClear, InventoryTypeOK
    <2>4. ClusterTypeOK'
      BY <1>1, <2>1, <2>3 DEF ClusterTypeOK, Stages
    <2> QED BY <1>1, <1>2, <1>3, <1>4, <2>2, <2>3, <2>4, ClusterKept
  <1>7. CASE TeardownLetGo
    <2>1. member \in Instances /\ inst[member] \in Object
      BY <1>1, <1>7 DEF TeardownLetGo, ClusterTypeOK, InventoryTypeOK
    <2>2. Stored
      <3>1. CASE UNCHANGED <<inst, held>>
        BY <1>1, <3>1, StillStored
      <3>2. CASE Put(member, Settle([inst[member] EXCEPT !.deleting = TRUE]))
        <4> DEFINE o == [inst[member] EXCEPT !.deleting = TRUE]
        <4>1. o \in Object /\ o.deleting
          BY <2>1, WriteFact
        <4> HIDE DEF o
        <4>2. Settle(o) \in Object /\ Settle(o).deleting
          BY <4>1, SettleFact
        <4>3. Put(member, Settle(o))
          BY <3>2 DEF o
        <4> QED BY <1>1, <2>1, <4>2, <4>3, PutStored
      <3>3. CASE Put(member, [inst[member] EXCEPT !.claimedBy = NoPool])
        BY <1>1, <2>1, <3>3, WriteFact, PutStored
      <3> QED BY <1>7, <3>1, <3>2, <3>3 DEF TeardownLetGo, UnregisterMember, ReleaseMember
    <2>3. failed' \in BOOLEAN
      <3>1. failed' = failed \/ failed' = TRUE \/ failed' = (failed \/ ~Exists(member))
        BY <1>7 DEF TeardownLetGo, UnregisterMember, ReleaseMember
      <3> QED BY <1>1, <3>1 DEF ClusterTypeOK
    <2>4. ClusterTypeOK' /\ stage' = "teardown"
      BY <1>1, <1>7, <2>3, ProceedFact DEF TeardownLetGo, Proceed
    <2>5. node' \in [Instances -> NodeStates]
      BY <1>1, <1>7 DEF TeardownLetGo, InventoryTypeOK
    <2> QED BY <1>1, <1>2, <1>3, <1>4, <2>2, <2>4, <2>5, ClusterKept
  <1> QED BY <1>5, <1>6, <1>7

\* A pass ends: with the finalizer, for another pass, or with the process.
LEMMA PassEndsStep ==
    ASSUME IInv, UNCHANGED resetVars, TeardownEnds \/ ClusterFails
    PROVE  IInv'
  <1>1. /\ TypeOK /\ InventoryTypeOK /\ MembersTypeOK /\ ClusterTypeOK /\ ClusterInv
        /\ inst' = inst /\ seen' = seen /\ node' = node /\ Drop(ClusterReader) /\ stage' = "idle"
        /\ unregister' = FALSE /\ UNCHANGED <<clusterSeen, clusterLate, late, leader, cpReady>>
    BY DEF IInv, TypeOK, TeardownEnds, ClusterFails, memberVars
  <1>2. Stored
    BY <1>1, StillStored DEF Drop
  <1>3. node' \in [Instances -> NodeStates] /\ edits' \in 0 .. MaxEdits
    <2>1. Edit \/ edits' = edits
      BY DEF TeardownEnds, ClusterFails
    <2> QED BY <1>1, <2>1, EditFact DEF InventoryTypeOK
  <1>4. cluster' = cluster \/ cluster' = "gone"
    BY DEF TeardownEnds, ClusterFails, memberVars
  <1>5. MembersTypeOK' /\ ClusterInv'
    BY <1>1, <1>4 DEF MembersTypeOK, ClusterInv
  <1>6. /\ \/ UNCHANGED <<members, member, failed>>
           \/ members' = NoMembers /\ member' = NoMember /\ failed' = FALSE
        /\ queued' = queued \/ queued' = TRUE
    BY DEF TeardownEnds, ClusterFails
  <1>7. ClusterTypeOK'
    BY <1>1, <1>6, NoMembersFact DEF ClusterTypeOK, Stages
  <1> QED BY <1>1, <1>2, <1>3, <1>5, <1>7, ClusterKept

\* The lease passes to another process, which starts with its own cache.
LEMMA FailoverStep ==
    ASSUME IInv, NEW p \in Procs, Failover(p), UNCHANGED resetVars
    PROVE  IInv'
  <1>1. /\ InventoryTypeOK /\ MembersTypeOK /\ ClusterTypeOK /\ ClusterInv /\ Edit
        /\ inst' = inst /\ seen' = seen /\ held' = held /\ node' = node /\ UNCHANGED memberVars
        /\ leader' = p /\ queued' = TRUE
        /\ UNCHANGED <<stage, members, member, failed, cpReady, unregister>>
    BY DEF IInv, TypeOK, Failover
  <1>2. node' \in [Instances -> NodeStates] /\ edits' \in 0 .. MaxEdits
    BY <1>1, EditFact DEF InventoryTypeOK
  <1>3. Stored
    BY <1>1, StillStored
  <1>4. MembersTypeOK' /\ ClusterTypeOK' /\ ClusterInv'
    BY <1>1 DEF MembersTypeOK, ClusterTypeOK, ClusterInv, memberVars
  <1> QED BY <1>1, <1>2, <1>3, <1>4, ClusterKept

-----------------------------------------------------------------------------
(***************************************************************************)
(* Users, watches and time.                                                *)
(***************************************************************************)

\* The watches bring the cache up to date.
LEMMA DeliverStep ==
    ASSUME IInv, (\E p \in Procs : DeliverCluster(p)) \/ \E i \in Instances : DeliverInstance(i)
    PROVE  IInv'
  <1>1. /\ TypeOK /\ InventoryTypeOK /\ MembersTypeOK /\ ResetTypeOK /\ ClusterTypeOK
        /\ MarkInv /\ IntentInv /\ ClusterInv
    BY DEF IInv, TypeOK
  <1>2. ASSUME NEW p \in Procs, DeliverCluster(p)
        PROVE  IInv'
    <2>1. InventoryTypeOK' /\ MarkInv'
      BY <1>1, <1>2 DEF DeliverCluster, inventoryVars, InventoryTypeOK, MarkInv
    <2>2. ResetTypeOK' /\ IntentInv'
      BY <1>1, <1>2 DEF DeliverCluster, inventoryVars, resetVars, ResetTypeOK, IntentInv
    <2>3. MembersTypeOK' /\ ClusterTypeOK'
      BY <1>1, <1>2 DEF DeliverCluster, MembersTypeOK, ClusterTypeOK
    <2>4. ClusterInv'
      BY <1>1, <1>2 DEF DeliverCluster, ClusterInv
    <2> QED BY <2>1, <2>2, <2>3, <2>4 DEF IInv, TypeOK
  <1>3. ASSUME NEW i \in Instances, DeliverInstance(i)
        PROVE  IInv'
    <2>1. /\ UNCHANGED <<inst, node, edits, memberVars, resetting, want, pool, clusterVars>>
          /\ seen' = [seen EXCEPT ![i] = inst[i]] /\ held' = held \cup {<<Informer, i>>}
          /\ resetQueue' = resetQueue \cup {i}
      BY <1>3 DEF DeliverInstance, Deliver
    <2>2. InventoryTypeOK' /\ MarkInv'
      BY <1>1, <2>1 DEF InventoryTypeOK, MarkInv
    <2>3. ResetTypeOK' /\ IntentInv'
      BY <1>1, <2>1 DEF ResetTypeOK, IntentInv
    <2>4. MembersTypeOK' /\ ClusterTypeOK' /\ ClusterInv'
      BY <1>1, <2>1 DEF MembersTypeOK, ClusterTypeOK, ClusterInv, memberVars, clusterVars
    <2> QED BY <2>2, <2>3, <2>4 DEF IInv, TypeOK
  <1> QED BY <1>2, <1>3

\* Users, pools and other controllers write to Instances, and unplug machines;
\* nobody takes a deletion back.
LEMMA UserWrites ==
    ASSUME InventoryTypeOK, UserStep
    PROVE  /\ Stored /\ seen' = seen
           /\ node' \in [Instances -> NodeStates] /\ edits' \in 0 .. MaxEdits
  <1>1. Edit /\ seen' = seen
    BY DEF UserStep, DeleteCluster, PoolReleases, Touch, Unplug, DeleteInstance, PoolClaims
  <1>2. edits' \in 0 .. MaxEdits
    BY <1>1, EditFact
  <1>3. CASE DeleteCluster
    BY <1>1, <1>2, <1>3, StillStored DEF DeleteCluster, InventoryTypeOK
  <1>4. ASSUME NEW i \in Instances, Unplug(i)
        PROVE  Stored /\ node' \in [Instances -> NodeStates]
    BY <1>4, StillStored DEF Unplug, InventoryTypeOK, NodeStates
  <1>5. ASSUME NEW i \in Instances,
               PoolReleases(i) \/ Touch(i) \/ DeleteInstance(i) \/ \E p \in Pools : PoolClaims(i, p)
        PROVE  Stored /\ node' \in [Instances -> NodeStates]
    <2>1. inst[i] \in Object
      BY DEF InventoryTypeOK
    <2>2. node' = node
      BY <1>5 DEF PoolReleases, Touch, DeleteInstance, PoolClaims
    <2> SUFFICES Stored
      BY <2>2 DEF InventoryTypeOK
    <2>3. CASE \E p \in Pools \cup {NoPool} : Put(i, [inst[i] EXCEPT !.claimedBy = p])
      BY <2>1, <2>3, WriteFact, PutStored
    <2>4. CASE Put(i, inst[i])
      BY <2>1, <2>4, PutStored
    <2>5. CASE Put(i, Settle([inst[i] EXCEPT !.deleting = TRUE]))
      <3> DEFINE o == [inst[i] EXCEPT !.deleting = TRUE]
      <3>1. o \in Object /\ o.deleting
        BY <2>1, WriteFact
      <3>2. Put(i, Settle(o))
        BY <2>5
      <3> HIDE DEF o
      <3>3. Settle(o) \in Object /\ Settle(o).deleting
        BY <3>1, SettleFact
      <3> QED BY <3>2, <3>3, PutStored
    <2> QED BY <1>5, <2>3, <2>4, <2>5 DEF PoolReleases, Touch, DeleteInstance, PoolClaims
  <1> QED BY <1>1, <1>2, <1>3, <1>4, <1>5 DEF UserStep

\* The cluster is deleted, or a timeout expires.
LEMMA UserClocks ==
    ASSUME MembersTypeOK, ClusterInv, UserStep \/ Timeout, UNCHANGED clusterVars
    PROVE  MembersTypeOK' /\ ClusterInv'
  <1>1. /\ clusterSeen' = clusterSeen
        /\ cluster' = cluster \/ cluster' = "deleting"
        /\ clusterLate' = clusterLate \/ clusterLate' = TRUE
        /\ late' = late \/ \E i \in Instances : late' = late \cup {i}
    BY DEF UserStep, Timeout, DeleteCluster, PoolReleases, Touch, Unplug, PoolClaims, memberVars,
           ResetTimeout, TeardownTimeout
  <1>2. MembersTypeOK'
    BY <1>1 DEF MembersTypeOK
  <1>3. ClusterInv'
    BY <1>1 DEF ClusterInv, clusterVars
  <1> QED BY <1>2, <1>3

\* What users do, and what happens by itself.
LEMMA OutsideStep ==
    ASSUME IInv, UserStep \/ Timeout, UNCHANGED <<resetVars, clusterVars>>
    PROVE  IInv'
  <1>1. InventoryTypeOK /\ MembersTypeOK /\ ClusterTypeOK /\ ClusterInv
    BY DEF IInv, TypeOK
  <1>2. MembersTypeOK' /\ ClusterInv' /\ ClusterTypeOK'
    BY <1>1, UserClocks DEF ClusterTypeOK, clusterVars
  <1>3. /\ Stored /\ seen' = seen
        /\ node' \in [Instances -> NodeStates] /\ edits' \in 0 .. MaxEdits
    <2>1. CASE UserStep
      BY <1>1, <2>1, UserWrites
    <2>2. CASE Timeout
      <3>1. UNCHANGED inventoryVars
        BY <2>2 DEF Timeout, TeardownTimeout, ResetTimeout
      <3> QED BY <1>1, <3>1, StillStored DEF inventoryVars, InventoryTypeOK
    <2> QED BY <2>1, <2>2
  <1> QED BY <1>2, <1>3, ClusterKept

-----------------------------------------------------------------------------
(***************************************************************************)
(* The invariant.                                                          *)
(***************************************************************************)

LEMMA InductiveInit == Init => IInv
  <1> SUFFICES ASSUME Init
               PROVE  IInv
    OBVIOUS
  <1>1. ASSUME NEW p \in Pools \cup {NoPool}
        PROVE  [Fresh EXCEPT !.discovered = TRUE, !.live = TRUE, !.claimedBy = p] \in Object
    BY DEF Fresh, Gone, Object
  <1>2. inst \in [Instances -> Object] /\ seen = inst
    <2> DEFINE Members == {Gone} \cup
            {[Fresh EXCEPT !.discovered = TRUE, !.live = TRUE, !.claimedBy = p] : p \in Pools \cup {NoPool}}
    <2>1. Members \subseteq Object
      BY <1>1, GoneFact
    <2>2. inst \in [Instances -> Members] /\ seen = inst
      BY DEF Init, MembersInit
    <2> HIDE DEF Members
    <2> QED BY <2>1, <2>2
  <1>3. held \subseteq (Readers \cup {Informer}) \X Instances
    BY DEF Init, MembersInit
  <1>4. node \in [Instances -> NodeStates] /\ edits \in 0 .. MaxEdits
    <2>1. /\ node = [i \in Instances |-> IF Exists(i) THEN "maintenance" ELSE "off"]
          /\ edits \in 0 .. MaxEdits
      BY DEF Init, MembersInit
    <2> QED BY <2>1 DEF NodeStates
  <1>5. InventoryTypeOK /\ MarkInv
    BY <1>2, <1>3, <1>4 DEF InventoryTypeOK, MarkInv
  <1>6. MembersTypeOK /\ ResetTypeOK /\ IntentInv
    BY DEF Init, MembersInit, ResetInit, MembersTypeOK, ResetTypeOK, Wants, IntentInv
  <1>7. ClusterTypeOK /\ ClusterInv
    BY NoMembersFact DEF Init, MembersInit, ClusterInit, ClusterTypeOK, Stages, ClusterInv
  <1> QED BY <1>5, <1>6, <1>7 DEF IInv, TypeOK

\* A step that changes nothing.
LEMMA StutterStep == ASSUME IInv, UNCHANGED vars PROVE IInv'
  <1>1. UNCHANGED <<inventoryVars, memberVars, resetVars, clusterVars>>
    BY DEF vars
  <1>2. InventoryTypeOK' /\ MembersTypeOK' /\ ResetTypeOK'
    BY <1>1 DEF IInv, TypeOK, InventoryTypeOK, MembersTypeOK, ResetTypeOK, inventoryVars, memberVars,
                resetVars
  <1>3. ClusterTypeOK'
    BY <1>1 DEF IInv, TypeOK, ClusterTypeOK, clusterVars
  <1>4. MarkInv' /\ IntentInv' /\ ClusterInv'
    BY <1>1 DEF IInv, MarkInv, IntentInv, ClusterInv, inventoryVars, memberVars, resetVars,
                clusterVars
  <1> QED BY <1>2, <1>3, <1>4 DEF IInv, TypeOK

\* Every step keeps the invariant, whoever takes it.
LEMMA InductiveNext == IInv /\ [Next]_vars => IInv'
  <1> SUFFICES ASSUME IInv, [Next]_vars
               PROVE  IInv'
    OBVIOUS
  <1>1. CASE /\ ResetStep \/ ResetFails \/ \E i \in Instances, p \in Procs : ResetFetch(i, p)
             /\ UNCHANGED clusterVars
    BY <1>1, ResetWriteStep, ResetMachineStep, ResetFailsStep, ResetFetchStep DEF ResetStep
  <1>2. CASE /\ ClusterStep \/ ClusterFails \/ \E p \in Procs : Failover(p)
             /\ UNCHANGED resetVars
    BY <1>2, ClusterFetchStep, ConfigureStep, TeardownStep, PassEndsStep, FailoverStep DEF ClusterStep
  <1>3. CASE (\E p \in Procs : DeliverCluster(p)) \/ \E i \in Instances : DeliverInstance(i)
    BY <1>3, DeliverStep
  <1>4. CASE (UserStep \/ Timeout) /\ UNCHANGED <<resetVars, clusterVars>>
    BY <1>4, OutsideStep
  <1>5. CASE UNCHANGED vars
    BY <1>5, StutterStep
  <1> QED BY <1>1, <1>2, <1>3, <1>4, <1>5 DEF Next

LEMMA Inductive == Spec => []IInv
BY InductiveInit, InductiveNext, PTL DEF Spec

\* Store, cache, copies and controllers are well typed at every moment.
THEOREM Typing == Spec => []TypeOK
  <1>1. IInv => TypeOK
    BY DEF IInv
  <1> QED BY <1>1, Inductive, PTL

-----------------------------------------------------------------------------
(***************************************************************************)
(* What becomes of the machines.                                           *)
(***************************************************************************)

\* Who changes what a machine runs: either controller wipes, the reconciler of
\* a live cluster configures, and users unplug.
LEMMA NodeSteps ==
    ASSUME IInv, Next, NEW i \in Instances, node'[i] # node[i]
    PROVE  \/ want = "reset" /\ resetting = i /\ node'[i] = "maintenance"
           \/ stage = "teardown" /\ node'[i] = "maintenance"
           \/ stage = "configure" /\ node'[i] = "configured"
           \/ node'[i] = "off"
  <1>0. node \in [Instances -> NodeStates]
    BY DEF IInv, TypeOK, InventoryTypeOK
  <1>1. CASE ResetMachine
    <2>1. want = "reset" /\ Wipe(resetting)
      BY <1>1 DEF ResetMachine
    <2> QED BY <1>0, <2>1 DEF Wipe
  <1>2. CASE TeardownReset
    <2>1. stage = "teardown" /\ Wipe(NextMember)
      BY <1>2 DEF TeardownReset
    <2> QED BY <1>0, <2>1 DEF Wipe
  <1>3. ASSUME NEW j \in Instances, Configure(j)
        PROVE  stage = "configure" /\ node'[i] = "configured"
    BY <1>0, <1>3 DEF Configure
  <1>4. CASE UserStep
    <2>1. PICK j \in Instances : Unplug(j)
      BY <1>4 DEF UserStep, DeleteCluster, PoolReleases, Touch, DeleteInstance, PoolClaims
    <2> QED BY <1>0, <2>1 DEF Unplug
  <1>5. ~(ResetWrite \/ ResetFails \/ \E j \in Instances, p \in Procs : ResetFetch(j, p))
    BY DEF ResetWrite, ResetFails, ResetFetch
  <1>6. ~(ClusterFetch \/ Configured \/ MarkConfigured \/ TeardownClear \/ TeardownLetGo \/ TeardownEnds
          \/ ClusterFails \/ \E p \in Procs : Failover(p))
    BY DEF ClusterFetch, Configured, MarkConfigured, TeardownClear, TeardownLetGo, TeardownEnds,
           ClusterFails, Failover
  <1>7. ~((\E p \in Procs : DeliverCluster(p)) \/ Timeout \/ \E j \in Instances : DeliverInstance(j))
    BY DEF DeliverCluster, DeliverInstance, Timeout, TeardownTimeout, ResetTimeout, inventoryVars
  <1> QED BY <1>1, <1>2, <1>3, <1>4, <1>5, <1>6, <1>7 DEF Next, ResetStep, ClusterStep

\* For any pools and Instances and however stale the copies that the reset
\* controller (instance_reset.go) and the teardown (teardown.go) decide on: a
\* machine is wiped only when its Instance or the cluster is deleted.
THEOREM WipedOnlyDeleted == Spec => NoSpuriousReset
  <1> DEFINE Good == \A i \in Instances :
                        node[i] = "configured" /\ node'[i] = "maintenance"
                          => inst[i].deleting \/ cluster # "live"
  <1>1. ASSUME IInv, [Next]_vars
        PROVE  [Good]_vars
    <2>1. ASSUME Next, NEW i \in Instances, node[i] = "configured", node'[i] = "maintenance"
          PROVE  inst[i].deleting \/ cluster # "live"
      <3>1. \/ want = "reset" /\ resetting = i
            \/ stage = "teardown"
        BY <1>1, <2>1, NodeSteps
      <3> QED BY <1>1, <3>1 DEF IInv, IntentInv, ClusterInv
    <2> QED BY <1>1, <2>1
  <1> QED BY <1>1, Inductive, PTL DEF Spec, NoSpuriousReset
=============================================================================
