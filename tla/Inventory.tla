----------------------------- MODULE Inventory -----------------------------
(***************************************************************************)
(* The Instance objects of api/v1alpha2/instance_types.go as the apiserver *)
(* stores them, the informer cache every controller of a process reads     *)
(* them through (client.Client of a controller-runtime manager), and the   *)
(* machines behind them.                                                   *)
(*                                                                         *)
(* A controller works on copies.  A copy's content is irrelevant once it   *)
(* is older than the stored object, because every Update carries the       *)
(* resourceVersion of the copy and is refused; so a copy is represented by *)
(* one bit, held: whether it still has the stored resourceVersion.         *)
(***************************************************************************)
EXTENDS Integers

CONSTANTS
    Instances,    \* names of Instance objects, ordered like their names
    Pools,        \* names of InstancePools
    NoPool,       \* no LabelClaimedBy label
    Readers,      \* controllers that keep copies of Instances across steps
    Informer,     \* the cache itself, one more holder of copies
    MaxEdits      \* bound: user edits, power changes and failed requests

ASSUME InventoryAssumption ==
    /\ Instances \subseteq Nat
    /\ NoPool \notin Pools
    /\ Informer \notin Readers
    /\ MaxEdits \in Nat

VARIABLES
    inst,   \* the stored Instance objects
    seen,   \* the informer's copy of each
    held,   \* <<r, i>>: r's copy of i has the stored resourceVersion
    node,   \* what the machine behind each Instance runs
    edits   \* bound: how many of them there were

inventoryVars == <<inst, seen, held, node, edits>>

Object == [claimedBy  : Pools \cup {NoPool},  \* LabelClaimedBy
           discovered : BOOLEAN,              \* DiscoveredConditionType
           live       : BOOLEAN,              \* LiveConditionType
           configured : BOOLEAN,              \* ConfiguredConditionType
           finalizer  : BOOLEAN,              \* InstanceResetFinalizer
           deleting   : BOOLEAN]              \* deletionTimestamp is set

\* No such object: a Get answers NotFound, a List leaves it out.
Gone == [claimedBy |-> NoPool, discovered |-> FALSE, live |-> FALSE,
         configured |-> FALSE, finalizer |-> FALSE, deleting |-> TRUE]

\* An Instance as kubectl apply (or zone add) creates it.
Fresh == [Gone EXCEPT !.deleting = FALSE]

Exists(i) == inst[i] # Gone

\* "maintenance": booted into Talos maintenance mode, no machine config.
\* "configured": runs a machine config.  "off": does not answer.
NodeStates == {"maintenance", "configured", "off"}

InventoryTypeOK ==
    /\ inst \in [Instances -> Object]
    /\ seen \in [Instances -> Object]
    /\ held \subseteq (Readers \cup {Informer}) \X Instances
    /\ node \in [Instances -> NodeStates]
    /\ edits \in 0..MaxEdits

InventoryInit ==
    /\ inst = [i \in Instances |-> Fresh]
    /\ seen = inst
    /\ held = {Informer} \X Instances
    /\ node \in [Instances -> {"maintenance", "off"}]
    /\ edits = 0
-----------------------------------------------------------------------------
\* A write replaces the stored object; every copy of it is old from then on.
Put(i, obj) ==
    /\ inst' = [inst EXCEPT ![i] = obj]
    /\ held' = {h \in held : h[2] # i}

\* Removing the last finalizer of a deleting object removes the object.
Settle(obj) == IF obj.deleting /\ ~obj.finalizer THEN Gone ELSE obj

\* The copies of the Instances in S, taken from the cache by reader r, are as
\* current as the cache is.  Whatever else r held before is dropped.
Read(r, S) ==
    held' = {h \in held : h[1] # r}
              \cup {<<r, i>> : i \in {j \in S : <<Informer, j>> \in held}}

Drop(r) == held' = {h \in held : h[1] # r}

\* r's Update of i goes through: nobody wrote i since r's copy was read.
Current(r, i) == <<r, i>> \in held

\* The watch delivers the stored object to the cache.
Deliver(i) ==
    /\ <<Informer, i>> \notin held
    /\ seen' = [seen EXCEPT ![i] = inst[i]]
    /\ held' = held \cup {<<Informer, i>>}

Edit == edits < MaxEdits /\ edits' = edits + 1

\* kubectl delete instance.
DeleteInstance(i) ==
    /\ Edit
    /\ Exists(i) /\ ~inst[i].deleting
    /\ Put(i, Settle([inst[i] EXCEPT !.deleting = TRUE]))
    /\ UNCHANGED <<seen, node>>

\* kubectl apply of an Instance that was deleted before.
CreateInstance(i) ==
    /\ ~Exists(i)
    /\ Put(i, Fresh)
    /\ UNCHANGED <<seen, node, edits>>

\* The machine is unplugged, or plugged in again in maintenance mode.
Power(i) ==
    /\ Edit
    /\ node[i] # "configured"
    /\ node' = [node EXCEPT ![i] = IF @ = "off" THEN "maintenance" ELSE "off"]
    /\ UNCHANGED <<inst, seen, held>>
=============================================================================
