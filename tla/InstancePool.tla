---------------------------- MODULE InstancePool ----------------------------
(***************************************************************************)
(* pkg/domain/instancepool/controller.go: an InstancePool claims Instances *)
(* up to spec.replicas, releases the excess and, when it is deleted,       *)
(* releases all of them before its finalizer goes.                         *)
(*                                                                         *)
(* The zone lease (see ZoneLease) is taken under the pool's own name, so   *)
(* at most one reconcile of a pool runs at a time, but different pools may *)
(* be reconciled by different processes at the same time.  All reads come  *)
(* from the informer caches of Instances and of InstancePools, which lag   *)
(* behind the store independently of each other.                           *)
(***************************************************************************)
EXTENDS Inventory, FiniteSets

CONSTANTS MaxReplicas  \* bound: largest spec.replicas a user asks for

ASSUME PoolAssumption ==
    /\ MaxReplicas \in Nat
    /\ Pools \subseteq Readers
    /\ IsFiniteSet(Instances)

VARIABLES
    pool,      \* the stored InstancePool objects
    poolSeen,  \* the informer's copy of each
    poolHeld,  \* <<r, p>>: the copy of p held by r (the informer, or p's own
               \* reconcile) has the stored resourceVersion
    queue,     \* pools with a reconcile request pending
    pc,        \* where the reconcile of each pool is
    copy,      \* the InstancePool as that reconcile read it
    claimed,   \* the claimed set it works with
    ready,     \* those of them that are Discovered in its copies
    todo       \* Instances it still has to release, or candidates to try

poolVars == <<pool, poolSeen, poolHeld, queue, pc, copy, claimed, ready, todo>>

PoolObject == [replicas      : 0..MaxReplicas,
               readyReplicas : Nat,
               reported      : {<<>>} \cup Nat \X Nat,  \* InsufficientCapacity
                   \* and Ready: "claimed n/m replicas", unset at first
               finalizer     : BOOLEAN,
               deleting      : BOOLEAN]

NoSuchPool == [replicas |-> 0, readyReplicas |-> 0, reported |-> <<>>,
               finalizer |-> FALSE, deleting |-> TRUE]

PoolExists(p) == pool[p] # NoSuchPool

PoolPCs == {"idle", "list", "release", "candidates", "claim"}

PoolTypeOK ==
    /\ pool \in [Pools -> PoolObject]
    /\ poolSeen \in [Pools -> PoolObject]
    /\ poolHeld \subseteq {Informer, "reconcile"} \X Pools
    /\ queue \subseteq Pools
    /\ pc \in [Pools -> PoolPCs]
    /\ copy \in [Pools -> PoolObject]
    /\ claimed \in [Pools -> SUBSET Instances]
    /\ ready \in [Pools -> SUBSET Instances]
    /\ todo \in [Pools -> SUBSET Instances]

PoolInit ==
    /\ pool \in [Pools -> {[NoSuchPool EXCEPT !.deleting = FALSE, !.replicas = n] :
                              n \in 1..MaxReplicas}]
    /\ poolSeen = pool
    /\ poolHeld = {Informer} \X Pools
    /\ queue = Pools
    /\ pc = [p \in Pools |-> "idle"]
    /\ copy = [p \in Pools |-> NoSuchPool]
    /\ claimed = [p \in Pools |-> {}]
    /\ ready = [p \in Pools |-> {}]
    /\ todo = [p \in Pools |-> {}]
-----------------------------------------------------------------------------
PutPool(p, obj) ==
    /\ pool' = [pool EXCEPT ![p] = obj]
    /\ poolHeld' = {h \in poolHeld : h[2] # p}

\* The Update of p's reconcile goes through.
PoolCurrent(p) == <<"reconcile", p>> \in poolHeld

DropPool(p) == poolHeld' = poolHeld \ {<<"reconcile", p>>}

Goto(p, l) == pc' = [pc EXCEPT ![p] = l]

\* Reconcile returns and its copies are garbage.  again: it returned an error
\* or a RequeueAfter.
Done(p, again) ==
    /\ Goto(p, "idle")
    /\ queue' = IF again THEN queue \cup {p} ELSE queue
    /\ copy' = [copy EXCEPT ![p] = NoSuchPool]
    /\ claimed' = [claimed EXCEPT ![p] = {}]
    /\ ready' = [ready EXCEPT ![p] = {}]
    /\ todo' = [todo EXCEPT ![p] = {}]
    /\ Drop(p)

\* Mutant: a deleting pool is left alone.
NothingToDoDeleting(obj) == obj.deleting

\* Nothing to reconcile: the pool is gone, or waits for other finalizers.
NothingToDo(obj) == obj = NoSuchPool \/ (obj.deleting /\ ~obj.finalizer)

\* fetchPool, and ensureFinalizer for a live pool: both work on the informer's
\* copy, and the answer to the Update brings the new resourceVersion back.  An
\* Update that is refused changes nothing and leaves the request queued.
Start(p) ==
    LET obj == poolSeen[p]
        current == <<Informer, p>> \in poolHeld
    IN  /\ pc[p] = "idle"
        /\ p \in queue
        /\ queue' = queue \ {p}
        /\ \/ /\ NothingToDo(obj)
              /\ UNCHANGED <<pool, poolHeld, pc, copy>>
           \/ /\ ~NothingToDo(obj)
              /\ copy' = [copy EXCEPT ![p] = [obj EXCEPT !.finalizer = TRUE]]
              /\ Goto(p, "list")
              /\ \/ /\ obj.finalizer
                    /\ poolHeld' = IF current THEN poolHeld \cup {<<"reconcile", p>>}
                                              ELSE poolHeld
                    /\ UNCHANGED pool
                 \/ /\ ~obj.finalizer /\ current
                    /\ pool' = [pool EXCEPT ![p].finalizer = TRUE]
                    /\ poolHeld' = {h \in poolHeld : h[2] # p} \cup {<<"reconcile", p>>}
        /\ UNCHANGED <<poolSeen, claimed, ready, todo, inventoryVars>>

\* What release keeps and what a live pool wants; a teardown keeps nothing.
Target(p) == IF copy[p].deleting THEN 0 ELSE copy[p].replicas

SeenClaimed(p) == {i \in Instances : seen[i].claimedBy = p}

\* The n Instances of S that come first by name.
FirstByName(S, n) == {i \in S : Cardinality({j \in S : j < i}) < n}

\* listClaimed, and where Reconcile or reconcileTeardown goes from there.
ListClaimed(p) ==
    LET S == SeenClaimed(p)
        Keep == FirstByName(S, Target(p))
    IN  /\ pc[p] = "list"
        /\ copy[p].deleting => S # {}
        /\ claimed' = [claimed EXCEPT ![p] = Keep]
        /\ ready' = [ready EXCEPT ![p] = {i \in S : seen[i].discovered}]
        /\ todo' = [todo EXCEPT ![p] = S \ Keep]
        /\ Read(p, S)
        /\ Goto(p, IF S # Keep THEN "release"
                   ELSE IF Cardinality(S) < Target(p) THEN "candidates"
                   ELSE "claim")
        /\ UNCHANGED <<pool, poolSeen, poolHeld, queue, copy, inst, seen, node, edits>>

\* The Instance without its LabelClaimedBy.
Unclaim(obj) == [obj EXCEPT !.claimedBy = NoPool]

First(S) == CHOOSE i \in S : \A j \in S : i <= j

\* release, one Instance.  On a conflict it stays in the claimed set.
Release(p) ==
    LET i == First(todo[p])
    IN  /\ pc[p] = "release"
        /\ todo[p] # {}
        /\ \/ /\ Current(p, i)
              /\ Put(i, Unclaim(inst[i]))
              /\ UNCHANGED claimed
           \/ /\ Exists(i) /\ ~Current(p, i)
              /\ claimed' = [claimed EXCEPT ![p] = @ \cup {i}]
              /\ UNCHANGED <<inst, held>>
        /\ todo' = [todo EXCEPT ![p] = @ \ {i}]
        /\ UNCHANGED <<pool, poolSeen, poolHeld, queue, pc, copy, ready, seen, node, edits>>

\* The end of release in a teardown: it comes back to list again.
Released(p) ==
    /\ pc[p] = "release"
    /\ todo[p] = {}
    /\ copy[p].deleting
    /\ Done(p, TRUE)
    /\ DropPool(p)
    /\ UNCHANGED <<pool, poolSeen, inst, seen, node, edits>>

\* reconcileTeardown finds nothing claimed and removes the finalizer.
RemoveFinalizer(p) ==
    /\ pc[p] = "list"
    /\ copy[p].deleting /\ SeenClaimed(p) = {}
    /\ PoolCurrent(p)
    /\ PutPool(p, NoSuchPool)
    /\ Done(p, FALSE)
    /\ UNCHANGED <<poolSeen, inst, seen, node, edits>>

\* Mutant: optimistic claiming, discovery is expected to catch up.
ClaimableOptimistic(obj) == obj # Gone /\ obj.claimedBy = NoPool

\* claimableCandidates: unclaimed, Discovered and Live.
Claimable(obj) == obj # Gone /\ obj.claimedBy = NoPool /\ obj.discovered /\ obj.live

\* claim lists the candidates.
ListCandidates(p) ==
    /\ pc[p] = "candidates"
    /\ todo' = [todo EXCEPT ![p] = {i \in Instances : Claimable(seen[i])}]
    /\ Goto(p, "claim")
    /\ UNCHANGED <<pool, poolSeen, poolHeld, queue, copy, claimed, ready, inventoryVars>>

\* Nothing left to release or to claim.
Settled(p) ==
    \/ pc[p] = "release" /\ todo[p] = {} /\ ~copy[p].deleting
    \/ pc[p] = "claim" /\ (todo[p] = {} \/ Cardinality(claimed[p]) >= Target(p))

\* Mutant: the label is not looked at again.
StillClaimableUnchecked(obj) == obj # Gone

\* tryClaim looks at the candidate again and goes ahead unless somebody has
\* claimed it by now.  Only the claim is looked at.
StillClaimable(obj) == obj # Gone /\ obj.claimedBy = NoPool

\* tryClaim, one candidate: the Get is served by the cache, and the Update
\* goes through if that copy was current.
TryClaim(p) ==
    LET i == First(todo[p])
    IN  /\ pc[p] = "claim"
        /\ ~Settled(p)
        /\ \/ /\ StillClaimable(seen[i]) /\ Current(Informer, i)
              /\ Put(i, [inst[i] EXCEPT !.claimedBy = p])
              /\ claimed' = [claimed EXCEPT ![p] = @ \cup {i}]
              /\ ready' = [ready EXCEPT ![p] = IF seen[i].discovered THEN @ \cup {i} ELSE @]
           \/ /\ StillClaimable(seen[i]) => ~Current(Informer, i) /\ Exists(i)
              /\ UNCHANGED <<inst, held, claimed, ready>>
        /\ todo' = [todo EXCEPT ![p] = @ \ {i}]
        /\ UNCHANGED <<pool, poolSeen, poolHeld, queue, pc, copy, seen, node, edits>>

Insufficient(p) == Cardinality(claimed[p]) < Target(p)

\* The pool as updateStatus leaves it.
WithStatus(p) ==
    [copy[p] EXCEPT !.readyReplicas = Cardinality(ready[p] \cap claimed[p]),
                    !.reported = <<Cardinality(claimed[p]), copy[p].replicas>>]

\* updateStatus: written only when it changes what the copy says.
UpdateStatus(p) ==
    /\ Settled(p)
    /\ \/ WithStatus(p) = copy[p] /\ DropPool(p) /\ UNCHANGED pool
       \/ WithStatus(p) # copy[p] /\ PoolCurrent(p) /\ PutPool(p, WithStatus(p))
    /\ Done(p, Insufficient(p))
    /\ UNCHANGED <<poolSeen, inst, seen, node, edits>>

\* The reconcile returns an error: a conflict on the pool object, or an
\* Instance that is gone from the store while the cache still has it.
Refused(p) ==
    /\ \/ pc[p] = "list" /\ copy[p].deleting /\ SeenClaimed(p) = {} /\ ~PoolCurrent(p)
       \/ pc[p] = "release" /\ todo[p] # {} /\ ~Exists(First(todo[p]))
       \/ /\ pc[p] = "claim" /\ ~Settled(p)
          /\ StillClaimable(seen[First(todo[p])]) /\ ~Exists(First(todo[p]))
       \/ Settled(p) /\ WithStatus(p) # copy[p] /\ ~PoolCurrent(p)
    /\ Done(p, TRUE)
    /\ DropPool(p)
    /\ UNCHANGED <<pool, poolSeen, inst, seen, node, edits>>

\* A request fails for no reason of its own, or the process dies.
Fail(p) ==
    /\ Edit
    /\ pc[p] # "idle"
    /\ Done(p, TRUE)
    /\ DropPool(p)
    /\ UNCHANGED <<pool, poolSeen, inst, seen, node>>

-----------------------------------------------------------------------------
\* Mutant: Instance events wake no pool.
DeliverInstanceSilently(i) ==
    /\ Deliver(i)
    /\ UNCHANGED <<inst, node, edits, poolVars>>

\* The watch on Instances wakes every pool the cache knows (enqueueAllPools).
DeliverInstance(i) ==
    /\ Deliver(i)
    /\ queue' = queue \cup {p \in Pools : poolSeen[p] # NoSuchPool}
    /\ UNCHANGED <<inst, node, edits, pool, poolSeen, poolHeld, pc, copy, claimed, ready, todo>>

DeliverPool(p) ==
    /\ <<Informer, p>> \notin poolHeld
    /\ poolSeen' = [poolSeen EXCEPT ![p] = pool[p]]
    /\ poolHeld' = poolHeld \cup {<<Informer, p>>}
    /\ queue' = queue \cup {p}
    /\ UNCHANGED <<pool, pc, copy, claimed, ready, todo, inventoryVars>>

\* kubectl scale and kubectl delete.
Scale(p, n) ==
    /\ Edit
    /\ PoolExists(p)
    /\ n # pool[p].replicas
    /\ PutPool(p, [pool[p] EXCEPT !.replicas = n])
    /\ UNCHANGED <<poolSeen, queue, pc, copy, claimed, ready, todo, inst, seen, held, node>>

DeletePool(p) ==
    /\ Edit
    /\ PoolExists(p) /\ ~pool[p].deleting
    /\ PutPool(p, IF pool[p].finalizer THEN [pool[p] EXCEPT !.deleting = TRUE]
                                       ELSE NoSuchPool)
    /\ UNCHANGED <<poolSeen, queue, pc, copy, claimed, ready, todo, inst, seen, held, node>>

PoolStep(p) ==
    \/ Start(p) \/ ListClaimed(p) \/ Release(p) \/ Released(p) \/ RemoveFinalizer(p)
    \/ ListCandidates(p) \/ TryClaim(p) \/ UpdateStatus(p) \/ Refused(p)
=============================================================================
