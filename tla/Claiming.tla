------------------------------ MODULE Claiming ------------------------------
(***************************************************************************)
(* Discovery and pools together: two controllers and the users that race   *)
(* on the same Instance objects.                                           *)
(***************************************************************************)
EXTENDS InstancePool, InstanceDiscovery

VARIABLE reborn  \* Instances created again under a name that the cache or a
                 \* pool's list of candidates still showed (history only)

vars == <<inventoryVars, discoveryVars, poolVars, reborn>>

TypeOK == InventoryTypeOK /\ DiscoveryTypeOK /\ PoolTypeOK /\ reborn \subseteq Instances

Init == InventoryInit /\ DiscoveryInit /\ PoolInit /\ reborn = {}

\* Somebody still works with an object of this name that is gone by now.
StillShown(i) == seen[i] # Gone \/ \E p \in Pools : pc[p] = "claim" /\ i \in todo[p]

\* kubectl apply again.  A name is a digest of the spec (instance/hash.go), so
\* the same machine comes back under the same name.
Recreate(i) ==
    /\ CreateInstance(i)
    /\ reborn' = IF StillShown(i) THEN reborn \cup {i} ELSE reborn \ {i}

UserStep ==
    \/ \E i \in Instances :
          /\ \/ (DeleteInstance(i) \/ Power(i)) /\ UNCHANGED reborn
             \/ Recreate(i)
          /\ UNCHANGED poolVars
    \/ /\ \E p \in Pools : DeletePool(p) \/ \E n \in 0..MaxReplicas : Scale(p, n)
       /\ UNCHANGED reborn

Next ==
    \/ DiscoveryNext /\ UNCHANGED <<poolVars, reborn>>
    \/ /\ \/ /\ \/ \E p \in Pools : PoolStep(p) \/ Fail(p) \/ DeliverPool(p)
                \/ \E i \in Instances : DeliverInstance(i)
             /\ UNCHANGED reborn
          \/ UserStep
       /\ UNCHANGED discoveryVars

Spec == Init /\ [][Next]_vars
-----------------------------------------------------------------------------
\* Requests are answered, the watches deliver, the queued reconciles run and
\* unclaimed Instances keep being probed (RetryInterval, RecheckInterval).
Fairness ==
    /\ \A p \in Pools :
          /\ WF_vars(PoolStep(p) /\ UNCHANGED <<discoveryVars, reborn>>)
          /\ WF_vars(DeliverPool(p) /\ UNCHANGED <<discoveryVars, reborn>>)
    /\ \A i \in Instances :
          /\ WF_vars(DeliverInstance(i) /\ UNCHANGED <<discoveryVars, reborn>>)
          /\ SF_vars(Probe(i) /\ UNCHANGED <<poolVars, reborn>>)
    /\ WF_vars((RecordProbeResult \/ ProbeNotRecorded) /\ UNCHANGED <<poolVars, reborn>>)

FairSpec == Spec /\ Fairness
-----------------------------------------------------------------------------
\* A claim is only ever given up by its owner: no pool overwrites the label of
\* another one, however stale the copies it works from (tryClaim's CAS).
ClaimNeverStolen ==
    [][\A i \in Instances :
          inst[i].claimedBy # NoPool
            => inst'[i].claimedBy \in {inst[i].claimedBy, NoPool}]_vars

\* A claimed Instance was Discovered: claiming one before that would leave it
\* undiscovered for good, because discovery does not touch claimed ones.  The
\* comment of claim says that listing only Discovered ones closes that race
\* (instancepool/controller.go:356-363); it does not, because tryClaim looks
\* at the label alone and the name may have a new object by then.
ClaimedIsDiscovered ==
    \A i \in Instances : inst[i].claimedBy # NoPool => inst[i].discovered

\* What does hold, however the caches lag and the pools race: an undiscovered
\* Instance is claimed only if it took the name of one that the cache or a list
\* of candidates still showed when it was created.
UndiscoveredIsReborn ==
    \A i \in Instances :
        inst[i].claimedBy # NoPool /\ ~inst[i].discovered => i \in reborn

\* A probe that was under way when its Instance was claimed does not flip the
\* Live condition of the claimed Instance (which would read as an outage).
ClaimedNotProbed ==
    [][\A i \in Instances :
          inst[i].claimedBy # NoPool /\ inst'[i].claimedBy = inst[i].claimedBy
            => inst'[i].live = inst[i].live]_vars

Claimed(p) == {i \in Instances : inst[i].claimedBy = p}

\* A pool in use ends up with the replicas it asks for, or with all there
\* are, and says so in its status, although no reconcile is scheduled except
\* by watch events and by RequeueAfter: no stale read, conflict or error is the
\* last word.
EventuallySized ==
    \A p \in Pools : <>[](PoolExists(p) /\ ~pool[p].deleting =>
        /\ Cardinality(Claimed(p)) <= pool[p].replicas
        /\ Cardinality(Claimed(p)) < pool[p].replicas
              => ~\E i \in Instances : Claimable(inst[i])
        /\ pool[p].readyReplicas = Cardinality({i \in Claimed(p) : inst[i].discovered}))

\* Deleting a pool always completes.
PoolTeardownEnds == \A p \in Pools : []<>~(PoolExists(p) /\ pool[p].deleting)
=============================================================================
