--------------------------- MODULE InstanceReset ---------------------------
(***************************************************************************)
(* pkg/domain/taloscluster/instance_reset.go: the controller that holds a  *)
(* deleted Instance back until its machine is wiped.  It is not gated by   *)
(* the zone lease: any process may run a reconcile, one at a time here.    *)
(***************************************************************************)
EXTENDS ClusterMembers

CONSTANTS Resetter,   \* the controller, as a reader of Instances
          NoInstance  \* the worker is idle

ASSUME ResetAssumption == Resetter \in Readers

VARIABLES
    resetQueue,  \* Instances with a reconcile request pending
    resetting,   \* the Instance being reconciled
    want,        \* what the reconcile set out to do
    pool         \* the pool its copy says it belongs to

resetVars == <<resetQueue, resetting, want, pool>>

Wants == {"nothing", "finalizer", "clear", "reset", "remove"}

ResetTypeOK ==
    /\ resetQueue \subseteq Instances
    /\ resetting \in Instances \cup {NoInstance}
    /\ want \in Wants
    /\ pool \in Pools \cup {NoPool}

ResetInit ==
    /\ resetQueue = {i \in Instances : Exists(i)}
    /\ resetting = NoInstance
    /\ want = "nothing"
    /\ pool = NoPool
-----------------------------------------------------------------------------
\* findOwningCluster, in the cache of process p.
Owned(obj, p) == IsClaimed(obj) /\ clusterSeen[p] # "gone"

\* Mutant: any configured member that carries the finalizer is wiped.
WantsResetAlways(obj, p) == Owned(obj, p) /\ obj.finalizer /\ obj.configured

\* A deleted member that was configured is wiped.
WantsReset(obj, p) == Owned(obj, p) /\ obj.deleting /\ obj.finalizer /\ obj.configured

\* A deleted Instance with nothing to wipe is let go.
WantsRemoval(obj, p) == obj.deleting /\ obj.finalizer /\ ~WantsReset(obj, p)

WantsFinalizer(obj, p) == Owned(obj, p) /\ ~obj.deleting /\ ~obj.finalizer

\* reconcileUnclaimed of an Instance that stays.
WantsClear(obj) == ~IsClaimed(obj) /\ ~obj.deleting /\ obj.configured

Intent(obj, p) ==
    CASE WantsReset(obj, p)     -> "reset"
      [] WantsRemoval(obj, p)   -> "remove"
      [] WantsFinalizer(obj, p) -> "finalizer"
      [] WantsClear(obj)        -> "clear"
      [] OTHER                  -> "nothing"

\* Reconcile in process p reads the Instance and the clusters from the cache.
ResetFetch(i, p) ==
    /\ resetting = NoInstance
    /\ i \in resetQueue
    /\ resetQueue' = resetQueue \ {i}
    /\ \/ Intent(seen[i], p) = "nothing" /\ UNCHANGED <<resetting, want, pool, held>>
       \/ /\ Intent(seen[i], p) # "nothing"
          /\ resetting' = i
          /\ want' = Intent(seen[i], p)
          /\ pool' = seen[i].claimedBy
          /\ Read(Resetter, {i})
    /\ UNCHANGED <<inst, seen, node, edits, memberVars>>

ResetDone(again) ==
    /\ resetting' = NoInstance
    /\ want' = "nothing"
    /\ pool' = NoPool
    /\ resetQueue' = IF again THEN resetQueue \cup {resetting} ELSE resetQueue

\* The Instance as the Update that ends the reconcile leaves it.
Wanted(obj) ==
    CASE want = "finalizer" -> [obj EXCEPT !.finalizer = TRUE]
      [] want = "clear"     -> [obj EXCEPT !.configured = FALSE]
      [] want = "remove"    -> Settle([obj EXCEPT !.finalizer = FALSE])

\* AddFinalizer, removeFinalizer and clearMemberConditions: an Update that is
\* refused is an error, except that clearMemberConditions only logs it.
ResetWrite ==
    /\ want \in {"finalizer", "clear", "remove"}
    /\ \/ /\ Current(Resetter, resetting)
          /\ Put(resetting, Wanted(inst[resetting]))
          /\ ResetDone(FALSE)
       \/ /\ ~Current(Resetter, resetting)
          /\ ResetDone(want # "clear")
          /\ UNCHANGED <<inst, held>>
    /\ UNCHANGED <<seen, node, edits, memberVars>>

\* Mutant: a failed reset is retried without end.
GivesUpNever == FALSE

GivesUp == resetting \in late

\* reconcileTeardown: the Reset RPC; when it fails, the end of patience with
\* it or the next attempt.
ResetMachine ==
    LET E == Endpoints(resetting, pool)
        Reached == {e \in E : ResetReaches(resetting, e)}
    IN  /\ want = "reset"
        /\ \/ /\ Reached # {}
              /\ Wipe(resetting)
              /\ want' = "remove"
              /\ UNCHANGED <<resetting, resetQueue, pool, held, edits>>
           \/ /\ \/ (Reached # E \/ E = {}) /\ UNCHANGED <<node, edits>>
                 \/ Reached # {} /\ Edit /\ Wipe(resetting)  \* the answer is lost
              /\ \/ /\ GivesUp
                    /\ want' = "remove"
                    /\ UNCHANGED <<resetting, resetQueue, pool, held>>
                 \/ ~GivesUp /\ ResetDone(TRUE) /\ Drop(Resetter)
        /\ UNCHANGED <<inst, seen, memberVars>>

\* A request fails or the process dies; the cache is listed again.
ResetFails ==
    /\ Edit
    /\ resetting # NoInstance
    /\ ResetDone(want # "clear")
    /\ Drop(Resetter)
    /\ UNCHANGED <<inst, seen, node, memberVars>>

ResetStep == ResetWrite \/ ResetMachine
=============================================================================
