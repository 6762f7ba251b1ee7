----------------------------- MODULE ZoneLease -----------------------------
(***************************************************************************)
(* The per-zone lease of pkg/domain/zonelease/locker.go.  Every            *)
(* kontinuum-server process (hub replicas and the servers of joined zones) *)
(* runs the same controllers against one shared storage; each controller   *)
(* calls Locker.TryAcquire before it mutates the objects of a zone.        *)
(*                                                                         *)
(* TryAcquire is three moments that other processes can interleave with:   *)
(* the uncached Get of the Lease, the decision (create, renew, take over,  *)
(* or give up) together with the timestamp it writes, and the arrival of   *)
(* the conditional Create/Update at the apiserver.  A caller that gets     *)
(* TRUE then reconciles for a while without renewing.                      *)
(***************************************************************************)
EXTENDS Integers

CONSTANTS
    Procs,          \* holder identities (Locker.HolderIdentity)
    Threads,        \* controllers, one goroutine each
    ProcOf,         \* the process a controller runs in
    Keys,           \* zone keys, GlobalKey among them
    GlobalKey,      \* zonelease.GlobalKey; also the SelfZoneKey of a hub
    SelfZoneKey,    \* Locker.SelfZoneKey of every process
    NoProc,         \* holder of a Lease that does not exist yet
    LeaseDuration,  \* Locker.LeaseDuration, in clock ticks
    Skew,           \* offset of each process's clock from real time
    MaxTime,        \* bound: last tick of the clock
    CrashTime       \* bound: no process crashes after this tick

ASSUME ConstantsAssumption ==
    /\ ProcOf \in [Threads -> Procs]
    /\ GlobalKey \in Keys
    /\ NoProc \notin Procs
    /\ LeaseDuration \in Nat
    /\ Skew \in [Procs -> Int]
    /\ MaxTime \in Nat
    /\ CrashTime \in Nat

VARIABLES
    now,    \* real time
    alive,  \* processes that are running
    lease,  \* the Lease object of each key; NotFound until it is created
    pc,     \* where each controller is in TryAcquire or its reconcile
    key,    \* the zone key a controller is working on
    snap,   \* the Lease as that controller's Get returned it
    fresh,  \* controllers whose snap carries the stored resourceVersion
    stamp   \* real time at which it read its clock for the write

vars == <<now, alive, lease, pc, key, snap, fresh, stamp>>

Lease == [holder : Procs \cup {NoProc}, renewTime : Int]

\* A Lease that was never created: the Get answers NotFound.
NotFound == [holder |-> NoProc, renewTime |-> 0]

\* "orphaned": the process died with the write in flight.
PCs == {"idle", "got", "writing", "orphaned", "reconciling"}

\* The conditional write may still reach the apiserver.
InFlight == {"writing", "orphaned"}

TypeOK ==
    /\ now \in Nat
    /\ alive \subseteq Procs
    /\ lease \in [Keys -> Lease]
    /\ pc \in [Threads -> PCs]
    /\ key \in [Threads -> Keys]
    /\ snap \in [Threads -> Lease]
    /\ fresh \subseteq Threads
    /\ stamp \in [Threads -> Nat]

Init ==
    /\ now = 0
    /\ alive = Procs
    /\ lease = [k \in Keys |-> NotFound]
    /\ pc = [t \in Threads |-> "idle"]
    /\ key = [t \in Threads |-> GlobalKey]
    /\ snap = [t \in Threads |-> NotFound]
    /\ fresh = {}
    /\ stamp = [t \in Threads |-> 0]
-----------------------------------------------------------------------------
\* A zone's own server is refused its own key and the global one outright.
MayAcquire(p, k) ==
    SelfZoneKey[p] # GlobalKey => k # GlobalKey /\ k # SelfZoneKey[p]

\* What a process's own clock shows.
Clock(p) == now + Skew[p]

\* Mutant: a lease exactly as old as its duration counts as expired.
ExpiredEarly(p, l) == Clock(p) - l.renewTime >= LeaseDuration

\* expired(): the holder has not renewed for longer than the duration, by the
\* clock of the process that asks.
Expired(p, l) == Clock(p) - l.renewTime > LeaseDuration

\* The uncached Get at the top of TryAcquire.
Get(t, k) ==
    /\ pc[t] = "idle"
    /\ ProcOf[t] \in alive
    /\ MayAcquire(ProcOf[t], k)
    /\ pc' = [pc EXCEPT ![t] = "got"]
    /\ key' = [key EXCEPT ![t] = k]
    /\ snap' = [snap EXCEPT ![t] = lease[k]]
    /\ fresh' = fresh \cup {t}
    /\ UNCHANGED <<now, alive, lease, stamp>>

\* Mutant: an expired Lease is never taken over.
MayWriteNoTakeover(p, l) == l = NotFound \/ l.holder = p

\* What TryAcquire may write given the Lease it read: create a missing one,
\* renew its own, take over one whose holder went silent.
MayWrite(p, l) ==
    \/ l = NotFound
    \/ l.holder = p
    \/ Expired(p, l)

\* TryAcquire decides, and reads its clock for the renewTime it will write.
Decide(t) ==
    /\ pc[t] = "got"
    /\ MayWrite(ProcOf[t], snap[t])
    /\ pc' = [pc EXCEPT ![t] = "writing"]
    /\ stamp' = [stamp EXCEPT ![t] = now]
    /\ UNCHANGED <<now, alive, lease, key, snap, fresh>>

\* The call is over and its local variables are gone.
Return(t) ==
    /\ pc' = [pc EXCEPT ![t] = "idle"]
    /\ key' = [key EXCEPT ![t] = GlobalKey]
    /\ snap' = [snap EXCEPT ![t] = NotFound]
    /\ stamp' = [stamp EXCEPT ![t] = 0]

\* Somebody else holds an unexpired Lease: (false, nil).
Refused(t) ==
    /\ pc[t] = "got"
    /\ ~MayWrite(ProcOf[t], snap[t])
    /\ Return(t)
    /\ fresh' = fresh \ {t}
    /\ UNCHANGED <<now, alive, lease>>

\* Mutant: the Update carries no resourceVersion.
WriteMatchesAny(t) == TRUE

\* The apiserver applies the write only to the version that was read: Create
\* needs the Lease still absent, Update its resourceVersion unchanged.
WriteMatches(t) == t \in fresh

\* The write lands: from here on every other snapshot of this Lease is stale.
WriteLease(t) ==
    /\ WriteMatches(t)
    /\ lease' = [lease EXCEPT ![key[t]] =
                    [holder    |-> ProcOf[t],
                     renewTime |-> stamp[t] + Skew[ProcOf[t]]]]
    /\ fresh' = {u \in fresh : key[u] # key[t]}

\* Its answer reaches the caller: TryAcquire returns TRUE and the controller
\* starts to reconcile.
Acquired(t) ==
    /\ pc[t] = "writing"
    /\ WriteLease(t)
    /\ pc' = [pc EXCEPT ![t] = "reconciling"]
    /\ snap' = [snap EXCEPT ![t] = NotFound]
    /\ UNCHANGED <<now, alive, key, stamp>>

\* The write lands but nobody learns of it: the answer was lost (an error to
\* the caller), or the process is gone.
AnswerLost(t) ==
    /\ pc[t] \in InFlight
    /\ WriteLease(t)
    /\ Return(t)
    /\ UNCHANGED <<now, alive>>

\* Mutant: a conflict is taken for a success.
ConflictAcquires(t) ==
    /\ pc[t] \in InFlight
    /\ pc' = [pc EXCEPT ![t] = "reconciling"]
    /\ fresh' = fresh \ {t}
    /\ UNCHANGED <<now, alive, lease, key, snap, stamp>>

\* Conflict, AlreadyExists, or a request that failed: not this round.
NotAcquired(t) ==
    /\ pc[t] \in InFlight
    /\ Return(t)
    /\ fresh' = fresh \ {t}
    /\ UNCHANGED <<now, alive, lease>>

\* Mutant: the Lease is released by blanking its holderIdentity.
FinishBlanksHolder(t) ==
    /\ pc[t] = "reconciling"
    /\ Return(t)
    /\ lease' = [lease EXCEPT ![key[t]].holder = ""]
    /\ UNCHANGED <<now, alive, fresh>>

\* The reconcile returns.  The Lease is not released.
Finish(t) ==
    /\ pc[t] = "reconciling"
    /\ Return(t)
    /\ UNCHANGED <<now, alive, lease, fresh>>

\* A process dies: its controllers stop where they are, but a write already
\* sent stays in flight.
Crash(p) ==
    LET Sent == {t \in Threads : ProcOf[t] = p /\ pc[t] \in InFlight}
        Gone == {t \in Threads : ProcOf[t] = p} \ Sent
    IN  /\ p \in alive
        /\ now <= CrashTime
        /\ alive' = alive \ {p}
        /\ pc' = [t \in Threads |-> IF t \in Sent THEN "orphaned"
                                   ELSE IF t \in Gone THEN "idle" ELSE pc[t]]
        /\ key' = [t \in Threads |-> IF t \in Gone THEN GlobalKey ELSE key[t]]
        /\ snap' = [t \in Threads |-> IF t \in Gone THEN NotFound ELSE snap[t]]
        /\ stamp' = [t \in Threads |-> IF t \in Gone THEN 0 ELSE stamp[t]]
        /\ fresh' = fresh \ Gone
        /\ UNCHANGED <<now, lease>>

\* It comes back under the same identity (its hostname).
Restart(p) ==
    /\ p \in Procs \ alive
    /\ alive' = alive \cup {p}
    /\ UNCHANGED <<now, lease, pc, key, snap, fresh, stamp>>

\* Time passes, whatever is in flight: no write and no reconcile is bounded by
\* the duration of the Lease it runs under.
Tick ==
    /\ now < MaxTime
    /\ now' = now + 1
    /\ UNCHANGED <<alive, lease, pc, key, snap, fresh, stamp>>

Next ==
    \/ \E t \in Threads :
          \/ \E k \in Keys : Get(t, k)
          \/ Decide(t)
          \/ Refused(t)
          \/ Acquired(t)
          \/ AnswerLost(t)
          \/ NotAcquired(t)
          \/ Finish(t)
    \/ \E p \in Procs : Crash(p) \/ Restart(p)
    \/ Tick

Spec == Init /\ [][Next]_vars

\* Every refused or finished reconcile is requeued (RequeueAfter with Jitter,
\* or the next watch event), so every key keeps being tried, API requests do
\* not fail for ever, reconciles end and time passes.
Fairness ==
    /\ WF_vars(Tick)
    /\ \A t \in Threads :
          /\ WF_vars(Decide(t) \/ Refused(t))
          /\ WF_vars(Acquired(t) \/ AnswerLost(t) \/ NotAcquired(t))
          /\ WF_vars(Finish(t))
          /\ \A k \in Keys :
                /\ SF_vars(Get(t, k))
                /\ SF_vars(key[t] = k /\ Acquired(t))

FairSpec == Spec /\ Fairness
-----------------------------------------------------------------------------
\* The reconcile is younger than its Lease by everybody's clock.  What runs on
\* after that is overdue: nothing renews the Lease for it, nothing stops it.
WithinLease(t) ==
    \A q \in Procs : Clock(q) - (stamp[t] + Skew[ProcOf[t]]) <= LeaseDuration

Reconciling(k) == {t \in Threads : pc[t] = "reconciling" /\ key[t] = k}
Working(k) == {t \in Reconciling(k) : WithinLease(t)}
Overdue(k) == {t \in Reconciling(k) : ~WithinLease(t)}

\* Two processes never reconcile the objects of one zone at the same time: the
\* reason the package gives for its existence (locker.go, package doc), and
\* what its 45 seconds are said to be long enough for (locker.go:53-56).  The
\* code does not keep it: a reconcile that outlasts its Lease is not stopped.
MutualExclusion ==
    \A k \in Keys : \A t, u \in Reconciling(k) : ProcOf[t] = ProcOf[u]

\* What does hold however long a reconcile runs and however the clocks differ:
\* the controllers that are within their Lease on a zone are all of the one
\* process that holds it, so two processes meet on a zone only if one of them
\* has outlasted its Lease.
ExclusionWithinLease ==
    \A k \in Keys : \A t \in Working(k) : lease[k].holder = ProcOf[t]

Lock == INSTANCE ZoneLock WITH working <- [k \in Keys |-> Working(k)],
                               overdue <- [k \in Keys |-> Overdue(k)]

\* TryAcquire implements the lock its callers really get: a controller starts
\* on a zone in time only while no other process is on it in time, it may
\* outlast its Lease or learn of it too late, and it stops of its own accord or
\* with its process.
ImplementsZoneLock == Lock!Spec

\* A holder is replaced only by a process for which the Lease had expired, on
\* the renewTime that is stored at that very moment: a renewal that slips in
\* between the contender's Get and its Update defeats the takeover.
NoSpuriousTakeover ==
    [][\A k \in Keys :
          lease[k] # NotFound /\ lease'[k].holder # lease[k].holder
            => Expired(lease'[k].holder, lease[k])]_vars

\* A zone whose holder died is picked up by a live process that may hold it;
\* the only way out is that no such process is left.
Failover ==
    \A k \in Keys :
        []<>(\/ lease[k] = NotFound
             \/ lease[k].holder \in alive
             \/ ~\E t \in Threads : ProcOf[t] \in alive /\ MayAcquire(ProcOf[t], k))
=============================================================================
