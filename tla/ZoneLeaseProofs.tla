-------------------------- MODULE ZoneLeaseProofs --------------------------
(***************************************************************************)
(* Proofs about ZoneLease for any number of processes, controllers and     *)
(* zones, any clock offsets and any durations.                             *)
(***************************************************************************)
EXTENDS ZoneLease, TLAPS

\* A stored Lease names its holder and was not renewed in the future, by the
\* holder's own clock.
LeaseInv ==
    \A k \in Keys : lease[k] # NotFound =>
        /\ lease[k].holder \in Procs
        /\ lease[k].renewTime - Skew[lease[k].holder] <= now

\* A snapshot with the stored resourceVersion is the stored object.
SnapInv ==
    \A t \in fresh : /\ pc[t] \in {"got", "writing", "orphaned"}
                     /\ snap[t] = lease[key[t]]

\* What Decide established of a write that can still land.
WriteInv ==
    \A t \in Threads : pc[t] \in InFlight =>
        /\ stamp[t] <= now
        /\ t \in fresh /\ snap[t] # NotFound =>
              /\ snap[t].renewTime - Skew[snap[t].holder] <= stamp[t]
              /\ \/ snap[t].holder = ProcOf[t]
                 \/ stamp[t] + Skew[ProcOf[t]] - snap[t].renewTime > LeaseDuration

\* While a reconcile is within its Lease its process holds the Lease, renewed
\* no earlier than the stamp that admitted the reconcile.
WorkInv ==
    \A t \in Threads : pc[t] = "reconciling" /\ WithinLease(t) =>
        /\ lease[key[t]].holder = ProcOf[t]
        /\ stamp[t] <= lease[key[t]].renewTime - Skew[ProcOf[t]]

IInv == TypeOK /\ LeaseInv /\ SnapInv /\ WriteInv /\ WorkInv
-----------------------------------------------------------------------------
\* Type correctness of the locker: every controller state, Lease and snapshot
\* TryAcquire can produce has its type.
LEMMA TypeInit == Init => TypeOK
BY ConstantsAssumption DEF Init, TypeOK, PCs, Lease, NotFound

LEMMA TypeNext == TypeOK /\ [Next]_vars => TypeOK'
<1> SUFFICES ASSUME TypeOK, [Next]_vars PROVE TypeOK'
  OBVIOUS
<1> USE ConstantsAssumption DEF TypeOK, PCs
<1>0. NotFound \in Lease
  BY DEF NotFound, Lease
<1>1. ASSUME NEW t \in Threads, NEW k \in Keys, Get(t, k) PROVE TypeOK'
  BY <1>1 DEF Get
<1>2. ASSUME NEW t \in Threads, Decide(t) PROVE TypeOK'
  BY <1>2 DEF Decide
<1>3. ASSUME NEW t \in Threads, Refused(t) PROVE TypeOK'
  BY <1>0, <1>3 DEF Refused, Return
<1>4. ASSUME NEW t \in Threads, WriteLease(t)
      PROVE  lease' \in [Keys -> Lease] /\ fresh' \subseteq Threads
  <2>1. [holder |-> ProcOf[t], renewTime |-> stamp[t] + Skew[ProcOf[t]]] \in Lease
    BY DEF Lease
  <2> QED
    BY <1>4, <2>1 DEF WriteLease
<1>5. ASSUME NEW t \in Threads, Acquired(t) PROVE TypeOK'
  BY <1>0, <1>4, <1>5 DEF Acquired
<1>6. ASSUME NEW t \in Threads, AnswerLost(t) PROVE TypeOK'
  BY <1>0, <1>4, <1>6 DEF AnswerLost, Return
<1>7. ASSUME NEW t \in Threads, NotAcquired(t) PROVE TypeOK'
  BY <1>0, <1>7 DEF NotAcquired, Return
<1>8. ASSUME NEW t \in Threads, Finish(t) PROVE TypeOK'
  BY <1>0, <1>8 DEF Finish, Return
<1>9. ASSUME NEW p \in Procs, Crash(p) PROVE TypeOK'
  BY <1>0, <1>9 DEF Crash
<1>10. ASSUME NEW p \in Procs, Restart(p) PROVE TypeOK'
  BY <1>10 DEF Restart
<1>11. CASE Tick
  BY <1>11 DEF Tick
<1>12. CASE UNCHANGED vars
  BY <1>12 DEF vars
<1> QED
  BY <1>1, <1>2, <1>3, <1>5, <1>6, <1>7, <1>8, <1>9, <1>10, <1>11, <1>12 DEF Next

\* Every reachable state of the locker is well typed.
THEOREM Typing == Spec => []TypeOK
BY TypeInit, TypeNext, PTL DEF Spec
-----------------------------------------------------------------------------
\* The conjuncts other than typing hold initially: nobody has called yet.
LEMMA IInvInit == Init => IInv
BY TypeInit, ConstantsAssumption
   DEF Init, IInv, LeaseInv, SnapInv, WriteInv, WorkInv, InFlight

\* What a controller knows when it decides to write over an existing Lease.
LEMMA DecideKnows ==
    ASSUME TypeOK, NEW t \in Threads, Decide(t), snap[t] # NotFound
    PROVE  \/ snap[t].holder = ProcOf[t]
           \/ now + Skew[ProcOf[t]] - snap[t].renewTime > LeaseDuration
<1>1. MayWrite(ProcOf[t], snap[t])
  BY DEF Decide
<1>2. snap[t].holder = ProcOf[t] \/ Expired(ProcOf[t], snap[t])
  BY <1>1, Zenon DEF MayWrite
<1>3. /\ now \in Int /\ LeaseDuration \in Int
      /\ Skew[ProcOf[t]] \in Int /\ snap[t].renewTime \in Int
  BY ConstantsAssumption DEF TypeOK, Lease
<1> QED
  BY <1>2, <1>3 DEF Expired, Clock

\* What is within its Lease at some moment was so at every earlier one.
LEMMA WithinBefore ==
    ASSUME TypeOK, TypeOK', NEW t \in Threads, now <= now', stamp'[t] = stamp[t],
           WithinLease(t)'
    PROVE  WithinLease(t)
<1> USE ConstantsAssumption DEF TypeOK
<1> SUFFICES ASSUME NEW q \in Procs
             PROVE  now + Skew[q] - (stamp[t] + Skew[ProcOf[t]]) <= LeaseDuration
  BY DEF WithinLease, Clock
<1>1. now' + Skew[q] - (stamp[t] + Skew[ProcOf[t]]) <= LeaseDuration
  BY DEF WithinLease, Clock
<1>2. /\ now \in Int /\ now' \in Int /\ Skew[q] \in Int /\ stamp[t] \in Int
      /\ Skew[ProcOf[t]] \in Int /\ LeaseDuration \in Int
  OBVIOUS
<1> QED
  BY <1>1, <1>2

\* The heart of the argument: while a reconcile is within its Lease, a write by
\* another process that would still match that Lease cannot exist.
LEMMA OnlyHolderWrites ==
    ASSUME IInv,
           NEW t \in Threads, pc[t] \in InFlight, t \in fresh,
           NEW u \in Threads, pc[u] = "reconciling", key[u] = key[t],
           WithinLease(u)
    PROVE  /\ ProcOf[u] = ProcOf[t]
           /\ stamp[u] <= stamp[t]
<1> USE ConstantsAssumption DEF IInv, TypeOK
<1>1. /\ snap[t] = lease[key[t]]
      /\ lease[key[t]].holder = ProcOf[u]
      /\ stamp[u] <= lease[key[t]].renewTime - Skew[ProcOf[u]]
  BY DEF SnapInv, WorkInv
<1>2. snap[t] # NotFound
  BY <1>1 DEF NotFound
<1>3. /\ stamp[t] <= now
      /\ snap[t].renewTime - Skew[snap[t].holder] <= stamp[t]
      /\ \/ snap[t].holder = ProcOf[t]
         \/ stamp[t] + Skew[ProcOf[t]] - snap[t].renewTime > LeaseDuration
  BY <1>2 DEF WriteInv
<1>4. /\ stamp[t] \in Int /\ stamp[u] \in Int /\ now \in Int
      /\ lease[key[t]].renewTime \in Int
      /\ Skew[ProcOf[t]] \in Int /\ Skew[ProcOf[u]] \in Int
      /\ LeaseDuration \in Int
  BY DEF Lease
<1>5. now + Skew[ProcOf[t]] - (stamp[u] + Skew[ProcOf[u]]) <= LeaseDuration
  BY DEF WithinLease, Clock
<1> QED
  BY <1>1, <1>3, <1>4, <1>5

\* A write that lands keeps the Lease facts: of every other thread because its
\* snapshot went stale, of those within their Lease because they are of the
\* writer's own process and the renewal only moves forward.
LEMMA WriteKeepsInv ==
    ASSUME IInv, TypeOK', NEW t \in Threads,
           pc[t] \in InFlight, WriteLease(t), now' = now,
           \A u \in Threads \ {t} : /\ pc'[u] = pc[u] /\ key'[u] = key[u]
                                    /\ snap'[u] = snap[u] /\ stamp'[u] = stamp[u],
           pc'[t] \in {"idle", "reconciling"},
           pc'[t] = "reconciling" =>
              pc[t] = "writing" /\ key'[t] = key[t] /\ stamp'[t] = stamp[t]
    PROVE  LeaseInv' /\ SnapInv' /\ WriteInv' /\ WorkInv'
<1> USE ConstantsAssumption DEF IInv, TypeOK
<1> DEFINE p == ProcOf[t]
           new == [holder |-> p, renewTime |-> stamp[t] + Skew[p]]
<1>1. /\ lease' = [lease EXCEPT ![key[t]] = new]
      /\ fresh' = {u \in fresh : key[u] # key[t]}
      /\ t \in fresh
  BY DEF WriteLease, WriteMatches
<1>2. /\ stamp[t] <= now /\ stamp[t] \in Int /\ now \in Int /\ Skew[p] \in Int
      /\ new.holder = p /\ new.renewTime - Skew[p] = stamp[t]
  BY DEF WriteInv
<1>3. LeaseInv'
  BY <1>1, <1>2 DEF LeaseInv
<1>4. SnapInv'
  BY <1>1 DEF SnapInv
<1>5. WriteInv'
  BY <1>1 DEF WriteInv, InFlight
<1>6. WorkInv'
  <2> SUFFICES ASSUME NEW u \in Threads, pc'[u] = "reconciling", WithinLease(u)'
               PROVE  /\ lease'[key'[u]].holder = ProcOf[u]
                      /\ stamp'[u] <= lease'[key'[u]].renewTime - Skew[ProcOf[u]]
    BY DEF WorkInv
  <2>0. ASSUME u # t PROVE WithinLease(u)
    <3>1. stamp'[u] = stamp[u] /\ now <= now'
      BY <2>0
    <3> QED
      BY <3>1, WithinBefore
  <2>1. CASE u = t
    BY <1>1, <1>2, <2>1 DEF WriteInv
  <2>2. CASE u # t /\ key[u] # key[t]
    BY <1>1, <2>0, <2>2 DEF WorkInv
  <2>3. CASE u # t /\ key[u] = key[t]
    <3>1. ProcOf[u] = p /\ stamp[u] <= stamp[t]
      BY <1>1, <2>0, <2>3, OnlyHolderWrites
    <3>3. lease'[key'[u]] = new /\ stamp'[u] = stamp[u]
      BY <1>1, <2>3
    <3> QED
      BY <1>2, <3>1, <3>3
  <2> QED
    BY <2>1, <2>2, <2>3
<1> QED
  BY <1>3, <1>4, <1>5, <1>6

\* Every step of the locker keeps the invariant.
LEMMA IInvNext == IInv /\ [Next]_vars => IInv'
<1> SUFFICES ASSUME IInv, [Next]_vars PROVE IInv'
  OBVIOUS
<1>0. TypeOK'
  BY TypeNext DEF IInv
<1> SUFFICES LeaseInv' /\ SnapInv' /\ WriteInv' /\ WorkInv'
  BY <1>0 DEF IInv
<1>work. ASSUME lease' = lease, now <= now',
             \A u \in Threads : pc'[u] = "reconciling" =>
                pc[u] = "reconciling" /\ key'[u] = key[u] /\ stamp'[u] = stamp[u]
      PROVE  WorkInv'
  <2> SUFFICES ASSUME NEW u \in Threads, pc'[u] = "reconciling", WithinLease(u)'
               PROVE  /\ lease'[key'[u]].holder = ProcOf[u]
                      /\ stamp'[u] <= lease'[key'[u]].renewTime - Skew[ProcOf[u]]
    BY DEF WorkInv
  <2>1. WithinLease(u)
    BY <1>0, <1>work, WithinBefore DEF IInv
  <2> QED
    BY <1>work, <2>1 DEF IInv, WorkInv
<1> USE ConstantsAssumption DEF IInv, TypeOK, InFlight
<1>1. ASSUME NEW t \in Threads, NEW k \in Keys, Get(t, k)
      PROVE  LeaseInv' /\ SnapInv' /\ WriteInv' /\ WorkInv'
  <2>1. LeaseInv' /\ SnapInv' /\ WriteInv'
    BY <1>1 DEF Get, LeaseInv, SnapInv, WriteInv
  <2>2. WorkInv'
    BY <1>1, <1>work DEF Get
  <2> QED
    BY <2>1, <2>2
<1>2. ASSUME NEW t \in Threads, Decide(t)
      PROVE  LeaseInv' /\ SnapInv' /\ WriteInv' /\ WorkInv'
  <2>0. WorkInv'
    BY <1>2, <1>work DEF Decide
  <2>1. LeaseInv' /\ SnapInv'
    BY <1>2 DEF Decide, LeaseInv, SnapInv
  <2>2. WriteInv'
    <3>1. t \in fresh /\ snap[t] # NotFound =>
             snap[t].renewTime - Skew[snap[t].holder] <= now
      BY DEF SnapInv, LeaseInv
    <3>2. snap[t] # NotFound =>
             \/ snap[t].holder = ProcOf[t]
             \/ now + Skew[ProcOf[t]] - snap[t].renewTime > LeaseDuration
      BY <1>2, DecideKnows
    <3> QED
      BY <1>2, <3>1, <3>2 DEF Decide, WriteInv
  <2> QED
    BY <2>0, <2>1, <2>2
<1>3. ASSUME NEW t \in Threads, Refused(t)
      PROVE  LeaseInv' /\ SnapInv' /\ WriteInv' /\ WorkInv'
  <2>1. LeaseInv' /\ SnapInv' /\ WriteInv'
    BY <1>3 DEF Refused, Return, LeaseInv, SnapInv, WriteInv
  <2>2. WorkInv'
    BY <1>3, <1>work DEF Refused, Return
  <2> QED
    BY <2>1, <2>2
<1>4. ASSUME NEW t \in Threads, Acquired(t)
      PROVE  LeaseInv' /\ SnapInv' /\ WriteInv' /\ WorkInv'
  <2>1. /\ pc[t] \in InFlight /\ WriteLease(t) /\ now' = now
        /\ \A u \in Threads \ {t} : /\ pc'[u] = pc[u] /\ key'[u] = key[u]
                                    /\ snap'[u] = snap[u] /\ stamp'[u] = stamp[u]
        /\ pc'[t] = "reconciling" /\ pc[t] = "writing"
        /\ key'[t] = key[t] /\ stamp'[t] = stamp[t]
    BY <1>4 DEF Acquired
  <2> QED
    BY <1>0, <2>1, WriteKeepsInv
<1>5. ASSUME NEW t \in Threads, AnswerLost(t)
      PROVE  LeaseInv' /\ SnapInv' /\ WriteInv' /\ WorkInv'
  <2>1. /\ pc[t] \in InFlight /\ WriteLease(t) /\ now' = now
        /\ \A u \in Threads \ {t} : /\ pc'[u] = pc[u] /\ key'[u] = key[u]
                                    /\ snap'[u] = snap[u] /\ stamp'[u] = stamp[u]
        /\ pc'[t] = "idle"
    BY <1>5 DEF AnswerLost, Return
  <2> QED
    BY <1>0, <2>1, WriteKeepsInv
<1>6. ASSUME NEW t \in Threads, NotAcquired(t)
      PROVE  LeaseInv' /\ SnapInv' /\ WriteInv' /\ WorkInv'
  <2>1. LeaseInv' /\ SnapInv' /\ WriteInv'
    BY <1>6 DEF NotAcquired, Return, LeaseInv, SnapInv, WriteInv
  <2>2. WorkInv'
    BY <1>6, <1>work DEF NotAcquired, Return
  <2> QED
    BY <2>1, <2>2
<1>7. ASSUME NEW t \in Threads, Finish(t)
      PROVE  LeaseInv' /\ SnapInv' /\ WriteInv' /\ WorkInv'
  <2>1. LeaseInv' /\ SnapInv' /\ WriteInv'
    BY <1>7 DEF Finish, Return, LeaseInv, SnapInv, WriteInv
  <2>2. WorkInv'
    BY <1>7, <1>work DEF Finish, Return
  <2> QED
    BY <2>1, <2>2
<1>8. ASSUME NEW p \in Procs, Crash(p)
      PROVE  LeaseInv' /\ SnapInv' /\ WriteInv' /\ WorkInv'
  <2>1. LeaseInv' /\ SnapInv' /\ WriteInv'
    BY <1>8 DEF Crash, LeaseInv, SnapInv, WriteInv
  <2>2. WorkInv'
    BY <1>8, <1>work DEF Crash
  <2> QED
    BY <2>1, <2>2
<1>9. ASSUME NEW p \in Procs, Restart(p)
      PROVE  LeaseInv' /\ SnapInv' /\ WriteInv' /\ WorkInv'
  <2>1. LeaseInv' /\ SnapInv' /\ WriteInv'
    BY <1>9 DEF Restart, LeaseInv, SnapInv, WriteInv
  <2>2. WorkInv'
    BY <1>9, <1>work DEF Restart
  <2> QED
    BY <2>1, <2>2
<1>10. CASE Tick
  <2>1. LeaseInv'
    BY <1>10 DEF Tick, LeaseInv, Lease
  <2>2. SnapInv'
    BY <1>10 DEF Tick, SnapInv
  <2>3. WriteInv'
    BY <1>10 DEF Tick, WriteInv
  <2>4. WorkInv'
    BY <1>10, <1>work DEF Tick
  <2> QED
    BY <2>1, <2>2, <2>3, <2>4
<1>11. CASE UNCHANGED vars
  <2>1. LeaseInv' /\ SnapInv' /\ WriteInv'
    BY <1>11 DEF vars, LeaseInv, SnapInv, WriteInv
  <2>2. WorkInv'
    BY <1>11, <1>work DEF vars
  <2> QED
    BY <2>1, <2>2
<1> QED
  BY <1>1, <1>2, <1>3, <1>4, <1>5, <1>6, <1>7, <1>8, <1>9, <1>10, <1>11 DEF Next

\* The invariant is all that the exclusion needs.
LEMMA IInvExcludes == IInv => ExclusionWithinLease
BY DEF IInv, WorkInv, ExclusionWithinLease, Working, Reconciling

\* Whatever the durations, the clock offsets and the time a reconcile takes, and
\* however Gets, writes, crashes and lost answers interleave: whoever is within
\* its Lease on a zone is of the process that holds it.
THEOREM Exclusion == Spec => []ExclusionWithinLease
BY IInvInit, IInvNext, IInvExcludes, PTL DEF Spec
-----------------------------------------------------------------------------
\* A holder is replaced only once its Lease has expired for the process that
\* replaces it; this needs no assumption on how long a reconcile takes, only
\* that a snapshot with the stored resourceVersion is the stored object and
\* that time does not run backwards between decision and write.
TakeInv ==
    \A t \in Threads : t \in fresh =>
        /\ pc[t] \in {"got", "writing", "orphaned"}
        /\ snap[t] = lease[key[t]]
        /\ pc[t] \in InFlight /\ snap[t] # NotFound =>
              /\ stamp[t] <= now
              /\ \/ snap[t].holder = ProcOf[t]
                 \/ stamp[t] + Skew[ProcOf[t]] - snap[t].renewTime > LeaseDuration

LEMMA TakeInvNext == TypeOK /\ TakeInv /\ [Next]_vars => TakeInv'
<1> SUFFICES ASSUME TypeOK, TakeInv, [Next]_vars PROVE TakeInv'
  OBVIOUS
<1> USE ConstantsAssumption DEF TypeOK, TakeInv, InFlight
<1>1. ASSUME NEW t \in Threads, NEW k \in Keys, Get(t, k) PROVE TakeInv'
  BY <1>1 DEF Get
<1>2. ASSUME NEW t \in Threads, Decide(t) PROVE TakeInv'
  <2>1. snap[t] # NotFound =>
           \/ snap[t].holder = ProcOf[t]
           \/ now + Skew[ProcOf[t]] - snap[t].renewTime > LeaseDuration
    BY <1>2, DecideKnows
  <2> QED
    BY <1>2, <2>1 DEF Decide
<1>3. ASSUME NEW t \in Threads, Refused(t) PROVE TakeInv'
  BY <1>3 DEF Refused, Return
<1>4. ASSUME NEW t \in Threads, Acquired(t) PROVE TakeInv'
  BY <1>4 DEF Acquired, WriteLease, WriteMatches
<1>5. ASSUME NEW t \in Threads, AnswerLost(t) PROVE TakeInv'
  BY <1>5 DEF AnswerLost, WriteLease, WriteMatches, Return
<1>6. ASSUME NEW t \in Threads, NotAcquired(t) PROVE TakeInv'
  BY <1>6 DEF NotAcquired, Return
<1>7. ASSUME NEW t \in Threads, Finish(t) PROVE TakeInv'
  BY <1>7 DEF Finish, Return
<1>8. ASSUME NEW p \in Procs, Crash(p) PROVE TakeInv'
  BY <1>8 DEF Crash
<1>9. ASSUME NEW p \in Procs, Restart(p) PROVE TakeInv'
  BY <1>9 DEF Restart
<1>10. CASE Tick
  BY <1>10 DEF Tick
<1>11. CASE UNCHANGED vars
  BY <1>11 DEF vars
<1> QED
  BY <1>1, <1>2, <1>3, <1>4, <1>5, <1>6, <1>7, <1>8, <1>9, <1>10, <1>11 DEF Next

\* One landed write replaces another holder only if its Lease had expired.
LEMMA WriteTakesExpired ==
    ASSUME TypeOK, TakeInv, NEW t \in Threads, pc[t] \in InFlight, WriteLease(t),
           NEW k \in Keys, lease[k] # NotFound, lease'[k].holder # lease[k].holder
    PROVE  Expired(lease'[k].holder, lease[k])
<1> USE ConstantsAssumption DEF TypeOK
<1>1. /\ k = key[t]
      /\ lease'[k].holder = ProcOf[t]
      /\ t \in fresh
  BY DEF WriteLease, WriteMatches
<1>2. /\ stamp[t] <= now
      /\ stamp[t] + Skew[ProcOf[t]] - lease[k].renewTime > LeaseDuration
  BY <1>1 DEF TakeInv
<1>3. /\ stamp[t] \in Int /\ now \in Int /\ Skew[ProcOf[t]] \in Int
      /\ lease[k].renewTime \in Int /\ LeaseDuration \in Int
  BY DEF Lease
<1> QED
  BY <1>1, <1>2, <1>3 DEF Expired, Clock

\* TryAcquire never takes a Lease from a holder that renewed in time, for any
\* durations and clock offsets.
THEOREM TakeoverOnlyExpired == Spec => NoSpuriousTakeover
<1> DEFINE Step == \A k \in Keys :
              lease[k] # NotFound /\ lease'[k].holder # lease[k].holder
                => Expired(lease'[k].holder, lease[k])
<1>1. Init => TakeInv
  BY DEF Init, TakeInv
<1>2. TypeOK /\ TakeInv /\ [Next]_vars => [Step]_vars
  <2> SUFFICES ASSUME TypeOK, TakeInv, Next PROVE Step
    OBVIOUS
  <2>1. ASSUME NEW t \in Threads, Acquired(t) \/ AnswerLost(t) PROVE Step
    BY <2>1, WriteTakesExpired DEF Acquired, AnswerLost, InFlight
  <2>2. CASE lease' = lease
    BY <2>2
  <2> QED
    BY <2>1, <2>2 DEF Next, Get, Decide, Refused, NotAcquired, Finish, Crash,
                      Restart, Tick
<1>3. TypeOK /\ TakeInv /\ [Next]_vars => TypeOK' /\ TakeInv'
  BY TypeNext, TakeInvNext
<1>4. Spec => [][Step]_vars
  BY TypeInit, <1>1, <1>2, <1>3, PTL DEF Spec
<1> QED
  BY <1>4 DEF NoSpuriousTakeover
-----------------------------------------------------------------------------
\* The state of the abstract lock.
InTime == [k \in Keys |-> Working(k)]
Late == [k \in Keys |-> Overdue(k)]

\* Whether a reconcile is within its Lease depends on the time and its stamp.
LEMMA WithinSame ==
    ASSUME NEW t \in Threads, now' = now, stamp'[t] = stamp[t]
    PROVE  WithinLease(t)' <=> WithinLease(t)
BY DEF WithinLease, Clock

\* Ending the reconciles of a set of controllers is a Leave of that set.
LEMMA LeaveRefines ==
    ASSUME NEW S \in SUBSET Threads, now' = now,
           \A u \in Threads : /\ pc'[u] = "reconciling" <=>
                                   pc[u] = "reconciling" /\ u \notin S
                              /\ pc'[u] = "reconciling" =>
                                   key'[u] = key[u] /\ stamp'[u] = stamp[u]
    PROVE  /\ InTime' = [k \in Keys |-> InTime[k] \ S]
           /\ Late' = [k \in Keys |-> Late[k] \ S]
<1>1. \A u \in Threads : pc'[u] = "reconciling" => (WithinLease(u)' <=> WithinLease(u))
  BY WithinSame
<1>2. ASSUME NEW k \in Keys
      PROVE  Working(k)' = Working(k) \ S /\ Overdue(k)' = Overdue(k) \ S
  BY <1>1 DEF Working, Overdue, Reconciling
<1> QED
  BY <1>2 DEF InTime, Late

\* A step that neither starts nor ends a reconcile, nor moves one to another
\* zone, nor takes time, is invisible to the abstract lock.
LEMMA LockUnchanged ==
    ASSUME now' = now,
           \A u \in Threads : pc[u] = "reconciling" <=> pc'[u] = "reconciling",
           \A u \in Threads : pc[u] = "reconciling" =>
              key'[u] = key[u] /\ stamp'[u] = stamp[u]
    PROVE  InTime' = InTime /\ Late' = Late
<1>1. /\ InTime' = [k \in Keys |-> InTime[k] \ {}]
      /\ Late' = [k \in Keys |-> Late[k] \ {}]
  BY LeaveRefines
<1>2. \A k \in Keys : InTime[k] \ {} = InTime[k] /\ Late[k] \ {} = Late[k]
  OBVIOUS
<1> QED
  BY <1>1, <1>2 DEF InTime, Late

\* The answer to a write starts its controller, in time or too late.
LEMMA AcquiredRefines ==
    ASSUME IInv, NEW t \in Threads, Acquired(t)
    PROVE  Lock!Next
<1> USE ConstantsAssumption DEF IInv, TypeOK
<1> DEFINE k == key[t]
<1>1. /\ pc[t] = "writing" /\ t \in fresh /\ k \in Keys
      /\ pc' = [pc EXCEPT ![t] = "reconciling"] /\ key' = key
      /\ now' = now /\ stamp' = stamp
  BY DEF Acquired, WriteLease, WriteMatches
<1>2. \A u \in Threads : WithinLease(u)' <=> WithinLease(u)
  BY <1>1, WithinSame
<1>3. Lock!Idle(t)
  BY <1>1 DEF Lock!Idle, Working, Overdue, Reconciling
<1>4. \A l \in Keys \ {k} : Working(l)' = Working(l) /\ Overdue(l)' = Overdue(l)
  BY <1>1, <1>2 DEF Working, Overdue, Reconciling
<1>5. CASE WithinLease(t)
  <2>1. \A u \in Working(k) : ProcOf[u] = ProcOf[t]
    BY <1>1, OnlyHolderWrites DEF Working, Reconciling, InFlight
  <2>2. Working(k)' = Working(k) \cup {t} /\ Overdue(k)' = Overdue(k)
    BY <1>1, <1>2, <1>5 DEF Working, Overdue, Reconciling
  <2>3. InTime' = [InTime EXCEPT ![k] = @ \cup {t}] /\ Late' = Late
    BY <1>1, <1>4, <2>2 DEF InTime, Late
  <2>4. Lock!Start(t, k)
    BY <1>1, <1>3, <2>1, <2>3 DEF Lock!Start, InTime, Late
  <2> QED
    BY <1>1, <2>4 DEF Lock!Next
<1>6. CASE ~WithinLease(t)
  <2>1. Overdue(k)' = Overdue(k) \cup {t} /\ Working(k)' = Working(k)
    BY <1>1, <1>2, <1>6 DEF Working, Overdue, Reconciling
  <2>2. Late' = [Late EXCEPT ![k] = @ \cup {t}] /\ InTime' = InTime
    BY <1>1, <1>4, <2>1 DEF InTime, Late
  <2>3. Lock!StartLate(t, k)
    BY <1>1, <1>3, <2>2 DEF Lock!StartLate, InTime, Late
  <2> QED
    BY <1>1, <2>3 DEF Lock!Next
<1> QED
  BY <1>5, <1>6

\* A tick makes some reconciles overdue and none timely again.
LEMMA TickRefines ==
    ASSUME TypeOK, TypeOK', Tick
    PROVE  Lock!Next
<1> DEFINE S == {u \in Threads : ~WithinLease(u)'}
<1>1. pc' = pc /\ key' = key /\ stamp' = stamp /\ now <= now'
  BY DEF Tick, TypeOK
<1>2. \A u \in Threads : WithinLease(u)' => WithinLease(u)
  BY <1>1, WithinBefore
<1>3. ASSUME NEW k \in Keys
      PROVE  /\ Working(k)' = Working(k) \ S
             /\ Overdue(k)' = Overdue(k) \cup (Working(k) \cap S)
  BY <1>1, <1>2 DEF Working, Overdue, Reconciling
<1>4. /\ InTime' = [k \in Keys |-> InTime[k] \ S]
      /\ Late' = [k \in Keys |-> Late[k] \cup (InTime[k] \cap S)]
  BY <1>3 DEF InTime, Late
<1>5. Lock!Lapse(S)
  BY <1>4 DEF Lock!Lapse, InTime, Late
<1>6. S \in SUBSET Threads
  OBVIOUS
<1> QED
  BY <1>5, <1>6 DEF Lock!Next

\* A step of the locker is a step of the abstract lock, or invisible to it.
LEMMA StepRefines ==
    ASSUME IInv, [Next]_vars
    PROVE  [Lock!Next]_<<InTime, Late>>
<1> USE ConstantsAssumption DEF IInv, TypeOK
<1>1. ASSUME NEW t \in Threads, Acquired(t) PROVE Lock!Next
  BY <1>1, AcquiredRefines
<1>2. ASSUME NEW t \in Threads, Finish(t) PROVE Lock!Next
  <2>1. /\ now' = now
        /\ \A u \in Threads : /\ pc'[u] = "reconciling" <=>
                                   pc[u] = "reconciling" /\ u \notin {t}
                              /\ pc'[u] = "reconciling" =>
                                   key'[u] = key[u] /\ stamp'[u] = stamp[u]
    BY <1>2 DEF Finish, Return
  <2>2. Lock!Leave({t})
    BY <2>1, LeaveRefines DEF Lock!Leave, InTime, Late
  <2> QED
    BY <2>2 DEF Lock!Next
<1>3. ASSUME NEW p \in Procs, Crash(p) PROVE Lock!Next
  <2> DEFINE S == {u \in Threads : ProcOf[u] = p}
  <2>1. /\ now' = now
        /\ \A u \in Threads : /\ pc'[u] = "reconciling" <=>
                                   pc[u] = "reconciling" /\ u \notin S
                              /\ pc'[u] = "reconciling" =>
                                   key'[u] = key[u] /\ stamp'[u] = stamp[u]
    BY <1>3 DEF Crash, InFlight
  <2>2. /\ InTime' = [k \in Keys |-> InTime[k] \ S]
        /\ Late' = [k \in Keys |-> Late[k] \ S]
    BY <2>1, LeaveRefines
  <2>3. Lock!Leave(Lock!OfProc(p))
    BY <2>2 DEF Lock!Leave, Lock!OfProc, InTime, Late
  <2> QED
    BY <2>3 DEF Lock!Next
<1>4. ASSUME NEW t \in Threads,
             \/ \E k \in Keys : Get(t, k)
             \/ Decide(t) \/ Refused(t) \/ AnswerLost(t) \/ NotAcquired(t)
      PROVE  InTime' = InTime /\ Late' = Late
  <2>1. /\ now' = now
        /\ \A u \in Threads : pc[u] = "reconciling" <=> pc'[u] = "reconciling"
        /\ \A u \in Threads : pc[u] = "reconciling" =>
              key'[u] = key[u] /\ stamp'[u] = stamp[u]
    BY <1>4 DEF Get, Decide, Refused, AnswerLost, NotAcquired, Return, InFlight
  <2> QED
    BY <2>1, LockUnchanged
<1>5. ASSUME now' = now, pc' = pc, key' = key, stamp' = stamp
      PROVE  InTime' = InTime /\ Late' = Late
  BY <1>5, LockUnchanged
<1>6. CASE Tick
  BY <1>6, TypeNext, TickRefines
<1> QED
  BY <1>1, <1>2, <1>3, <1>4, <1>5, <1>6 DEF Next, Restart, vars

\* TryAcquire implements the abstract lock, with no condition on how long a
\* reconcile may take.
THEOREM Refinement == Spec => ImplementsZoneLock
<1> SUFFICES Spec => Lock!Spec
  BY DEF ImplementsZoneLock
<1>1. Init => Lock!Init
  BY DEF Init, Lock!Init, Working, Overdue, Reconciling
<1>2. IInv /\ [Next]_vars => IInv'
  BY IInvNext
<1>3. IInv /\ [Next]_vars => [Lock!Next]_<<InTime, Late>>
  BY StepRefines
<1> QED
  BY IInvInit, <1>1, <1>2, <1>3, PTL DEF Spec, Lock!Spec, InTime, Late
=============================================================================
