------------------------------ MODULE ZoneLock ------------------------------
(***************************************************************************)
(* What the zone lease promises its callers, with no Lease, no clock and   *)
(* no apiserver.  It is a lock with a term: the controllers that are on a  *)
(* zone and within their term all run in one process.  A controller that   *)
(* outlasts its term keeps running, beside whoever holds the zone then.    *)
(***************************************************************************)
CONSTANTS Procs, Threads, ProcOf, Keys

VARIABLES
    working,  \* the controllers on each zone that are within their term
    overdue   \* the controllers on each zone that have outlasted it

Init ==
    /\ working = [k \in Keys |-> {}]
    /\ overdue = [k \in Keys |-> {}]

Idle(t) == \A k \in Keys : t \notin working[k] \cup overdue[k]

\* A controller may start on a zone that no other process is working on.
Start(t, k) ==
    /\ Idle(t)
    /\ \A u \in working[k] : ProcOf[u] = ProcOf[t]
    /\ working' = [working EXCEPT ![k] = @ \cup {t}]
    /\ UNCHANGED overdue

\* It learns that it may start when its term is over already.
StartLate(t, k) ==
    /\ Idle(t)
    /\ overdue' = [overdue EXCEPT ![k] = @ \cup {t}]
    /\ UNCHANGED working

\* The terms of some controllers end; they keep running.
Lapse(S) ==
    /\ working' = [k \in Keys |-> working[k] \ S]
    /\ overdue' = [k \in Keys |-> overdue[k] \cup (working[k] \cap S)]

\* Controllers stop: one of its own accord, or all of a process that dies.
Leave(S) ==
    /\ working' = [k \in Keys |-> working[k] \ S]
    /\ overdue' = [k \in Keys |-> overdue[k] \ S]

OfProc(p) == {t \in Threads : ProcOf[t] = p}

Next ==
    \/ \E t \in Threads, k \in Keys : Start(t, k) \/ StartLate(t, k)
    \/ \E S \in SUBSET Threads : Lapse(S)
    \/ \E t \in Threads : Leave({t})
    \/ \E p \in Procs : Leave(OfProc(p))

Spec == Init /\ [][Next]_<<working, overdue>>
=============================================================================
