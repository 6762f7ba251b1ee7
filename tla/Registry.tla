------------------------------ MODULE Registry ------------------------------
(***************************************************************************)
(* The server registry of pkg/domain/registry.  Every kontinuum-server     *)
(* process keeps a Kontinuum object and a config Secret of its own alive   *)
(* (Heartbeat), and every process watches all of them (TTLReconciler):     *)
(* the hub deletes an object nobody refreshed for StaleThreshold, and      *)
(* whoever sees an object gone deletes the Secret it left behind.          *)
(*                                                                         *)
(* Three goroutines of a process meet here: the heartbeat's ticker, the    *)
(* controller's worker and the shutdown path.  Heartbeat.mu is the pc      *)
(* below: whoever moves it away from "idle" holds the mutex.  The worker   *)
(* reads a cache that lags behind the store, Heartbeat reads the store.    *)
(***************************************************************************)
EXTENDS Naturals, FiniteSets

CONSTANTS
    Processes,       \* server processes
    NameOf,          \* the Kontinuum a process registers (InstanceName)
    Names,           \* the registrations followed; a server and the one it
                     \* replaces share a name
    Hubs,            \* processes that may take zonelease.GlobalKey
    Reliable,        \* processes that are neither stopped nor killed
    StaleThreshold,  \* in ticks of HeartbeatInterval
    MaxFaults        \* bound: failed requests, crashes, stops and deletions

ASSUME RegistryAssumption ==
    /\ Hubs \subseteq Processes /\ Reliable \subseteq Processes
    /\ StaleThreshold \in Nat \ {0}
    /\ MaxFaults \in Nat

VARIABLES
    entry,   \* name -> age of its last heartbeat, or Absent
    secret,  \* names whose config Secret exists
    run,     \* process -> "up", "stopping" (shuttingDown is set) or "down"
    pc,      \* process -> what the holder of Heartbeat.mu does next
    fresh,   \* processes whose copy of their object is the stored version
    seen,    \* process -> name -> the object in its informer cache
    behind,  \* process -> names with an event its watch has not delivered
    queue,   \* process -> names with a reconcile queued or on a timer
    work,    \* process -> what its worker does next
    beaten,  \* processes whose ticker fired since the last tick of the clock
    faults

registryVars == <<entry, secret, run, pc, fresh, seen, behind, queue, work, beaten, faults>>

Absent == StaleThreshold + 1
Exists(e) == e # Absent

\* The mutex is free, or its holder is about to create the object, upsert the
\* Secret or write the status.
PCs == {"idle", "create", "secret", "status"}

\* The worker is free or, for some name, about to delete the stale object, to
\* delete the Secret of a missing one, or to call Heartbeat.Reconcile.
Idle == <<"idle">>
Works == {Idle} \cup ({"reap", "clean", "heal"} \X Names)

RegistryTypeOK ==
    /\ entry \in [Names -> 0 .. Absent]
    /\ secret \subseteq Names
    /\ run \in [Processes -> {"up", "stopping", "down"}]
    /\ pc \in [Processes -> PCs]
    /\ fresh \subseteq Processes
    /\ seen \in [Processes -> [Names -> 0 .. Absent]]
    /\ behind \in [Processes -> SUBSET Names]
    /\ queue \in [Processes -> SUBSET Names]
    /\ work \in [Processes -> Works]
    /\ beaten \subseteq Processes
    /\ faults \in 0 .. MaxFaults

Servers(n) == {p \in Processes : NameOf[p] = n}

\* The processes of this name that are registered, or on their way to.
Up(n) == {p \in Servers(n) : run[p] = "up"}

Registers(p) == NameOf[p] \in Names

RegistryInit ==
    /\ entry = [n \in Names |-> Absent]
    /\ secret = {}
    /\ run \in {r \in [Processes -> {"up", "down"}] : \A p \in Reliable : r[p] = "up"}
    /\ pc = [p \in Processes |-> "idle"]
    /\ fresh = {}
    /\ seen = [p \in Processes |-> entry]
    /\ behind = [p \in Processes |-> {}]
    /\ queue = [p \in Processes |-> {}]
    /\ work = [p \in Processes |-> Idle]
    /\ beaten = {}
    /\ faults = 0

Fault ==
    /\ faults < MaxFaults
    /\ faults' = faults + 1

\* A write to an object makes every copy of it stale but the writer's own,
\* and is an event for every process that watches.
Put(n, e, writer) ==
    /\ entry' = [entry EXCEPT ![n] = e]
    /\ fresh' = (fresh \ Servers(n)) \cup writer
    /\ behind' = [p \in Processes |-> IF run[p] = "down" THEN {} ELSE behind[p] \cup {n}]

NoWrite == UNCHANGED <<entry, fresh, behind>>

\* Deletes are by name and take whatever is there; NotFound is no error.
Delete(n) == IF Exists(entry[n]) THEN Put(n, Absent, {}) ELSE NoWrite

\* The worker of a process that is refused the lease looks at an object only
\* to see whether it is there.
Cached(p, e) == IF p \in Hubs \/ ~Exists(e) THEN e ELSE 0
-----------------------------------------------------------------------------
\* Mutant: neither entry point remembers that the process is shutting down.
ReregistersAlways(p) == run[p] \in {"up", "stopping"}

\* A missing object is recreated, unless Deregister has set shuttingDown.
Reregisters(p) == run[p] = "up"

\* beat: the ticker fires, takes the mutex and Gets the object from the store.
Beat(p) ==
    LET n == NameOf[p]
    IN  /\ run[p] # "down" /\ Registers(p)
        /\ pc[p] = "idle"
        /\ p \notin beaten
        /\ beaten' = beaten \cup {p}
        /\ \/ /\ Exists(entry[n])
              /\ pc' = [pc EXCEPT ![p] = "secret"]
              /\ fresh' = fresh \cup {p}
           \/ /\ ~Exists(entry[n])
              /\ pc' = [pc EXCEPT ![p] = IF Reregisters(p) THEN "create" ELSE @]
              /\ UNCHANGED fresh
        /\ UNCHANGED <<entry, secret, run, seen, behind, queue, work, faults>>

\* Mutant: reregister gives up on the object once it is created.
CreateOnly(p) ==
    /\ pc[p] = "create"
    /\ pc' = [pc EXCEPT ![p] = "idle"]
    /\ IF Exists(entry[NameOf[p]]) THEN NoWrite ELSE Put(NameOf[p], 0, {})
    /\ UNCHANGED <<secret, run, seen, queue, work, beaten, faults>>

\* reregister: Create the object, or Get the one that exists by now.
Create(p) ==
    LET n == NameOf[p]
    IN  /\ pc[p] = "create"
        /\ pc' = [pc EXCEPT ![p] = "secret"]
        /\ \/ /\ ~Exists(entry[n])
              /\ Put(n, 0, {p})
           \/ /\ Exists(entry[n])
              /\ fresh' = fresh \cup {p}
              /\ UNCHANGED <<entry, behind>>
        /\ UNCHANGED <<secret, run, seen, queue, work, beaten, faults>>

\* ensureSecret: create the Secret, or update the one that exists.
EnsureSecret(p) ==
    /\ pc[p] = "secret"
    /\ pc' = [pc EXCEPT ![p] = "status"]
    /\ secret' = secret \cup {NameOf[p]}
    /\ UNCHANGED <<entry, run, fresh, seen, behind, queue, work, beaten, faults>>

\* Status().Update with lastHeartbeatTime = now.  A copy that is not the
\* stored one any more is refused; the refusal is only logged.
UpdateStatus(p) ==
    LET n == NameOf[p]
    IN  /\ pc[p] = "status"
        /\ pc' = [pc EXCEPT ![p] = "idle"]
        /\ IF p \in fresh THEN Put(n, 0, {}) ELSE NoWrite
        /\ UNCHANGED <<secret, run, seen, queue, work, beaten, faults>>

\* A request of the mutex's holder fails: logged, and the mutex is free.
BeatFails(p) ==
    /\ pc[p] # "idle"
    /\ Fault
    /\ pc' = [pc EXCEPT ![p] = "idle"]
    /\ fresh' = fresh \ {p}
    /\ UNCHANGED <<entry, secret, run, seen, behind, queue, work, beaten>>

\* Deregister takes the mutex, sets shuttingDown and deletes the object.
Deregister(p) ==
    /\ run[p] = "up" /\ Registers(p) /\ p \notin Reliable
    /\ pc[p] = "idle"
    /\ Fault
    /\ run' = [run EXCEPT ![p] = "stopping"]
    /\ Delete(NameOf[p]) \/ NoWrite
    /\ UNCHANGED <<secret, pc, seen, queue, work, beaten>>

\* The manager's context is cancelled: Start deregisters once more, and the
\* process ends whether or not that worked.
Exit(p) ==
    /\ run[p] = "stopping"
    /\ pc[p] = "idle"
    /\ run' = [run EXCEPT ![p] = "down"]
    /\ Delete(NameOf[p]) \/ NoWrite
    /\ work' = [work EXCEPT ![p] = Idle]
    /\ queue' = [queue EXCEPT ![p] = {}]
    /\ UNCHANGED <<secret, pc, seen, beaten, faults>>

\* The process is killed wherever it is.
Crash(p) ==
    /\ run[p] # "down" /\ p \notin Reliable
    /\ Fault
    /\ run' = [run EXCEPT ![p] = "down"]
    /\ pc' = [pc EXCEPT ![p] = "idle"]
    /\ work' = [work EXCEPT ![p] = Idle]
    /\ queue' = [queue EXCEPT ![p] = {}]
    /\ fresh' = fresh \ {p}
    /\ behind' = [behind EXCEPT ![p] = {}]
    /\ UNCHANGED <<entry, secret, seen, beaten>>

\* A process starts: its informer lists what there is and queues all of it.
Boot(p) ==
    /\ run[p] = "down"
    /\ Fault
    /\ run' = [run EXCEPT ![p] = "up"]
    /\ seen' = [seen EXCEPT ![p] = [n \in Names |-> Cached(p, entry[n])]]
    /\ queue' = [queue EXCEPT ![p] = {n \in Names : Exists(entry[n])}]
    /\ behind' = [behind EXCEPT ![p] = {}]
    /\ beaten' = beaten \ {p}
    /\ UNCHANGED <<entry, secret, pc, fresh, work>>
-----------------------------------------------------------------------------
\* The watch brings a process's cache up to date and queues the object.
Watch(p, n) ==
    /\ run[p] # "down"
    /\ n \in behind[p]
    /\ behind' = [behind EXCEPT ![p] = @ \ {n}]
    /\ seen' = [seen EXCEPT ![p][n] = Cached(p, entry[n])]
    /\ queue' = [queue EXCEPT ![p] = @ \cup {n}]
    /\ UNCHANGED <<entry, secret, run, pc, fresh, work, beaten, faults>>

\* Stale: the last heartbeat (or the creation) is StaleThreshold or more ago.
Stale(age) == age >= StaleThreshold

\* What is left of CombinedReconciler once the TTL check is done: the
\* heartbeat's own reconcile, for the process's own object.
ThenHeal(p, n) == IF NameOf[p] = n THEN <<"heal", n>> ELSE Idle

\* Mutant: only the watch brings the reaper back to an object.
NotRequeued(p, n) == queue[p] \ {n}

\* An object that is not stale yet, or not this process's to expire, is
\* looked at again (RequeueAfter): the name stays queued.
Requeued(p, n) == queue[p]

\* TTLReconciler.Reconcile reads the cache.  A missing object means cleaning
\* up its Secret, whoever sees it; a stale one is deleted under the global
\* lease.
Reconcile(p, n) ==
    /\ run[p] # "down"
    /\ n \in queue[p] /\ work[p] = Idle
    /\ \/ /\ ~Exists(seen[p][n])
          /\ work' = [work EXCEPT ![p] = <<"clean", n>>]
          /\ queue' = [queue EXCEPT ![p] = @ \ {n}]
       \/ /\ Exists(seen[p][n]) /\ p \in Hubs /\ Stale(seen[p][n])
          /\ work' = [work EXCEPT ![p] = <<"reap", n>>]
          /\ queue' = [queue EXCEPT ![p] = @ \ {n}]
       \/ /\ Exists(seen[p][n]) /\ ~(p \in Hubs /\ Stale(seen[p][n]))
          /\ work' = [work EXCEPT ![p] = ThenHeal(p, n)]
          /\ queue' = [queue EXCEPT ![p] = Requeued(p, n)]
    /\ UNCHANGED <<entry, secret, run, pc, fresh, seen, behind, beaten, faults>>

\* deleteStale: by name, whatever the object has become since the cache read.
Reap(p, n) ==
    /\ work[p] = <<"reap", n>>
    /\ Delete(n)
    /\ work' = [work EXCEPT ![p] = ThenHeal(p, n)]
    /\ UNCHANGED <<secret, run, pc, seen, queue, beaten, faults>>

\* cleanupSecret: by name as well, and without the lease.
Clean(p, n) ==
    /\ work[p] = <<"clean", n>>
    /\ secret' = secret \ {n}
    /\ work' = [work EXCEPT ![p] = ThenHeal(p, n)]
    /\ UNCHANGED <<entry, run, pc, fresh, seen, behind, queue, beaten, faults>>

\* A delete fails: the error requeues the name, and Heartbeat.Reconcile is
\* not called this time.
WorkFails(p, n) ==
    /\ work[p] \in {<<"reap", n>>, <<"clean", n>>}
    /\ Fault
    /\ work' = [work EXCEPT ![p] = Idle]
    /\ queue' = [queue EXCEPT ![p] = @ \cup {n}]
    /\ UNCHANGED <<entry, secret, run, pc, fresh, seen, behind, beaten>>

\* Heartbeat.Reconcile: under the mutex, Get the object from the store and
\* recreate it when it is missing.
Heal(p, n) ==
    /\ work[p] = <<"heal", n>>
    /\ pc[p] = "idle"
    /\ pc' = [pc EXCEPT ![p] = IF ~Exists(entry[n]) /\ Reregisters(p)
                               THEN "create" ELSE @]
    /\ work' = [work EXCEPT ![p] = Idle]
    /\ UNCHANGED <<entry, secret, run, fresh, seen, behind, queue, beaten, faults>>
-----------------------------------------------------------------------------
\* The UI's delete button, or kubectl.
UserDeletes(n) ==
    /\ Exists(entry[n])
    /\ Fault
    /\ Delete(n)
    /\ UNCHANGED <<secret, run, pc, seen, queue, work, beaten>>

Older(e) == IF Exists(e) /\ e < StaleThreshold THEN e + 1 ELSE e

\* One HeartbeatInterval passes; the ticker of every process fires in it.
Tick ==
    /\ \A p \in Processes : run[p] # "down" /\ Registers(p) => p \in beaten
    /\ entry' = [n \in Names |-> Older(entry[n])]
    /\ seen' = [p \in Processes |-> [n \in Names |-> Cached(p, Older(seen[p][n]))]]
    /\ beaten' = {}
    /\ UNCHANGED <<secret, run, pc, fresh, behind, queue, work, faults>>

RegistryNext ==
    \/ \E p \in Processes :
          \/ Beat(p) \/ Create(p) \/ EnsureSecret(p) \/ UpdateStatus(p) \/ BeatFails(p)
          \/ Deregister(p) \/ Exit(p) \/ Crash(p) \/ Boot(p)
          \/ \E n \in Names :
                Watch(p, n) \/ Reconcile(p, n) \/ Reap(p, n) \/ Clean(p, n)
                  \/ WorkFails(p, n) \/ Heal(p, n)
    \/ \E n \in Names : UserDeletes(n)
    \/ Tick

RegistrySpec == RegistryInit /\ [][RegistryNext]_registryVars

\* The ticker fires, requests are answered, watches deliver, queued reconciles
\* run (the hub gets the global lease), a stopping process ends, time passes.
\* Nothing makes a process that is down start again.
RegistryFairness ==
    /\ WF_registryVars(Tick)
    /\ \A p \in Processes :
          /\ WF_registryVars(Beat(p)) /\ WF_registryVars(Create(p)) /\ WF_registryVars(EnsureSecret(p))
          /\ WF_registryVars(UpdateStatus(p)) /\ WF_registryVars(Exit(p))
          /\ \A n \in Names :
                /\ WF_registryVars(Watch(p, n)) /\ WF_registryVars(Reconcile(p, n))
                /\ WF_registryVars(Reap(p, n)) /\ WF_registryVars(Clean(p, n)) /\ SF_registryVars(Heal(p, n))

RegistryFairSpec == RegistrySpec /\ RegistryFairness
-----------------------------------------------------------------------------
\* Only a server that is meant to be there puts its object there: once
\* Deregister has run, neither a beat under way nor the watch event of the
\* deletion brings the object of a stopping process back (heartbeat.go,
\* shuttingDown).
NoResurrection ==
    [][\A n \in Names :
          ~Exists(entry[n]) /\ Exists(entry'[n]) => Up(n) # {}]_registryVars

\* A server that is up is never lost for good: the reaper acting on a stale
\* cache, a user, the process it replaces or another server's cleanup may take
\* its object or its Secret away, but both are there again later.
SelfHeals ==
    \A n \in Names :
        [](Up(n) # {} => <>(\/ Exists(entry[n]) /\ n \in secret
                            \/ Up(n) = {}))

\* The object of a server that is gone for good goes too, although the process
\* itself could not delete it: the hub expires it.
DeadIsForgotten ==
    \A n \in Names :
        []<>(\/ \E p \in Servers(n) : run[p] # "down"
             \/ ~Exists(entry[n]))

=============================================================================
