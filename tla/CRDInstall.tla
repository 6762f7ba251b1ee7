----------------------------- MODULE CRDInstall -----------------------------
(***************************************************************************)
(* How a starting server installs its CustomResourceDefinitions: pkg/crd,  *)
(* driven by registry.EnsureCRD and instance.EnsureCRDs.  For one kind     *)
(* after the other the server                                              *)
(*   - MigrateScope: when the stored CRD is still Cluster-scoped, lists    *)
(*     its objects into memory, deletes the CRD (and with it every object) *)
(*     and waits for it to be gone,                                        *)
(*   - Ensure: creates or updates the CRD and waits until it is served,    *)
(*   - RestoreMigrated: recreates the listed objects.                      *)
(* Every other server that starts at the same time does the same.          *)
(***************************************************************************)
EXTENDS Naturals, FiniteSets

CONSTANTS
    Procs,      \* servers that start against the same storage
    Kinds,      \* the CRDs, numbered in the order of definitions()
    Objects,    \* object names of a kind
    MaxEdits    \* bound: objects created by users, crashes and timeouts

ASSUME InstallAssumption ==
    /\ Kinds \in Nat \ {0} /\ MaxEdits \in Nat
    /\ Procs \cap {"none", "full", "user"} = {}

VARIABLES
    crd,    \* kind -> state of its CRD
    objs,   \* kind -> object -> what is stored
    step,   \* process -> what its hook does next
    kind,   \* process -> the kind it is at
    mem,    \* process -> object -> what MigrateScope listed
    torn,   \* history: kinds whose CRD was deleted when it was Namespaced
    edits

installVars == <<crd, objs, step, kind, mem, torn, edits>>

\* "cluster": as a release before the scope change left it; "terminating":
\* deleted, its finalizer still removing the objects; "stale": Namespaced, with
\* an older schema; "pending": created, not Established yet; "current";
\* "leaving": Namespaced, and deleted.
CRDs == {"absent", "cluster", "terminating", "stale", "pending", "current", "leaving"}

\* A missing object, one with its status, one a user created anew, and one that
\* a server has recreated without its status.
Stored == {"none", "full", "user"} \cup Procs

\* An object in memory: "bare" was listed without its status, "status" has been
\* recreated and waits for its status.
Listed == {"none", "bare", "full", "user", "status"}

Steps == {"out", "migrate", "drain", "delete", "wait", "apply", "establish", "restore", "done"}

Nothing == [o \in Objects |-> "none"]

InstallTypeOK ==
    /\ crd \in [1 .. Kinds -> CRDs]
    /\ objs \in [1 .. Kinds -> [Objects -> Stored]]
    /\ step \in [Procs -> Steps]
    /\ kind \in [Procs -> 1 .. Kinds]
    /\ mem \in [Procs -> [Objects -> Listed]]
    /\ torn \subseteq 1 .. Kinds
    /\ edits \in 0 .. MaxEdits

\* A fresh installation, or one an earlier release left.
InstallInit ==
    /\ crd \in [1 .. Kinds -> {"absent", "cluster", "stale"}]
    /\ objs = [k \in 1 .. Kinds |-> IF crd[k] = "absent" THEN Nothing
                                    ELSE [o \in Objects |-> "full"]]
    /\ step = [p \in Procs |-> "out"]
    /\ kind = [p \in Procs |-> 1]
    /\ mem = [p \in Procs |-> Nothing]
    /\ torn = {}
    /\ edits = 0

Edit ==
    /\ edits < MaxEdits
    /\ edits' = edits + 1

Present(k) == {o \in Objects : objs[k][o] # "none"}
Deleted(k) == crd[k] \in {"terminating", "leaving"}
Served(k) == crd[k] \in {"cluster", "terminating", "stale", "current", "leaving"}
Namespaced(k) == crd[k] \in {"stale", "pending", "current"}

Goto(p, s) == step' = [step EXCEPT ![p] = s]
-----------------------------------------------------------------------------
\* Mutant: the scope of the stored CRD is not looked at.
MustMigrateNever(k) == FALSE

\* The one transition MigrateScope acts on.  A CRD being deleted still says
\* what its scope is.
MustMigrate(k) == crd[k] \in {"cluster", "terminating"}

\* MigrateScope's first Get decides.
Migrate(p) ==
    /\ step[p] = "migrate"
    /\ Goto(p, IF MustMigrate(kind[p]) THEN "drain" ELSE "apply")
    /\ UNCHANGED <<crd, objs, kind, mem, torn, edits>>

\* drainExisting: once the kind is discoverable, list its objects.
Drain(p) ==
    LET k == kind[p]
    IN  /\ step[p] = "drain"
        /\ Served(k)
        /\ mem' = [mem EXCEPT ![p] =
                     [o \in Objects |-> IF objs[k][o] \in Procs THEN "bare" ELSE objs[k][o]]]
        /\ Goto(p, "delete")
        /\ UNCHANGED <<crd, objs, kind, torn, edits>>

\* The CRD is deleted by name, whatever it has become since the Get; NotFound is
\* no error.
DeleteCRD(p) ==
    LET k == kind[p]
    IN  /\ step[p] = "delete"
        /\ crd' = [crd EXCEPT ![k] = CASE @ = "cluster" -> "terminating"
                                       [] Namespaced(k) -> "leaving"
                                       [] OTHER -> @]
        /\ torn' = IF Namespaced(k) THEN torn \cup {k} ELSE torn
        /\ Goto(p, "wait")
        /\ UNCHANGED <<objs, kind, mem, edits>>

\* waitForDeleted: polls until the CRD is gone.
WaitDeleted(p) ==
    /\ step[p] = "wait"
    /\ crd[kind[p]] = "absent"
    /\ Goto(p, "apply")
    /\ UNCHANGED <<crd, objs, kind, mem, torn, edits>>

\* Apply: create the CRD, or update one whose spec differs.  A Cluster-scoped
\* one cannot be updated: the poll goes on until its timeout.
Apply(p) ==
    LET k == kind[p]
    IN  /\ step[p] = "apply"
        /\ crd[k] # "cluster"
        /\ crd' = [crd EXCEPT ![k] = CASE @ = "absent" -> "pending"
                                       [] @ = "stale" -> "current"
                                       [] OTHER -> @]
        /\ Goto(p, "establish")
        /\ UNCHANGED <<objs, kind, mem, torn, edits>>

\* Mutant: a created CRD is not waited for.
EstablishAtOnce(p) ==
    /\ step[p] = "establish"
    /\ Goto(p, "restore")
    /\ UNCHANGED <<crd, objs, kind, mem, torn, edits>>

\* ensureEstablished applies once more, and sees the CRD Established, which one
\* being deleted may still be; every GVK resolves (waitForDiscoverable).
Establish(p) ==
    LET k == kind[p]
    IN  /\ step[p] = "establish"
        /\ \/ /\ crd[k] \in {"current", "leaving"}
              /\ Goto(p, "restore")
           \/ /\ crd[k] \in {"absent", "stale"}
              /\ Goto(p, "apply")
        /\ UNCHANGED <<crd, objs, kind, mem, torn, edits>>

\* A listed object as p's Create stores it: without the status, if it had one.
Created(p, listed) == IF listed = "user" THEN "user" ELSE p

\* Mutant: the listed object replaces what is there.
RestoredOver(p, k, o) == Created(p, mem[p][o])

\* Create of a listed object; AlreadyExists leaves the stored one alone.
Restored(p, k, o) == IF objs[k][o] = "none" THEN Created(p, mem[p][o]) ELSE objs[k][o]

\* restoreOne, one object after the other: Create without the status, which
\* is a write of its own.  A CRD being deleted refuses it.
Restore(p, o) ==
    LET k == kind[p]
    IN  /\ step[p] = "restore"
        /\ mem[p][o] \in {"bare", "full", "user"} /\ \A q \in Objects : mem[p][q] # "status"
        /\ crd[k] = "current"
        /\ objs' = [objs EXCEPT ![k][o] = Restored(p, k, o)]
        /\ mem' = [mem EXCEPT ![p][o] =
                     IF @ = "full" /\ objs[k][o] = "none" THEN "status" ELSE "none"]
        /\ UNCHANGED <<crd, step, kind, torn, edits>>

\* Its Status().Update, of the very object Create returned.
RestoreStatus(p, o) ==
    LET k == kind[p]
    IN  /\ step[p] = "restore"
        /\ mem[p][o] = "status"
        /\ objs[k][o] = p
        /\ objs' = [objs EXCEPT ![k][o] = "full"]
        /\ mem' = [mem EXCEPT ![p][o] = "none"]
        /\ UNCHANGED <<crd, step, kind, torn, edits>>

\* Everything listed is back: on to the next definition, or done.
NextKind(p) ==
    /\ step[p] = "restore"
    /\ mem[p] = Nothing
    /\ \/ /\ kind[p] < Kinds
          /\ kind' = [kind EXCEPT ![p] = @ + 1]
          /\ Goto(p, "migrate")
       \/ /\ kind[p] = Kinds
          /\ Goto(p, "done")
          /\ UNCHANGED kind
    /\ UNCHANGED <<crd, objs, mem, torn, edits>>

InstallStep(p) ==
    \/ Migrate(p) \/ Drain(p) \/ DeleteCRD(p) \/ WaitDeleted(p)
    \/ Apply(p) \/ Establish(p) \/ NextKind(p)
    \/ \E o \in Objects : Restore(p, o) \/ RestoreStatus(p, o)

\* What a poll waits for is not there, or a write is refused: the hook fails
\* with its timeout (establishTimeout, migrateDeleteTimeout) or the error.
Fails(p) ==
    LET c == crd[kind[p]]
    IN  \/ step[p] = "drain" /\ ~Served(kind[p])
        \/ step[p] = "wait" /\ c # "absent"
        \/ step[p] = "apply" /\ c = "cluster"
        \/ step[p] = "establish" /\ c \in {"pending", "cluster", "terminating", "leaving"}
        \/ step[p] = "restore" /\ \E o \in Objects :
              \/ mem[p][o] \in {"bare", "full", "user"} /\ c # "current"
              \/ mem[p][o] = "status" /\ objs[kind[p]][o] # p

\* The hook is over, and what it had in memory with it.
Drop(p) ==
    /\ Goto(p, "out")
    /\ kind' = [kind EXCEPT ![p] = 1]
    /\ mem' = [mem EXCEPT ![p] = Nothing]
-----------------------------------------------------------------------------
\* The apiserver removes the objects of a deleted CRD, then the CRD.
Cleanup(k) ==
    /\ Deleted(k) /\ Present(k) # {}
    /\ objs' = [objs EXCEPT ![k] = Nothing]
    /\ UNCHANGED <<crd, step, kind, mem, torn, edits>>

Vanish(k) ==
    /\ Deleted(k) /\ Present(k) = {}
    /\ crd' = [crd EXCEPT ![k] = "absent"]
    /\ UNCHANGED <<objs, step, kind, mem, torn, edits>>

\* It marks a new CRD Established.
Serve(k) ==
    /\ crd[k] = "pending"
    /\ crd' = [crd EXCEPT ![k] = "current"]
    /\ UNCHANGED <<objs, step, kind, mem, torn, edits>>

\* The listener is up while the hooks run: a user creates an object.
UserCreates(k, o) ==
    /\ Edit
    /\ crd[k] \in {"cluster", "stale", "current"} /\ objs[k][o] = "none"
    /\ objs' = [objs EXCEPT ![k][o] = "user"]
    /\ UNCHANGED <<crd, step, kind, mem, torn>>

ServerStep ==
    \E k \in 1 .. Kinds :
        \/ Cleanup(k) \/ Vanish(k) \/ Serve(k)
        \/ \E o \in Objects : UserCreates(k, o)
-----------------------------------------------------------------------------
\* Namespaced, and no server is left that found it otherwise and is about to
\* delete it.
Settled(k) ==
    Namespaced(k) /\ \A p \in Procs : kind[p] = k => step[p] \notin {"drain", "delete"}

\* A migration that every server is through with is not begun again, whichever
\* servers are killed, restarted or join later (MigrateScope), and what it has
\* brought over stays: in particular an object a user wrote meanwhile is not
\* replaced by the one listed before (restoreOne).
MigratedStays ==
    [][\A k \in 1 .. Kinds : Settled(k) =>
          /\ Settled(k)'
          /\ \A o \in Objects : objs[k][o] # "none" =>
                \/ objs'[k][o] = objs[k][o]
                \/ objs[k][o] \in Procs /\ objs'[k][o] = "full"]_installVars

\* MigrateScope is said to do nothing to a CRD that is Namespaced (migrate.go:45-47).
\* The code does not keep it: of two servers that start together the slower one
\* deletes, by name, what the other has migrated.
MigratedOnce == [][\A k \in 1 .. Kinds : Namespaced(k) => Namespaced(k)']_installVars

\* A startup that is interrupted in the middle of the restore is said to be safe
\* to run again (migrate.go:132-135): what it had not restored yet the next run
\* does.  The code does not keep it: the list was in the memory of the process.
InterruptedIsSafe ==
    \A p \in Procs : \A k \in 1 .. Kinds : \A o \in Objects :
        step[p] = "restore" /\ kind[p] = k /\ mem[p][o] = "full" ~> objs[k][o] # "none"
=============================================================================
