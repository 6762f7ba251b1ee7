--------------------------- MODULE ServerStartup ---------------------------
(***************************************************************************)
(* The life of kontinuum-server processes, pkg/cli/serve.go: load the      *)
(* configuration, start the local storage proxy, build and start the       *)
(* server, run the post-start hooks (CRDInstall), start the controllers;   *)
(* on a signal deregister, shut the server down, stop the proxy.           *)
(***************************************************************************)
EXTENDS CRDInstall

CONSTANTS
    Configs     \* configurations a process may be started with

\* A configuration: is an OIDC issuer set, is anonymous access opted in to, how
\* is the storage reached (through the hub, through Kine, or directly).
Config == [issuer : BOOLEAN, anonymous : BOOLEAN, storage : {"relay", "kine", "etcd"}]

ASSUME ConfigAssumption == Configs \subseteq Config

VARIABLES
    config,  \* process -> its configuration
    phase,   \* process -> where runServe is
    proxy    \* process -> the storage proxy it runs: "none", "relay" or "pool"

vars == <<installVars, config, phase, proxy>>

\* "hooks": listening, controllers not started; "deregistered": the signal came.
Phases == {"down", "load", "storage", "build", "hooks", "serving", "deregistered", "shutdown"}

TypeOK ==
    /\ InstallTypeOK
    /\ config \in [Procs -> Configs]
    /\ phase \in [Procs -> Phases]
    /\ proxy \in [Procs -> {"none", "relay", "pool"}]

Init ==
    /\ InstallInit
    /\ config \in [Procs -> Configs]
    /\ phase = [p \in Procs |-> "load"]
    /\ proxy = [p \in Procs |-> "none"]

Enter(p, ph) == phase' = [phase EXCEPT ![p] = ph]
-----------------------------------------------------------------------------
\* ValidateAuthentication: exactly one of the two has to be chosen.
ValidAuthentication(c) == c.issuer # c.anonymous

\* loadServeConfig and configureOIDC: an invalid configuration ends the process.
Load(p) ==
    /\ phase[p] = "load"
    /\ Enter(p, IF ValidAuthentication(config[p]) THEN "storage" ELSE "down")
    /\ UNCHANGED <<installVars, config, proxy>>

\* What stands between the server and its storage.
ProxyFor(c) ==
    CASE c.storage = "relay" -> "relay"
      [] c.storage = "kine" -> "pool"
      [] c.storage = "etcd" -> "none"

\* resolveStorageDSN: start the Relay or the LocalPool the DSN asks for.
ResolveStorage(p) ==
    /\ phase[p] = "storage"
    /\ proxy' = [proxy EXCEPT ![p] = ProxyFor(config[p])]
    /\ Enter(p, "build")
    /\ UNCHANGED <<installVars, config>>

\* libkapi.New and ListenAndServe: the listener is bound, the hooks begin.
Listen(p) ==
    /\ phase[p] = "build"
    /\ Enter(p, "hooks")
    /\ step' = [step EXCEPT ![p] = "migrate"]
    /\ UNCHANGED <<crd, objs, kind, mem, torn, edits, config, proxy>>

RunHooks(p) ==
    /\ phase[p] = "hooks"
    /\ InstallStep(p)
    /\ UNCHANGED <<config, phase, proxy>>

\* The hooks have returned: the controller manager starts.
StartControllers(p) ==
    /\ phase[p] = "hooks" /\ step[p] = "done"
    /\ Enter(p, "serving")
    /\ UNCHANGED <<installVars, config, proxy>>

\* The process ends, whatever it had in memory is lost, and it is started again.
Ends(p) ==
    /\ Enter(p, "load")
    /\ proxy' = [proxy EXCEPT ![p] = "none"]
    /\ Drop(p)
    /\ UNCHANGED <<crd, objs, torn, config>>

\* A hook fails: ListenAndServe returns its error and runServe ends, its
\* deferred relayCleanup included.
HookFails(p) ==
    /\ phase[p] = "hooks"
    /\ Fails(p)
    /\ Ends(p)
    /\ UNCHANGED edits

\* The process is killed, or its server fails.
Dies(p) ==
    /\ phase[p] \notin {"down", "load"}
    /\ Edit
    /\ Ends(p)

\* SIGTERM: Deregister runs before anything is torn down.
Signal(p) ==
    /\ phase[p] \in {"hooks", "serving"}
    /\ Edit
    /\ Enter(p, "deregistered")
    /\ UNCHANGED <<crd, objs, step, kind, mem, torn, config, proxy>>

\* shutdownServer: controllers, pre-shutdown hooks, listener, storage client.
Shutdown(p) ==
    /\ phase[p] = "deregistered"
    /\ Enter(p, "shutdown")
    /\ Drop(p)
    /\ UNCHANGED <<crd, objs, torn, edits, config, proxy>>

\* serveUntilShutdown has ListenAndServe's answer and returns; the deferred
\* relayCleanup stops the proxy.  The process is replaced by a new one.
Finish(p) ==
    /\ phase[p] = "shutdown"
    /\ Enter(p, "load")
    /\ proxy' = [proxy EXCEPT ![p] = "none"]
    /\ UNCHANGED <<installVars, config>>

ProcStep(p) ==
    \/ Load(p) \/ ResolveStorage(p) \/ Listen(p)
    \/ RunHooks(p) \/ HookFails(p) \/ StartControllers(p)
    \/ Shutdown(p) \/ Finish(p)

Next ==
    \/ \E p \in Procs : ProcStep(p) \/ Dies(p) \/ Signal(p)
    \/ ServerStep /\ UNCHANGED <<config, phase, proxy>>

Spec == Init /\ [][Next]_vars

\* Processes run and are started again when they end (Cloud Run, a
\* Deployment); the apiserver establishes and removes CRDs.
Fairness ==
    /\ \A p \in Procs : WF_vars(ProcStep(p))
    /\ \A k \in 1 .. Kinds :
          WF_vars((Cleanup(k) \/ Vanish(k) \/ Serve(k)) /\ UNCHANGED <<config, phase, proxy>>)

FairSpec == Spec /\ Fairness
-----------------------------------------------------------------------------
\* What a running server relies on is there.  Controllers only run over kinds
\* that are Namespaced and served (crd.go, Ensure), however many servers start,
\* crash and install them at once; only another server that deletes a migrated
\* CRD takes one away.  And the storage proxy is up from before the first request
\* until after the last, because deregistration and shutdown still write through
\* it (serve.go, runServe).
ServerHasItsParts ==
    \A p \in Procs :
        /\ phase[p] \in {"serving", "deregistered"} /\ step[p] = "done" =>
              \A k \in 1 .. Kinds : crd[k] = "current" \/ k \in torn
        /\ phase[p] \in {"hooks", "serving", "deregistered", "shutdown"} =>
              (proxy[p] = "none" <=> config[p].storage = "etcd")

\* A server that has decided on authentication comes up and stays up, however
\* often it is interrupted in the middle of installing or migrating its CRDs;
\* one that has not never listens.
ComesUp ==
    \A p \in Procs : <>[](IF ValidAuthentication(config[p])
                          THEN phase[p] = "serving" ELSE phase[p] = "down")
=============================================================================
