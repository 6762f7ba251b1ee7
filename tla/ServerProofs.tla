---------------------------- MODULE ServerProofs -----------------------------
(***************************************************************************)
(* Proofs about kontinuum-server processes: about ServerStartup, for any   *)
(* number of servers that start, end and install at once, of kinds and of  *)
(* objects users create meanwhile; then about Registry.                    *)
(***************************************************************************)
EXTENDS ServerStartup, Registry, TLAPS

\* The hooks run only while the server listens, and the controllers only after
\* them.
PhaseInv ==
    \A p \in Procs :
        /\ step[p] # "out" => phase[p] \in {"hooks", "serving", "deregistered"}
        /\ phase[p] = "serving" => step[p] = "done"

\* The storage proxy of a server that was built is the one its DSN asks for.
ProxyInv ==
    \A p \in Procs : phase[p] \in {"build", "hooks", "serving", "deregistered", "shutdown"} =>
        proxy[p] = ProxyFor(config[p])

\* Server p is through with kind k.
Past(p, k) ==
    \/ kind[p] = k /\ step[p] \in {"restore", "done"}
    \/ k < kind[p]

\* What a server is through with is installed, unless another has deleted it;
\* a server that is done is through with all.
CrdInv ==
    /\ \A k \in 1 .. Kinds : crd[k] = "leaving" => k \in torn
    /\ \A p \in Procs :
          /\ \A k \in 1 .. Kinds : Past(p, k) => crd[k] = "current" \/ k \in torn
          /\ step[p] = "done" => kind[p] = Kinds
          /\ step[p] = "out" => kind[p] = 1

IInv == TypeOK /\ PhaseInv /\ ProxyInv /\ CrdInv
-----------------------------------------------------------------------------

\* No object is stored.
LEMMA NothingType == Nothing \in [Objects -> Stored] /\ Nothing \in [Objects -> Listed]
BY DEF Nothing, Stored, Listed

\* What a DSN asks for is one of the proxies.
LEMMA ProxyType ==
    ASSUME NEW c \in Configs
    PROVE  /\ ProxyFor(c) \in {"none", "relay", "pool"}
           /\ ProxyFor(c) = "none" <=> c.storage = "etcd"
BY ConfigAssumption DEF Config, ProxyFor

LEMMA TypeInit == Init => TypeOK
<1> SUFFICES ASSUME Init PROVE TypeOK
  OBVIOUS
<1>1. crd \in [1 .. Kinds -> CRDs]
  BY DEF Init, InstallInit, CRDs
<1>2. objs \in [1 .. Kinds -> [Objects -> Stored]]
  BY NothingType DEF Init, InstallInit, Stored
<1>3. 1 \in 1 .. Kinds /\ 0 \in 0 .. MaxEdits
  BY InstallAssumption
<1> QED
  BY <1>1, <1>2, <1>3, NothingType DEF Init, InstallInit, TypeOK, InstallTypeOK, Steps, Phases

\* A process that ends leaves its hook and forgets what it had listed.
LEMMA DropType ==
    ASSUME TypeOK, NEW p \in Procs, Drop(p)
    PROVE  step' \in [Procs -> Steps] /\ kind' \in [Procs -> 1 .. Kinds]
           /\ mem' \in [Procs -> [Objects -> Listed]]
<1>1. 1 \in 1 .. Kinds
  BY InstallAssumption
<1> QED
  BY <1>1, NothingType DEF Drop, Goto, TypeOK, InstallTypeOK, Steps

\* A process enters one of the phases of runServe.
LEMMA EnterType ==
    ASSUME TypeOK, NEW p \in Procs, NEW ph \in Phases, Enter(p, ph)
    PROVE  phase' \in [Procs -> Phases]
BY DEF Enter, TypeOK

\* A hook goes on to one of its steps.
LEMMA GotoType ==
    ASSUME TypeOK, NEW p \in Procs, NEW s \in Steps, Goto(p, s) PROVE step' \in [Procs -> Steps]
BY DEF Goto, TypeOK, InstallTypeOK

\* Storing one object keeps the objects well typed, and so does the memory of
\* a hook.
LEMMA ObjType ==
    ASSUME TypeOK, NEW k \in 1 .. Kinds, NEW o \in Objects, NEW v \in Stored,
           objs' = [objs EXCEPT ![k][o] = v]
    PROVE  objs' \in [1 .. Kinds -> [Objects -> Stored]]
BY DEF TypeOK, InstallTypeOK

LEMMA MemType ==
    ASSUME TypeOK, NEW p \in Procs, NEW o \in Objects, NEW v \in Listed,
           mem' = [mem EXCEPT ![p][o] = v]
    PROVE  mem' \in [Procs -> [Objects -> Listed]]
BY DEF TypeOK, InstallTypeOK

\* The edits are counted up to their bound.
LEMMA EditType == ASSUME TypeOK, Edit PROVE edits' \in 0 .. MaxEdits
BY InstallAssumption DEF TypeOK, InstallTypeOK, Edit

\* Every request of a hook keeps the types.
LEMMA InstallType ==
    ASSUME TypeOK, NEW p \in Procs, InstallStep(p) PROVE InstallTypeOK'
<1> DEFINE k == kind[p]
<1>0. /\ k \in 1 .. Kinds /\ k \in Nat /\ Kinds \in Nat
      /\ crd[k] \in CRDs /\ objs[k] \in [Objects -> Stored]
      /\ \A o \in Objects : mem[p][o] \in Listed
  BY InstallAssumption DEF TypeOK, InstallTypeOK
<1>1. CASE Migrate(p) \/ WaitDeleted(p) \/ Establish(p)
  BY <1>1, GotoType DEF Migrate, WaitDeleted, Establish, TypeOK, InstallTypeOK, Steps
<1>2. CASE Drain(p)
  <2>1. [o \in Objects |-> IF objs[k][o] \in Procs THEN "bare" ELSE objs[k][o]] \in [Objects -> Listed]
    BY <1>0 DEF Stored, Listed
  <2> QED
    BY <1>2, <2>1, GotoType DEF Drain, TypeOK, InstallTypeOK, Steps
<1>3. CASE DeleteCRD(p)
  <2>1. crd' \in [1 .. Kinds -> CRDs] /\ torn' \subseteq 1 .. Kinds
    BY <1>0, <1>3 DEF DeleteCRD, CRDs, TypeOK, InstallTypeOK
  <2> QED
    BY <1>3, <2>1, GotoType DEF DeleteCRD, TypeOK, InstallTypeOK, Steps
<1>4. CASE Apply(p)
  <2>1. crd' \in [1 .. Kinds -> CRDs]
    BY <1>0, <1>4 DEF Apply, CRDs, TypeOK, InstallTypeOK
  <2> QED
    BY <1>4, <2>1, GotoType DEF Apply, TypeOK, InstallTypeOK, Steps
<1>5. CASE NextKind(p)
  <2>1. kind' \in [Procs -> 1 .. Kinds]
    <3>1. k < Kinds => k + 1 \in 1 .. Kinds
      BY <1>0
    <3> QED
      BY <3>1, <1>5 DEF NextKind, TypeOK, InstallTypeOK
  <2>2. step' \in [Procs -> Steps]
    BY <1>5, GotoType DEF NextKind, Steps
  <2> QED
    BY <1>5, <2>1, <2>2 DEF NextKind, TypeOK, InstallTypeOK
<1>6. ASSUME NEW o \in Objects, Restore(p, o) PROVE InstallTypeOK'
  <2>1. Restored(p, k, o) \in Stored
    BY <1>0 DEF Restored, Created, Stored
  <2>2. objs' \in [1 .. Kinds -> [Objects -> Stored]]
    BY <1>0, <1>6, <2>1, ObjType DEF Restore
  <2>3. mem' \in [Procs -> [Objects -> Listed]]
    BY <1>6 DEF Restore, TypeOK, InstallTypeOK, Listed
  <2> QED
    BY <1>6, <2>2, <2>3 DEF Restore, TypeOK, InstallTypeOK
<1>7. ASSUME NEW o \in Objects, RestoreStatus(p, o) PROVE InstallTypeOK'
  <2>1. "full" \in Stored /\ "none" \in Listed
    BY DEF Stored, Listed
  <2>2. objs' \in [1 .. Kinds -> [Objects -> Stored]]
    BY <1>0, <1>7, <2>1, ObjType DEF RestoreStatus
  <2>3. mem' \in [Procs -> [Objects -> Listed]]
    BY <1>7, <2>1, MemType DEF RestoreStatus
  <2> QED
    BY <1>7, <2>2, <2>3 DEF RestoreStatus, TypeOK, InstallTypeOK
<1> QED
  BY <1>1, <1>2, <1>3, <1>4, <1>5, <1>6, <1>7 DEF InstallStep

\* And so do the phases of runServe.
LEMMA ServerType == ASSUME TypeOK, ServerStep PROVE InstallTypeOK'
<1>1. PICK k \in 1 .. Kinds :
          Cleanup(k) \/ Vanish(k) \/ Serve(k) \/ \E o \in Objects : UserCreates(k, o)
  BY DEF ServerStep
<1>2. CASE Cleanup(k)
  BY <1>2, NothingType DEF Cleanup, TypeOK, InstallTypeOK
<1>3. CASE Vanish(k) \/ Serve(k)
  BY <1>3 DEF Vanish, Serve, CRDs, TypeOK, InstallTypeOK
<1>4. ASSUME NEW o \in Objects, UserCreates(k, o) PROVE InstallTypeOK'
  <2>1. "user" \in Stored
    BY DEF Stored
  <2> QED
    BY <1>4, <2>1, ObjType, EditType DEF UserCreates, TypeOK, InstallTypeOK
<1> QED
  BY <1>1, <1>2, <1>3, <1>4

\* Every step keeps the types.
LEMMA TypeNext == TypeOK /\ [Next]_vars => TypeOK'
<1> SUFFICES ASSUME TypeOK, [Next]_vars PROVE TypeOK'
  OBVIOUS
<1>p. \A ph \in {"down", "load", "storage", "build", "hooks", "serving", "deregistered", "shutdown"} :
          ph \in Phases
  BY DEF Phases
<1>1. ASSUME NEW p \in Procs, Load(p) PROVE TypeOK'
  BY <1>1, <1>p, EnterType DEF Load, TypeOK, InstallTypeOK, installVars
<1>2. ASSUME NEW p \in Procs, ResolveStorage(p) PROVE TypeOK'
  <2>1. ProxyFor(config[p]) \in {"none", "relay", "pool"}
    BY ProxyType DEF TypeOK
  <2> QED
    BY <1>2, <1>p, <2>1, EnterType DEF ResolveStorage, TypeOK, InstallTypeOK, installVars
<1>3. ASSUME NEW p \in Procs, Listen(p) PROVE TypeOK'
  BY <1>3, <1>p, EnterType DEF Listen, TypeOK, InstallTypeOK, Steps
<1>4. ASSUME NEW p \in Procs, RunHooks(p) PROVE TypeOK'
  BY <1>4, InstallType DEF RunHooks, TypeOK
<1>5. ASSUME NEW p \in Procs, Ends(p), edits' \in 0 .. MaxEdits PROVE TypeOK'
  BY <1>5, <1>p, EnterType, DropType DEF Ends, TypeOK, InstallTypeOK
<1>6. ASSUME NEW p \in Procs, HookFails(p) \/ Dies(p) PROVE TypeOK'
  BY <1>5, <1>6, EditType DEF HookFails, Dies, TypeOK, InstallTypeOK
<1>7. ASSUME NEW p \in Procs, StartControllers(p) \/ Finish(p) PROVE TypeOK'
  BY <1>7, <1>p, EnterType DEF StartControllers, Finish, TypeOK, InstallTypeOK, installVars
<1>8. ASSUME NEW p \in Procs, Signal(p) PROVE TypeOK'
  BY <1>8, <1>p, EnterType, EditType DEF Signal, TypeOK, InstallTypeOK
<1>9. ASSUME NEW p \in Procs, Shutdown(p) PROVE TypeOK'
  BY <1>9, <1>p, EnterType, DropType DEF Shutdown, TypeOK, InstallTypeOK
<1>10. CASE ServerStep /\ UNCHANGED <<config, phase, proxy>>
  BY <1>10, ServerType DEF TypeOK
<1>11. CASE UNCHANGED vars
  BY <1>11 DEF vars, installVars, TypeOK, InstallTypeOK
<1> QED
  BY <1>1, <1>2, <1>3, <1>4, <1>6, <1>7, <1>8, <1>9, <1>10, <1>11 DEF Next, ProcStep

\* Every reachable state of starting servers is well typed.
THEOREM Typing == Spec => []TypeOK
BY TypeInit, TypeNext, PTL DEF Spec
-----------------------------------------------------------------------------
\* What the server's phases promise holds for any number of servers.
LifeInv == TypeOK /\ PhaseInv /\ ProxyInv

LEMMA LifeInit == Init => LifeInv
BY TypeInit DEF Init, InstallInit, LifeInv, PhaseInv, ProxyInv

\* The phases of a process and the proxy it runs keep in step.
LEMMA LifeNext == LifeInv /\ [Next]_vars => LifeInv'
<1> SUFFICES ASSUME LifeInv, [Next]_vars PROVE PhaseInv' /\ ProxyInv'
  BY TypeNext DEF LifeInv
<1> USE DEF LifeInv, TypeOK, InstallTypeOK, PhaseInv, ProxyInv
<1>1. ASSUME NEW p \in Procs, Load(p) PROVE PhaseInv' /\ ProxyInv'
  BY <1>1 DEF Load, Enter, installVars
<1>2. ASSUME NEW p \in Procs, ResolveStorage(p) PROVE PhaseInv' /\ ProxyInv'
  BY <1>2 DEF ResolveStorage, Enter, installVars
<1>3. ASSUME NEW p \in Procs, Listen(p) PROVE PhaseInv' /\ ProxyInv'
  BY <1>3 DEF Listen, Enter
<1>4. ASSUME NEW p \in Procs, RunHooks(p) PROVE PhaseInv' /\ ProxyInv'
  <2>1. /\ phase[p] = "hooks" /\ UNCHANGED <<config, phase, proxy>>
        /\ \A q \in Procs : q # p => step'[q] = step[q]
    BY <1>4 DEF RunHooks, InstallStep, Migrate, Drain, DeleteCRD, WaitDeleted, Apply,
                Establish, NextKind, Restore, RestoreStatus, Goto
  <2> QED
    BY <2>1
<1>5. ASSUME NEW p \in Procs, Ends(p) PROVE PhaseInv' /\ ProxyInv'
  BY <1>5 DEF Ends, Enter, Drop, Goto
<1>6. ASSUME NEW p \in Procs, HookFails(p) \/ Dies(p) PROVE PhaseInv' /\ ProxyInv'
  BY <1>5, <1>6 DEF HookFails, Dies
<1>7. ASSUME NEW p \in Procs, StartControllers(p) \/ Finish(p) PROVE PhaseInv' /\ ProxyInv'
  BY <1>7, ZenonT(60) DEF StartControllers, Finish, Enter, installVars
<1>8. ASSUME NEW p \in Procs, Signal(p) PROVE PhaseInv' /\ ProxyInv'
  BY <1>8 DEF Signal, Enter
<1>9. ASSUME NEW p \in Procs, Shutdown(p) PROVE PhaseInv' /\ ProxyInv'
  BY <1>9 DEF Shutdown, Enter, Drop, Goto
<1>10. ASSUME ServerStep, UNCHANGED <<config, phase, proxy>> PROVE PhaseInv' /\ ProxyInv'
  <2>1. UNCHANGED step
    BY <1>10 DEF ServerStep, Cleanup, Vanish, Serve, UserCreates
  <2> QED
    BY <1>10, <2>1
<1>11. CASE UNCHANGED vars
  BY <1>11 DEF vars, installVars
<1> QED
  BY <1>1, <1>2, <1>3, <1>4, <1>6, <1>7, <1>8, <1>9, <1>10, <1>11 DEF Next, ProcStep
-----------------------------------------------------------------------------
LEMMA IInvInit == Init => IInv
<1> SUFFICES ASSUME Init PROVE CrdInv
  BY LifeInit DEF IInv, LifeInv
<1>1. \A k \in 1 .. Kinds : crd[k] # "leaving" /\ ~(k < 1)
  BY InstallAssumption DEF Init, InstallInit
<1>2. \A p \in Procs : step[p] = "out" /\ kind[p] = 1
  BY DEF Init, InstallInit
<1> QED
  BY <1>1, <1>2 DEF CrdInv, Past

\* A step of a hook keeps what its server, and the others, are through with.
LEMMA InstallKeeps ==
    ASSUME IInv, NEW p \in Procs, InstallStep(p) PROVE CrdInv'
<1> DEFINE k == kind[p]
<1>b. /\ k \in 1 .. Kinds /\ k \in Nat /\ Kinds \in Nat
      /\ crd \in [1 .. Kinds -> CRDs] /\ torn \subseteq 1 .. Kinds
      /\ step \in [Procs -> Steps] /\ kind \in [Procs -> 1 .. Kinds]
  BY InstallAssumption DEF IInv, TypeOK, InstallTypeOK
<1>c. CrdInv
  BY DEF IInv
<1>1. CASE Migrate(p) \/ Drain(p) \/ WaitDeleted(p) \/ Establish(p)
  <2>1. /\ UNCHANGED <<crd, kind, torn>>
        /\ \A q \in Procs : q # p => step'[q] = step[q]
        /\ step'[p] \notin {"out", "done"}
        /\ step'[p] = "restore" => crd[k] \in {"current", "leaving"}
    BY <1>1, <1>b DEF Migrate, Drain, WaitDeleted, Establish, Goto
  <2> QED
    BY <1>c, <2>1 DEF CrdInv, Past
<1>2. CASE DeleteCRD(p)
  <2>1. /\ \A j \in 1 .. Kinds : crd'[j] = "leaving" => j \in torn'
        /\ \A j \in 1 .. Kinds : crd'[j] = crd[j] \/ crd[j] # "current" \/ j \in torn'
        /\ torn \subseteq torn'
    BY <1>2, <1>b, <1>c DEF DeleteCRD, CrdInv, Namespaced
  <2>2. UNCHANGED kind /\ step'[p] = "wait" /\ \A q \in Procs : q # p => step'[q] = step[q]
    BY <1>2, <1>b DEF DeleteCRD, Goto
  <2> QED
    BY <1>c, <2>1, <2>2 DEF CrdInv, Past
<1>3. CASE Apply(p)
  <2>1. /\ \A j \in 1 .. Kinds : crd'[j] = "leaving" => crd[j] = "leaving"
        /\ \A j \in 1 .. Kinds : crd[j] = "current" => crd'[j] = "current"
    BY <1>3, <1>b DEF Apply
  <2>2. /\ UNCHANGED <<kind, torn>> /\ step'[p] = "establish"
        /\ \A q \in Procs : q # p => step'[q] = step[q]
    BY <1>3, <1>b DEF Apply, Goto
  <2> QED
    BY <1>c, <2>1, <2>2 DEF CrdInv, Past
<1>4. CASE NextKind(p)
  <2>1. /\ UNCHANGED <<crd, torn>> /\ step[p] = "restore"
        /\ \A q \in Procs : q # p => step'[q] = step[q] /\ kind'[q] = kind[q]
    BY <1>4, <1>b DEF NextKind, Goto
  <2>2. \/ kind'[p] = k + 1 /\ step'[p] = "migrate"
        \/ kind'[p] = k /\ k = Kinds /\ step'[p] = "done"
    BY <1>4, <1>b DEF NextKind, Goto
  <2>3. \A j \in 1 .. Kinds : j < k + 1 => j < k \/ j = k
    BY <1>b
  <2>4. \A j \in 1 .. Kinds : Past(p, j)' => Past(p, j)
    BY <2>1, <2>2, <2>3 DEF Past
  <2>5. \A q \in Procs : q # p => \A j \in 1 .. Kinds : Past(q, j)' => Past(q, j)
    BY <2>1 DEF Past
  <2> QED
    BY <1>c, <2>1, <2>2, <2>4, <2>5 DEF CrdInv
<1>5. ASSUME NEW o \in Objects, Restore(p, o) \/ RestoreStatus(p, o) PROVE CrdInv'
  <2>1. UNCHANGED <<crd, step, kind, torn>>
    BY <1>5 DEF Restore, RestoreStatus
  <2> QED
    BY <1>c, <2>1 DEF CrdInv, Past
<1> QED
  BY <1>1, <1>2, <1>3, <1>4, <1>5 DEF InstallStep

\* A hook that ends is through with nothing.
LEMMA DropKeeps ==
    ASSUME IInv, NEW p \in Procs, Drop(p), UNCHANGED <<crd, torn>> PROVE CrdInv'
<1>1. /\ step'[p] = "out" /\ kind'[p] = 1
      /\ \A q \in Procs : q # p => step'[q] = step[q] /\ kind'[q] = kind[q]
  BY DEF Drop, Goto, IInv, TypeOK, InstallTypeOK
<1>2. \A k \in 1 .. Kinds : ~(k < 1)
  BY InstallAssumption
<1>3. \A q \in Procs : \A k \in 1 .. Kinds : Past(q, k)' => Past(q, k)
  BY <1>1, <1>2 DEF Past
<1> QED
  BY <1>1, <1>3 DEF IInv, CrdInv

\* The apiserver and the users meanwhile.
LEMMA ServerKeeps == ASSUME IInv, ServerStep PROVE CrdInv'
<1>1. /\ UNCHANGED <<step, kind, torn>>
      /\ \A k \in 1 .. Kinds : crd'[k] = "leaving" => crd[k] = "leaving"
      /\ \A k \in 1 .. Kinds : crd[k] = "current" => crd'[k] = "current"
  BY DEF ServerStep, Cleanup, Vanish, Serve, UserCreates, Deleted, IInv, TypeOK, InstallTypeOK
<1> QED
  BY <1>1 DEF IInv, CrdInv, Past

\* Outside its hooks a process touches the installation when it starts to
\* listen and when it ends.
LEMMA IInvNext == IInv /\ [Next]_vars => IInv'
<1> SUFFICES ASSUME IInv, [Next]_vars PROVE CrdInv'
  BY LifeNext DEF IInv, LifeInv
<1>1. ASSUME UNCHANGED <<crd, step, kind, torn>> PROVE CrdInv'
  BY <1>1 DEF IInv, CrdInv, Past
<1>2. ASSUME NEW p \in Procs, Listen(p) PROVE CrdInv'
  <2>1. /\ step'[p] = "migrate" /\ UNCHANGED <<crd, kind, torn>>
        /\ \A q \in Procs : q # p => step'[q] = step[q]
    BY <1>2 DEF Listen, IInv, TypeOK, InstallTypeOK
  <2> QED
    BY <2>1 DEF IInv, CrdInv, Past
<1>3. ASSUME NEW p \in Procs, ProcStep(p) \/ Dies(p) \/ Signal(p) PROVE CrdInv'
  <2>1. CASE RunHooks(p)
    BY <2>1, InstallKeeps DEF RunHooks
  <2>2. CASE HookFails(p) \/ Dies(p) \/ Shutdown(p)
    BY <2>2, DropKeeps DEF HookFails, Dies, Shutdown, Ends
  <2>3. CASE Load(p) \/ ResolveStorage(p) \/ StartControllers(p) \/ Finish(p) \/ Signal(p)
    BY <2>3, <1>1 DEF Load, ResolveStorage, StartControllers, Finish, Signal, installVars
  <2> QED
    BY <1>2, <1>3, <2>1, <2>2, <2>3 DEF ProcStep
<1>4. CASE ServerStep
  BY <1>4, ServerKeeps
<1>5. CASE UNCHANGED vars
  BY <1>1, <1>5 DEF vars, installVars
<1> QED
  BY <1>3, <1>4, <1>5 DEF Next

LEMMA IInvAlways == Spec => []IInv
BY IInvInit, IInvNext, PTL DEF Spec

\* However many servers start, are killed and install at once: controllers run
\* only over Namespaced CRDs that are served, unless another server has deleted
\* one, and the storage proxy is up from the first hook to the end of the
\* shutdown.
THEOREM PartsAreThere == Spec => []ServerHasItsParts
<1>1. ASSUME IInv PROVE ServerHasItsParts
  <2> SUFFICES ASSUME NEW p \in Procs
               PROVE  /\ step[p] = "done" => \A k \in 1 .. Kinds : crd[k] = "current" \/ k \in torn
                      /\ phase[p] \in {"hooks", "serving", "deregistered", "shutdown"} =>
                           (proxy[p] = "none" <=> config[p].storage = "etcd")
    BY DEF ServerHasItsParts
  <2>1. ASSUME step[p] = "done" PROVE \A k \in 1 .. Kinds : Past(p, k)
    <3>1. kind[p] = Kinds
      BY <1>1, <2>1 DEF IInv, CrdInv
    <3>2. \A k \in 1 .. Kinds : k < Kinds \/ k = Kinds
      BY InstallAssumption
    <3> QED
      BY <2>1, <3>1, <3>2 DEF Past
  <2>2. proxy[p] = ProxyFor(config[p]) => (proxy[p] = "none" <=> config[p].storage = "etcd")
    BY <1>1, ProxyType DEF IInv, TypeOK
  <2> QED
    BY <1>1, <2>1, <2>2 DEF IInv, CrdInv, ProxyInv
<1> QED
  BY <1>1, IInvAlways, PTL

\* Once no server is about to delete it, a Namespaced CRD is not migrated again.
LEMMA CrdSteps ==
    ASSUME TypeOK, [Next]_vars, NEW k \in 1 .. Kinds, Settled(k) PROVE Settled(k)'
<1>0. /\ crd \in [1 .. Kinds -> CRDs] /\ step \in [Procs -> Steps] /\ kind \in [Procs -> 1 .. Kinds]
      /\ Namespaced(k) /\ \A p \in Procs : kind[p] = k => step[p] \notin {"drain", "delete"}
  BY DEF TypeOK, InstallTypeOK, Settled
<1>g. ASSUME Namespaced(k)',
             \A p \in Procs : \/ kind'[p] = kind[p] /\ step'[p] = step[p]
                              \/ kind'[p] = k => step'[p] \notin {"drain", "delete"}
      PROVE  Settled(k)'
  BY <1>0, <1>g DEF Settled
<1>n. UNCHANGED crd => Namespaced(k)'
  BY <1>0 DEF Namespaced
<1>1. ASSUME NEW p \in Procs, InstallStep(p) PROVE Settled(k)'
  <2>1. \A q \in Procs : q # p => kind'[q] = kind[q] /\ step'[q] = step[q]
    BY <1>0, <1>1 DEF InstallStep, Migrate, Drain, DeleteCRD, WaitDeleted, Apply, Establish,
                      NextKind, Restore, RestoreStatus, Goto
  <2>2. CASE Migrate(p)
    <3>1. kind[p] = k => step'[p] = "apply"
      BY <1>0, <2>2 DEF Migrate, MustMigrate, Namespaced, Goto
    <3> QED
      BY <1>g, <1>n, <2>1, <2>2, <3>1 DEF Migrate
  <2>3. CASE Drain(p) \/ DeleteCRD(p)
    <3>1. kind[p] # k /\ UNCHANGED kind
      BY <1>0, <2>3 DEF Drain, DeleteCRD
    <3>2. crd'[k] = crd[k]
      BY <1>0, <2>3, <3>1 DEF Drain, DeleteCRD
    <3> QED
      BY <1>0, <1>g, <2>1, <3>1, <3>2 DEF Namespaced
  <2>4. CASE Apply(p)
    <3>1. Namespaced(k)'
      <4>1. crd'[k] = IF k = kind[p] THEN CASE crd[k] = "absent" -> "pending"
                                            [] crd[k] = "stale" -> "current"
                                            [] OTHER -> crd[k]
                                     ELSE crd[k]
        BY <1>0, <2>4 DEF Apply
      <4>2. crd'[k] \in {"stale", "pending", "current"}
        BY <1>0, <4>1 DEF Namespaced
      <4> QED
        BY <4>2 DEF Namespaced
    <3>2. step'[p] = "establish"
      BY <1>0, <2>4 DEF Apply, Goto
    <3> QED
      BY <1>g, <2>1, <3>1, <3>2
  <2>5. CASE WaitDeleted(p) \/ Establish(p) \/ NextKind(p)
    <3>1. step'[p] \notin {"drain", "delete"} /\ UNCHANGED crd
      BY <1>0, <2>5 DEF WaitDeleted, Establish, NextKind, Goto
    <3> QED
      BY <1>g, <1>n, <2>1, <3>1
  <2>6. CASE \E o \in Objects : Restore(p, o) \/ RestoreStatus(p, o)
    <3>1. UNCHANGED <<crd, step, kind>>
      BY <2>6 DEF Restore, RestoreStatus
    <3> QED
      BY <1>g, <1>n, <3>1
  <2> QED
    BY <1>1, <2>2, <2>3, <2>4, <2>5, <2>6 DEF InstallStep
<1>2. ASSUME NEW p \in Procs, Drop(p), UNCHANGED crd PROVE Settled(k)'
  <2>1. step'[p] = "out" /\ \A q \in Procs : q # p => kind'[q] = kind[q] /\ step'[q] = step[q]
    BY <1>0, <1>2 DEF Drop, Goto
  <2> QED
    BY <1>g, <1>n, <1>2, <2>1
<1>3. ASSUME NEW p \in Procs, Listen(p) PROVE Settled(k)'
  <2>1. /\ UNCHANGED <<crd, kind>> /\ step'[p] = "migrate"
        /\ \A q \in Procs : q # p => step'[q] = step[q]
    BY <1>0, <1>3 DEF Listen
  <2> QED
    BY <1>g, <1>n, <2>1
<1>4. UNCHANGED <<crd, step, kind>> => Settled(k)'
  BY <1>g, <1>n
<1>5. CASE ServerStep
  <2>1. UNCHANGED <<step, kind>> /\ Namespaced(k)'
    BY <1>0, <1>5 DEF ServerStep, Cleanup, Vanish, Serve, UserCreates, Deleted, Namespaced
  <2> QED
    BY <1>g, <2>1
<1>6. ASSUME NEW p \in Procs, ProcStep(p) \/ Dies(p) \/ Signal(p) PROVE Settled(k)'
  <2>1. CASE RunHooks(p)
    BY <1>1, <2>1 DEF RunHooks
  <2>2. CASE HookFails(p) \/ Dies(p) \/ Shutdown(p)
    BY <1>2, <2>2 DEF HookFails, Dies, Shutdown, Ends
  <2>3. CASE Load(p) \/ ResolveStorage(p) \/ StartControllers(p) \/ Finish(p) \/ Signal(p)
    BY <1>4, <2>3 DEF Load, ResolveStorage, StartControllers, Finish, Signal, installVars
  <2> QED
    BY <1>3, <1>6, <2>1, <2>2, <2>3 DEF ProcStep
<1> QED
  BY <1>4, <1>5, <1>6 DEF Next, vars, installVars

\* Nor is an object of it taken away: the only change is that a restored one
\* gets its status.
LEMMA ObjSteps ==
    ASSUME TypeOK, [Next]_vars, NEW k \in 1 .. Kinds, Settled(k),
           NEW o \in Objects, objs[k][o] # "none"
    PROVE  objs'[k][o] = objs[k][o] \/ (objs[k][o] \in Procs /\ objs'[k][o] = "full")
<1> DEFINE G == objs'[k][o] = objs[k][o] \/ (objs[k][o] \in Procs /\ objs'[k][o] = "full")
<1>0. objs \in [1 .. Kinds -> [Objects -> Stored]] /\ kind \in [Procs -> 1 .. Kinds]
  BY DEF TypeOK, InstallTypeOK
<1>1. UNCHANGED objs => G
  OBVIOUS
<1>2. ASSUME NEW p \in Procs, NEW q \in Objects, Restore(p, q) PROVE G
  <2>1. objs' = [objs EXCEPT ![kind[p]][q] = Restored(p, kind[p], q)]
    BY <1>2 DEF Restore
  <2> QED
    BY <1>0, <2>1 DEF Restored
<1>3. ASSUME NEW p \in Procs, NEW q \in Objects, RestoreStatus(p, q) PROVE G
  BY <1>0, <1>3 DEF RestoreStatus
<1>4. ASSUME NEW p \in Procs, InstallStep(p) PROVE G
  BY <1>1, <1>2, <1>3, <1>4 DEF InstallStep, Migrate, Drain, DeleteCRD, WaitDeleted, Apply,
                                Establish, NextKind
<1>5. ASSUME NEW j \in 1 .. Kinds, Cleanup(j) PROVE G
  BY <1>0, <1>5 DEF Cleanup, Deleted, Settled, Namespaced
<1>6. ASSUME NEW j \in 1 .. Kinds, NEW q \in Objects, UserCreates(j, q) PROVE G
  BY <1>0, <1>6 DEF UserCreates
<1>7. CASE ServerStep
  BY <1>1, <1>5, <1>6, <1>7 DEF ServerStep, Vanish, Serve
<1>8. ASSUME NEW p \in Procs, ProcStep(p) \/ Dies(p) \/ Signal(p), ~RunHooks(p) PROVE UNCHANGED objs
  BY <1>8 DEF ProcStep, Load, ResolveStorage, Listen, HookFails, StartControllers, Shutdown,
              Finish, Dies, Signal, Ends, installVars
<1> QED
  BY <1>1, <1>4, <1>7, <1>8 DEF Next, RunHooks, vars, installVars

\* For any number of servers, in every order of crashes, restarts and user
\* writes: a migration that all of them are through with is not begun again, and
\* what it brought over stays.
THEOREM MigratedForGood == Spec => MigratedStays
<1> DEFINE Step == \A k \in 1 .. Kinds : Settled(k) =>
                      /\ Settled(k)'
                      /\ \A o \in Objects : objs[k][o] # "none" =>
                            \/ objs'[k][o] = objs[k][o]
                            \/ objs[k][o] \in Procs /\ objs'[k][o] = "full"
<1>1. TypeOK /\ [Next]_vars => [Step]_installVars
  BY CrdSteps, ObjSteps
<1>2. Spec => [][Step]_installVars
  BY <1>1, Typing, PTL DEF Spec
<1> QED
  BY <1>2 DEF MigratedStays
-----------------------------------------------------------------------------
(***************************************************************************)
(* The registry a server keeps itself in once it serves: Registry, for any *)
(* number of processes, names, hubs and faults.                            *)
(***************************************************************************)

\* Only a process that registers a name that is followed beats, stops or heals,
\* and it heals its own object.
OwnInv ==
    \A p \in Processes :
        /\ pc[p] # "idle" => Registers(p)
        /\ run[p] = "stopping" => Registers(p)
        /\ \A n \in Names : work[p] = <<"heal", n>> => NameOf[p] = n

\* The mutex: a process that is about to create its object has not begun to stop.
CreateInv == \A p \in Processes : pc[p] = "create" => run[p] = "up"

\* A copy that a status update would not be refused for is one of an object that
\* is there.
CopyInv == \A p \in fresh : Registers(p) => Exists(entry[NameOf[p]])

RegistryInv == RegistryTypeOK /\ OwnInv /\ CreateInv /\ CopyInv

\* Ages up to Absent, the age of a fresh and of a missing object among them.
LEMMA AgeFact ==
    /\ Absent \in Nat /\ 0 \in 0 .. Absent /\ Absent \in 0 .. Absent
    /\ Exists(0) /\ ~Exists(Absent)
    /\ \A e \in 0 .. Absent :
          /\ Older(e) \in 0 .. Absent
          /\ Exists(e) => Exists(Older(e))
          /\ ~Exists(e) => ~Exists(Older(e))
          /\ \A p \in Processes : Cached(p, e) \in 0 .. Absent
  <1>1. StaleThreshold \in Nat /\ StaleThreshold > 0
    BY RegistryAssumption
  <1> QED BY <1>1 DEF Absent, Exists, Older, Cached

\* Faults are counted up to their bound.
LEMMA FaultType ==
    ASSUME RegistryTypeOK, Fault
    PROVE  faults' \in 0 .. MaxFaults
  <1>1. MaxFaults \in Nat /\ faults \in 0 .. MaxFaults
    BY RegistryAssumption DEF RegistryTypeOK
  <1> QED BY <1>1 DEF Fault

\* A write, with its types; the copies that stay current are of objects that are there.
LEMMA PutFact ==
    ASSUME RegistryTypeOK, CopyInv,
           NEW n \in Names, NEW e \in 0 .. Absent, NEW writer \in SUBSET Servers(n),
           Put(n, e, writer), writer # {} => Exists(e)
    PROVE  /\ entry' \in [Names -> 0 .. Absent]
           /\ fresh' \subseteq Processes
           /\ behind' \in [Processes -> SUBSET Names]
           /\ entry'[n] = e /\ \A m \in Names \ {n} : entry'[m] = entry[m]
           /\ CopyInv'
  <1>1. /\ entry' = [entry EXCEPT ![n] = e]
        /\ fresh' = (fresh \ Servers(n)) \cup writer
        /\ behind' = [p \in Processes |-> IF run[p] = "down" THEN {} ELSE behind[p] \cup {n}]
    BY DEF Put
  <1>2. Servers(n) \subseteq Processes /\ \A p \in Processes : p \in Servers(n) <=> NameOf[p] = n
    BY DEF Servers
  <1>3. entry \in [Names -> 0 .. Absent] /\ fresh \subseteq Processes /\ behind \in [Processes -> SUBSET Names]
    BY DEF RegistryTypeOK
  <1>4. entry'[n] = e /\ \A m \in Names \ {n} : entry'[m] = entry[m]
    BY <1>1, <1>3
  <1>5. ASSUME NEW p \in fresh', Registers(p)
        PROVE  Exists(entry'[NameOf[p]])
    <2>1. CASE p \in writer
      BY <1>2, <1>4, <2>1
    <2>2. CASE p \in fresh /\ p \notin Servers(n)
      <3>1. NameOf[p] \in Names \ {n}
        BY <1>2, <1>3, <1>5, <2>2 DEF Registers
      <3> QED BY <1>4, <1>5, <2>2, <3>1 DEF CopyInv
    <2> QED BY <1>1, <1>5, <2>1, <2>2
  <1>6. CopyInv'
    BY <1>5 DEF CopyInv, Registers, Exists, Absent
  <1>7. entry' \in [Names -> 0 .. Absent] /\ fresh' \subseteq Processes
    BY <1>1, <1>2, <1>3
  <1>8. behind' \in [Processes -> SUBSET Names]
    BY <1>1, <1>3
  <1> QED BY <1>4, <1>6, <1>7, <1>8

\* What a step may do to an object: leave it, or delete it, or let one of its
\* servers that are up create it.
NotRevived(n) == Exists(entry[n]) \/ ~Exists(entry'[n]) \/ Up(n) # {}

\* The part of RegistryTypeOK a write of an object touches.
StoreType ==
    /\ entry \in [Names -> 0 .. Absent]
    /\ fresh \subseteq Processes
    /\ behind \in [Processes -> SUBSET Names]

\* A step that writes no object.
LEMMA StoreStill ==
    ASSUME RegistryTypeOK, CopyInv, NoWrite
    PROVE  StoreType' /\ CopyInv' /\ \A n \in Names : NotRevived(n)
BY DEF RegistryTypeOK, CopyInv, NoWrite, StoreType, NotRevived, Registers, Exists, Absent

\* A delete takes the object and every current copy of it.
LEMMA DeleteFact ==
    ASSUME RegistryTypeOK, CopyInv, NEW n \in Names, Delete(n)
    PROVE  StoreType' /\ CopyInv' /\ \A m \in Names : NotRevived(m)
  <1>1. CASE Put(n, Absent, {})
    BY <1>1, PutFact, AgeFact DEF NotRevived, StoreType, Absent
  <1>2. CASE NoWrite
    BY <1>2, StoreStill
  <1> QED BY <1>1, <1>2 DEF Delete

\* Every step keeps the invariant and revives nothing.
LEMMA RegistryInvNext ==
    ASSUME RegistryInv, [RegistryNext]_registryVars
    PROVE  RegistryInv' /\ \A n \in Names : NotRevived(n)
  <1> DEFINE Goal == RegistryInv' /\ \A n \in Names : NotRevived(n)
  <1>0. RegistryTypeOK /\ OwnInv /\ CreateInv /\ CopyInv
    BY DEF RegistryInv
  <1>t. /\ secret \subseteq Names /\ run \in [Processes -> {"up", "stopping", "down"}]
        /\ pc \in [Processes -> PCs] /\ seen \in [Processes -> [Names -> 0 .. Absent]]
        /\ queue \in [Processes -> SUBSET Names] /\ work \in [Processes -> Works]
        /\ beaten \subseteq Processes /\ faults \in 0 .. MaxFaults
        /\ StoreType
    BY <1>0 DEF RegistryTypeOK, StoreType
  <1>f. Fault => faults' \in 0 .. MaxFaults
    BY <1>0, FaultType
  <1>n. NoWrite => StoreType' /\ CopyInv' /\ \A n \in Names : NotRevived(n)
    BY <1>0, StoreStill
  <1>d. \A n \in Names : Delete(n) => StoreType' /\ CopyInv' /\ \A m \in Names : NotRevived(m)
    BY <1>0, DeleteFact
  <1>g. ASSUME StoreType', CopyInv', \A n \in Names : NotRevived(n),
               secret' \subseteq Names, run' \in [Processes -> {"up", "stopping", "down"}],
               pc' \in [Processes -> PCs], seen' \in [Processes -> [Names -> 0 .. Absent]],
               queue' \in [Processes -> SUBSET Names], work' \in [Processes -> Works],
               beaten' \subseteq Processes, faults' \in 0 .. MaxFaults, OwnInv', CreateInv'
        PROVE  Goal
    BY <1>g DEF RegistryInv, RegistryTypeOK, StoreType, PCs, Works, Absent, Idle
  <1> HIDE DEF Goal
  <1>1. ASSUME NEW p \in Processes, Beat(p)
        PROVE  Goal
    <2> DEFINE n == NameOf[p]
    <2>1. n \in Names /\ UNCHANGED <<entry, secret, run, seen, behind, queue, work, faults>>
      BY <1>1 DEF Beat, Registers
    <2>2. beaten' \subseteq Processes
      BY <1>t, <1>1 DEF Beat
    <2>3. \/ fresh' = fresh
          \/ Exists(entry[n]) /\ fresh' = fresh \cup {p}
      BY <1>1 DEF Beat
    <2>4. StoreType' /\ CopyInv'
      BY <1>0, <1>t, <2>1, <2>3 DEF StoreType, CopyInv, Registers, Exists, Absent
    <2>5. \A m \in Names : NotRevived(m)
      BY <2>1 DEF NotRevived
    <2>6. \/ pc' = [pc EXCEPT ![p] = "secret"]
          \/ pc' = [pc EXCEPT ![p] = "create"] /\ run[p] = "up"
          \/ pc' = [pc EXCEPT ![p] = pc[p]]
      BY <1>1 DEF Beat, Reregisters
    <2>7. pc' \in [Processes -> PCs]
      BY <1>t, <2>6 DEF PCs
    <2>8. OwnInv' /\ CreateInv'
      BY <1>0, <1>t, <2>1, <2>6 DEF OwnInv, CreateInv, Registers
    <2> QED BY <1>t, <1>g, <2>1, <2>2, <2>4, <2>5, <2>7, <2>8
  <1>2. ASSUME NEW p \in Processes, Create(p)
        PROVE  Goal
    <2> DEFINE n == NameOf[p]
    <2>1. UNCHANGED <<secret, run, seen, queue, work, beaten, faults>>
      BY <1>2 DEF Create
    <2>2. n \in Names /\ run[p] = "up" /\ p \in Up(n) /\ p \in Servers(n)
      BY <1>0, <1>2 DEF Create, OwnInv, CreateInv, Registers, Up, Servers
    <2>3. StoreType' /\ CopyInv' /\ \A m \in Names : NotRevived(m)
      <3>1. CASE Put(n, 0, {p})
        <4>1. /\ entry' \in [Names -> 0 .. Absent] /\ fresh' \subseteq Processes
              /\ behind' \in [Processes -> SUBSET Names] /\ CopyInv'
              /\ \A m \in Names \ {n} : entry'[m] = entry[m]
          BY <1>0, <2>2, <3>1, PutFact, AgeFact
        <4> QED BY <2>2, <4>1 DEF StoreType, NotRevived, Absent
      <3>2. CASE Exists(entry[n]) /\ fresh' = fresh \cup {p} /\ UNCHANGED <<entry, behind>>
        BY <1>0, <1>t, <3>2 DEF StoreType, CopyInv, NotRevived, Registers, Exists, Absent
      <3> QED BY <1>2, <3>1, <3>2 DEF Create
    <2>4. pc' = [pc EXCEPT ![p] = "secret"]
      BY <1>2 DEF Create
    <2>5. pc' \in [Processes -> PCs] /\ OwnInv' /\ CreateInv'
      BY <1>0, <1>t, <2>1, <2>2, <2>4 DEF PCs, OwnInv, CreateInv, Registers
    <2> QED BY <1>t, <1>g, <2>1, <2>3, <2>5
  <1>3. ASSUME NEW p \in Processes, EnsureSecret(p)
        PROVE  Goal
    <2>1. UNCHANGED <<entry, run, fresh, seen, behind, queue, work, beaten, faults>>
      BY <1>3 DEF EnsureSecret
    <2>2. NoWrite /\ NameOf[p] \in Names
      BY <1>0, <1>3, <2>1 DEF EnsureSecret, NoWrite, OwnInv, Registers
    <2>3. secret' \subseteq Names /\ pc' = [pc EXCEPT ![p] = "status"]
      BY <1>t, <1>3, <2>2 DEF EnsureSecret
    <2>4. pc' \in [Processes -> PCs] /\ OwnInv' /\ CreateInv'
      BY <1>0, <1>t, <2>1, <2>2, <2>3 DEF PCs, OwnInv, CreateInv, Registers
    <2> QED BY <1>n, <1>t, <1>g, <2>1, <2>2, <2>3, <2>4
  <1>4. ASSUME NEW p \in Processes, UpdateStatus(p)
        PROVE  Goal
    <2> DEFINE n == NameOf[p]
    <2>1. UNCHANGED <<secret, run, seen, queue, work, beaten, faults>> /\ pc' = [pc EXCEPT ![p] = "idle"]
      BY <1>4 DEF UpdateStatus
    <2>2. n \in Names /\ (p \in fresh => Exists(entry[n]))
      BY <1>0, <1>4 DEF UpdateStatus, OwnInv, CopyInv, Registers
    <2>3. StoreType' /\ CopyInv' /\ \A m \in Names : NotRevived(m)
      <3>1. CASE p \in fresh /\ Put(n, 0, {})
        <4>1. /\ entry' \in [Names -> 0 .. Absent] /\ fresh' \subseteq Processes
              /\ behind' \in [Processes -> SUBSET Names] /\ CopyInv'
              /\ \A m \in Names \ {n} : entry'[m] = entry[m]
          BY <1>0, <2>2, <3>1, PutFact, AgeFact
        <4> QED BY <2>2, <3>1, <4>1 DEF StoreType, NotRevived, Absent
      <3> QED BY <1>n, <1>4, <3>1 DEF UpdateStatus
    <2>4. pc' \in [Processes -> PCs] /\ OwnInv' /\ CreateInv'
      BY <1>0, <1>t, <2>1 DEF PCs, OwnInv, CreateInv, Registers
    <2> QED BY <1>t, <1>g, <2>1, <2>3, <2>4
  <1>5. ASSUME NEW p \in Processes, BeatFails(p)
        PROVE  Goal
    <2>1. /\ UNCHANGED <<entry, secret, run, seen, behind, queue, work, beaten>>
          /\ pc' = [pc EXCEPT ![p] = "idle"] /\ fresh' = fresh \ {p} /\ Fault
      BY <1>5 DEF BeatFails
    <2>2. StoreType' /\ CopyInv' /\ \A m \in Names : NotRevived(m)
      BY <1>0, <1>t, <2>1 DEF StoreType, CopyInv, NotRevived, Registers, Exists, Absent
    <2>3. pc' \in [Processes -> PCs] /\ OwnInv' /\ CreateInv'
      BY <1>0, <1>t, <2>1 DEF PCs, OwnInv, CreateInv, Registers
    <2> QED BY <1>f, <1>t, <1>g, <2>1, <2>2, <2>3
  <1>6. ASSUME NEW p \in Processes, Deregister(p)
        PROVE  Goal
    <2>1. /\ UNCHANGED <<secret, pc, seen, queue, work, beaten>> /\ Fault
          /\ run' = [run EXCEPT ![p] = "stopping"] /\ pc[p] = "idle" /\ NameOf[p] \in Names
      BY <1>6 DEF Deregister, Registers
    <2>2. StoreType' /\ CopyInv' /\ \A m \in Names : NotRevived(m)
      BY <1>d, <1>n, <1>6, <2>1 DEF Deregister
    <2>3. run' \in [Processes -> {"up", "stopping", "down"}] /\ OwnInv' /\ CreateInv'
      BY <1>0, <1>t, <2>1 DEF OwnInv, CreateInv, Registers
    <2> QED BY <1>f, <1>t, <1>g, <2>1, <2>2, <2>3
  <1>7. ASSUME NEW p \in Processes, Exit(p)
        PROVE  Goal
    <2>1. /\ UNCHANGED <<secret, pc, seen, beaten, faults>>
          /\ run' = [run EXCEPT ![p] = "down"] /\ pc[p] = "idle"
          /\ work' = [work EXCEPT ![p] = Idle] /\ queue' = [queue EXCEPT ![p] = {}]
      BY <1>7 DEF Exit
    <2>2. NameOf[p] \in Names
      BY <1>0, <1>7 DEF Exit, OwnInv, Registers
    <2>3. StoreType' /\ CopyInv' /\ \A m \in Names : NotRevived(m)
      BY <1>d, <1>n, <1>7, <2>2 DEF Exit
    <2>4. /\ run' \in [Processes -> {"up", "stopping", "down"}] /\ work' \in [Processes -> Works]
          /\ queue' \in [Processes -> SUBSET Names]
      BY <1>t, <2>1 DEF Works
    <2>5. OwnInv' /\ CreateInv'
      BY <1>0, <1>t, <2>1 DEF OwnInv, CreateInv, Registers, Idle
    <2> QED BY <1>t, <1>g, <2>1, <2>3, <2>4, <2>5
  <1>8. ASSUME NEW p \in Processes, Crash(p)
        PROVE  Goal
    <2>1. /\ UNCHANGED <<entry, secret, seen, beaten>> /\ Fault
          /\ run' = [run EXCEPT ![p] = "down"] /\ pc' = [pc EXCEPT ![p] = "idle"]
          /\ work' = [work EXCEPT ![p] = Idle] /\ queue' = [queue EXCEPT ![p] = {}]
          /\ fresh' = fresh \ {p} /\ behind' = [behind EXCEPT ![p] = {}]
      BY <1>8 DEF Crash
    <2>2. StoreType' /\ CopyInv' /\ \A m \in Names : NotRevived(m)
      BY <1>0, <1>t, <2>1 DEF StoreType, CopyInv, NotRevived, Registers, Exists, Absent
    <2>3. /\ run' \in [Processes -> {"up", "stopping", "down"}] /\ work' \in [Processes -> Works]
          /\ queue' \in [Processes -> SUBSET Names] /\ pc' \in [Processes -> PCs]
      BY <1>t, <2>1 DEF Works, PCs
    <2>4. OwnInv' /\ CreateInv'
      BY <1>0, <1>t, <2>1 DEF OwnInv, CreateInv, Registers, Idle
    <2> QED BY <1>f, <1>t, <1>g, <2>1, <2>2, <2>3, <2>4
  <1>9. ASSUME NEW p \in Processes, Boot(p)
        PROVE  Goal
    <2>1. /\ UNCHANGED <<entry, secret, pc, fresh, work>> /\ Fault
          /\ run' = [run EXCEPT ![p] = "up"]
          /\ seen' = [seen EXCEPT ![p] = [n \in Names |-> Cached(p, entry[n])]]
          /\ queue' = [queue EXCEPT ![p] = {n \in Names : Exists(entry[n])}]
          /\ behind' = [behind EXCEPT ![p] = {}] /\ beaten' = beaten \ {p}
      BY <1>9 DEF Boot
    <2>2. StoreType' /\ CopyInv' /\ \A m \in Names : NotRevived(m)
      BY <1>0, <1>t, <2>1 DEF StoreType, CopyInv, NotRevived, Registers, Exists, Absent
    <2>3. [n \in Names |-> Cached(p, entry[n])] \in [Names -> 0 .. Absent]
      BY <1>t, AgeFact DEF StoreType
    <2>4. /\ run' \in [Processes -> {"up", "stopping", "down"}] /\ queue' \in [Processes -> SUBSET Names]
          /\ seen' \in [Processes -> [Names -> 0 .. Absent]] /\ beaten' \subseteq Processes
      BY <1>t, <2>1, <2>3
    <2>5. OwnInv' /\ CreateInv'
      BY <1>0, <1>t, <2>1 DEF OwnInv, CreateInv, Registers
    <2> QED BY <1>f, <1>t, <1>g, <2>1, <2>2, <2>4, <2>5
  <1>10. ASSUME NEW p \in Processes, NEW n \in Names, Watch(p, n)
         PROVE  Goal
    <2>1. /\ UNCHANGED <<entry, secret, run, pc, fresh, work, beaten, faults>>
          /\ behind' = [behind EXCEPT ![p] = behind[p] \ {n}]
          /\ seen' = [seen EXCEPT ![p] = [seen[p] EXCEPT ![n] = Cached(p, entry[n])]]
          /\ queue' = [queue EXCEPT ![p] = queue[p] \cup {n}]
      BY <1>t, <1>10 DEF Watch
    <2>2. StoreType' /\ CopyInv' /\ \A m \in Names : NotRevived(m)
      BY <1>0, <1>t, <2>1 DEF StoreType, CopyInv, NotRevived, Registers, Exists, Absent
    <2>3. Cached(p, entry[n]) \in 0 .. Absent
      BY <1>t, AgeFact DEF StoreType
    <2>4. queue' \in [Processes -> SUBSET Names] /\ seen' \in [Processes -> [Names -> 0 .. Absent]]
      BY <1>t, <2>1, <2>3
    <2>5. OwnInv' /\ CreateInv'
      BY <1>0, <1>t, <2>1 DEF OwnInv, CreateInv, Registers
    <2> QED BY <1>t, <1>g, <2>1, <2>2, <2>4, <2>5
  <1>w. ASSUME NEW p \in Processes, NEW n \in Names, UNCHANGED <<run, pc>>,
               \/ work' = [work EXCEPT ![p] = ThenHeal(p, n)]
               \/ work' = [work EXCEPT ![p] = Idle]
               \/ work' = [work EXCEPT ![p] = <<"clean", n>>]
               \/ work' = [work EXCEPT ![p] = <<"reap", n>>]
               \/ work' = work
        PROVE  work' \in [Processes -> Works] /\ OwnInv' /\ CreateInv'
    <2>1. ThenHeal(p, n) \in Works /\ \A m : ThenHeal(p, n) = <<"heal", m>> => NameOf[p] = m
      BY DEF ThenHeal, Works, Idle
    <2>2. /\ Idle \in Works /\ <<"clean", n>> \in Works /\ <<"reap", n>> \in Works
          /\ \A m : <<"heal", m>> \notin {Idle, <<"clean", n>>, <<"reap", n>>}
      BY DEF Works, Idle
    <2>3. PICK w \in Works : /\ work' = work \/ work' = [work EXCEPT ![p] = w]
                             /\ \A m : w = <<"heal", m>> => NameOf[p] = m
      BY <1>w, <2>1, <2>2
    <2>4. work' \in [Processes -> Works]
      BY <1>t, <2>3
    <2>5. \A q \in Processes : work'[q] = work[q] \/ (q = p /\ work'[q] = w)
      BY <1>t, <2>3
    <2> QED BY <1>0, <1>w, <2>3, <2>4, <2>5 DEF OwnInv, CreateInv, Registers
  <1>11. ASSUME NEW p \in Processes, NEW n \in Names, Reconcile(p, n)
         PROVE  Goal
    <2>1. UNCHANGED <<entry, secret, run, pc, fresh, seen, behind, beaten, faults>> /\ NoWrite
      BY <1>11 DEF Reconcile, NoWrite
    <2>2. /\ \/ work' = [work EXCEPT ![p] = ThenHeal(p, n)]
             \/ work' = [work EXCEPT ![p] = <<"clean", n>>]
             \/ work' = [work EXCEPT ![p] = <<"reap", n>>]
          /\ \/ queue' = [queue EXCEPT ![p] = queue[p] \ {n}]
             \/ queue' = [queue EXCEPT ![p] = queue[p]]
      BY <1>11 DEF Reconcile, Requeued
    <2>3. queue' \in [Processes -> SUBSET Names]
      BY <1>t, <2>2
    <2>4. work' \in [Processes -> Works] /\ OwnInv' /\ CreateInv'
      BY <1>w, <2>1, <2>2
    <2> QED BY <1>n, <1>t, <1>g, <2>1, <2>3, <2>4
  <1>12. ASSUME NEW p \in Processes, NEW n \in Names, Reap(p, n)
         PROVE  Goal
    <2>1. /\ UNCHANGED <<secret, run, pc, seen, queue, beaten, faults>> /\ Delete(n)
          /\ work' = [work EXCEPT ![p] = ThenHeal(p, n)]
      BY <1>12 DEF Reap
    <2>2. work' \in [Processes -> Works] /\ OwnInv' /\ CreateInv'
      BY <1>w, <2>1
    <2> QED BY <1>d, <1>t, <1>g, <2>1, <2>2
  <1>13. ASSUME NEW p \in Processes, NEW n \in Names, Clean(p, n)
         PROVE  Goal
    <2>1. /\ UNCHANGED <<entry, run, pc, fresh, seen, behind, queue, beaten, faults>> /\ NoWrite
          /\ work' = [work EXCEPT ![p] = ThenHeal(p, n)] /\ secret' = secret \ {n}
      BY <1>13 DEF Clean, NoWrite
    <2>2. work' \in [Processes -> Works] /\ OwnInv' /\ CreateInv'
      BY <1>w, <2>1
    <2>3. secret' \subseteq Names
      BY <1>t, <2>1
    <2> QED BY <1>n, <1>t, <1>g, <2>1, <2>2, <2>3
  <1>14. ASSUME NEW p \in Processes, NEW n \in Names, WorkFails(p, n)
         PROVE  Goal
    <2>1. /\ UNCHANGED <<entry, secret, run, pc, fresh, seen, behind, beaten>> /\ NoWrite
          /\ work' = [work EXCEPT ![p] = Idle] /\ Fault
          /\ queue' = [queue EXCEPT ![p] = queue[p] \cup {n}]
      BY <1>14 DEF WorkFails, NoWrite
    <2>2. work' \in [Processes -> Works] /\ OwnInv' /\ CreateInv'
      BY <1>w, <2>1
    <2>3. queue' \in [Processes -> SUBSET Names]
      BY <1>t, <2>1
    <2> QED BY <1>f, <1>n, <1>t, <1>g, <2>1, <2>2, <2>3
  <1>15. ASSUME NEW p \in Processes, NEW n \in Names, Heal(p, n)
         PROVE  Goal
    <2>1. /\ UNCHANGED <<entry, secret, run, fresh, seen, behind, queue, beaten, faults>> /\ NoWrite
          /\ work' = [work EXCEPT ![p] = Idle]
      BY <1>15 DEF Heal, NoWrite
    <2>2. /\ pc' = [pc EXCEPT ![p] = "create"] /\ run[p] = "up"
          \/ pc' = [pc EXCEPT ![p] = pc[p]]
      BY <1>15 DEF Heal, Reregisters
    <2>3. NameOf[p] = n
      BY <1>0, <1>15 DEF Heal, OwnInv
    <2>4. pc' \in [Processes -> PCs] /\ work' \in [Processes -> Works]
      BY <1>t, <2>1, <2>2 DEF PCs, Works
    <2>5. OwnInv'
      BY <1>0, <1>t, <2>1, <2>2, <2>3 DEF OwnInv, Registers, Idle
    <2>6. CreateInv'
      BY <1>0, <1>t, <2>1, <2>2 DEF CreateInv
    <2> QED BY <1>n, <1>t, <1>g, <2>1, <2>4, <2>5, <2>6
  <1>16. ASSUME NEW n \in Names, UserDeletes(n)
         PROVE  Goal
    <2>1. UNCHANGED <<secret, run, pc, seen, queue, work, beaten>> /\ Delete(n) /\ Fault
      BY <1>16 DEF UserDeletes
    <2>2. OwnInv' /\ CreateInv'
      BY <1>0, <2>1 DEF OwnInv, CreateInv, Registers
    <2> QED BY <1>d, <1>f, <1>t, <1>g, <2>1, <2>2
  <1>17. ASSUME Tick
         PROVE  Goal
    <2>1. /\ UNCHANGED <<secret, run, pc, fresh, behind, queue, work, faults>>
          /\ entry' = [n \in Names |-> Older(entry[n])] /\ beaten' = {}
          /\ seen' = [p \in Processes |-> [n \in Names |-> Cached(p, Older(seen[p][n]))]]
      BY <1>17 DEF Tick
    <2>2. \A n \in Names : /\ entry'[n] \in 0 .. Absent
                           /\ Exists(entry'[n]) <=> Exists(entry[n])
      BY <1>t, <2>1, AgeFact DEF StoreType
    <2>3. entry' \in [Names -> 0 .. Absent]
      BY <2>1, <2>2
    <2>4. StoreType'
      BY <1>t, <2>1, <2>3 DEF StoreType, Absent
    <2>5. CopyInv' /\ \A m \in Names : NotRevived(m)
      BY <1>0, <2>1, <2>2 DEF CopyInv, NotRevived, Registers, Exists, Absent
    <2>6. seen' \in [Processes -> [Names -> 0 .. Absent]]
      <3>1. \A p \in Processes : \A n \in Names : Cached(p, Older(seen[p][n])) \in 0 .. Absent
        BY <1>t, AgeFact
      <3> QED BY <2>1, <3>1
    <2>7. OwnInv' /\ CreateInv'
      BY <1>0, <2>1 DEF OwnInv, CreateInv, Registers
    <2>8. beaten' \subseteq Processes
      BY <2>1
    <2> QED BY <1>t, <1>g, <2>1, <2>4, <2>5, <2>6, <2>7, <2>8
  <1>18. ASSUME UNCHANGED registryVars
         PROVE  Goal
    <2>1. UNCHANGED <<entry, secret, run, pc, fresh, seen, behind, queue, work, beaten, faults>> /\ NoWrite
      BY <1>18 DEF registryVars, NoWrite
    <2>2. OwnInv' /\ CreateInv'
      BY <1>0, <2>1 DEF OwnInv, CreateInv, Registers
    <2> QED BY <1>n, <1>t, <1>g, <2>1, <2>2
  <1>19. Goal
    BY <1>1, <1>2, <1>3, <1>4, <1>5, <1>6, <1>7, <1>8, <1>9, <1>10, <1>11, <1>12, <1>13, <1>14,
       <1>15, <1>16, <1>17, <1>18 DEF RegistryNext
  <1> QED BY <1>19 DEF Goal

\* At first nobody works, and every copy of a registration is to be read anew.
LEMMA RegistryInvInit ==
    ASSUME RegistryInit
    PROVE  RegistryInv
  <1>1. MaxFaults \in Nat
    BY RegistryAssumption
  <1>2. entry \in [Names -> 0 .. Absent] /\ seen \in [Processes -> [Names -> 0 .. Absent]]
    BY AgeFact DEF RegistryInit
  <1>3. RegistryTypeOK
    BY <1>1, <1>2 DEF RegistryInit, RegistryTypeOK, PCs, Works
  <1>4. OwnInv /\ CreateInv /\ CopyInv
    BY DEF RegistryInit, OwnInv, CreateInv, CopyInv, Idle
  <1> QED BY <1>3, <1>4 DEF RegistryInv

\* The registry's invariant holds in every state.
LEMMA RegistryAlways == RegistrySpec => []RegistryInv
  <1>1. RegistryInit => RegistryInv
    BY RegistryInvInit
  <1>2. RegistryInv /\ [RegistryNext]_registryVars => RegistryInv'
    BY RegistryInvNext
  <1> QED BY <1>1, <1>2, PTL DEF RegistrySpec

\* The state of the registry is well typed, whatever processes stop, crash or come
\* back and whatever their caches lack.
THEOREM RegistryTyping == RegistrySpec => []RegistryTypeOK
  <1>1. RegistryInv => RegistryTypeOK
    BY DEF RegistryInv
  <1> QED BY <1>1, RegistryAlways, PTL

\* For any number of servers, two with the same name among them, only a server
\* that has not begun to shut down brings its Kontinuum back (reregister,
\* Deregister): not a beat that was under way, nor the watch event of the deletion.
THEOREM StoppedStaysGone == RegistrySpec => NoResurrection
  <1> DEFINE Step == \A n \in Names :
                        ~Exists(entry[n]) /\ Exists(entry'[n]) => Up(n) # {}
  <1>1. RegistryInv /\ [RegistryNext]_registryVars => [Step]_registryVars
    BY RegistryInvNext DEF NotRevived
  <1> QED BY <1>1, RegistryAlways, PTL DEF RegistrySpec, NoResurrection
==============================================================================
