------------------------- MODULE InstanceDiscovery -------------------------
(***************************************************************************)
(* pkg/domain/instance/controller.go: the controller that probes unclaimed *)
(* Instances in Talos maintenance mode and records the outcome in their    *)
(* Discovered and Live conditions.                                         *)
(*                                                                         *)
(* One worker: a reconcile reads the Instance from the cache, dials its    *)
(* candidate addresses for up to DialTimeout each, and then writes the     *)
(* status with the resourceVersion it read.                                *)
(***************************************************************************)
EXTENDS Inventory

CONSTANTS Discovery,   \* the controller, as a reader of Instances
          NoInstance   \* the worker is idle

ASSUME DiscoveryAssumption == Discovery \in Readers \ Pools

VARIABLES probing,  \* the Instance being probed
          answered  \* whether one of its addresses answered

discoveryVars == <<probing, answered>>

DiscoveryTypeOK ==
    /\ probing \in Instances \cup {NoInstance}
    /\ answered \in BOOLEAN

DiscoveryInit == probing = NoInstance /\ answered = FALSE

\* Reconcile up to the probe; probeCandidates dials.  A claimed Instance is
\* left alone.  A machine that runs a config does not answer in maintenance
\* mode.
Probe(i) ==
    /\ probing = NoInstance
    /\ seen[i] # Gone
    /\ seen[i].claimedBy = NoPool
    /\ probing' = i
    /\ answered' = (node[i] = "maintenance")
    /\ Read(Discovery, {i})
    /\ UNCHANGED <<inst, seen, node, edits>>

\* recordProbeResult: Discovered is a latch, Live follows every probe.
Probed(obj) ==
    [obj EXCEPT !.discovered = @ \/ answered, !.live = answered]

ProbeEnds ==
    /\ probing' = NoInstance
    /\ answered' = FALSE

\* Mutant: the status is patched without a resourceVersion.
RecordProbeResultBlind ==
    /\ probing # NoInstance
    /\ Exists(probing)
    /\ Put(probing, Probed(inst[probing]))
    /\ ProbeEnds
    /\ UNCHANGED <<seen, node, edits>>

\* The Status().Update goes through, or nothing changed and it is skipped.
\* What changes may also be no more than a field or a message this model
\* leaves out (fieldsChanged): the write then only makes other copies stale.
RecordProbeResult ==
    /\ probing # NoInstance
    /\ Current(Discovery, probing)
    /\ \/ /\ Probed(inst[probing]) # inst[probing]
          /\ Put(probing, Probed(inst[probing]))
          /\ UNCHANGED edits
       \/ /\ Probed(inst[probing]) = inst[probing]
          /\ Edit
          /\ Put(probing, inst[probing])
       \/ /\ Probed(inst[probing]) = inst[probing]
          /\ UNCHANGED <<inst, edits>>
          /\ Drop(Discovery)
    /\ ProbeEnds
    /\ UNCHANGED <<seen, node>>

\* The object was written since it was read (Conflict or NotFound), or the
\* request failed: the status is not written and the reconcile is retried.
ProbeNotRecorded ==
    /\ probing # NoInstance
    /\ \/ ~Current(Discovery, probing) /\ UNCHANGED edits
       \/ Current(Discovery, probing) /\ Edit
    /\ Drop(Discovery)
    /\ ProbeEnds
    /\ UNCHANGED <<inst, seen, node>>

DiscoveryNext ==
    \/ \E i \in Instances : Probe(i)
    \/ RecordProbeResult
    \/ ProbeNotRecorded
=============================================================================
