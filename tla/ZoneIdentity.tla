---------------------------- MODULE ZoneIdentity ----------------------------
(***************************************************************************)
(* The identity a zone's server signs its storage requests with            *)
(* (pkg/domain/zone/auth.go, pkg/domain/etcdproxy).  The zone controller   *)
(* issues and rotates a key: first onto the zone's cluster, then, public   *)
(* half only, into a Secret of the hub.  The zone's server watches the one,*)
(* the hub's verifier caches the other, and no two of the four agree at    *)
(* every moment.                                                           *)
(*                                                                         *)
(* Time is a tick of the verifier's cache; only the ages of things are     *)
(* kept.  A key nobody refers to any more is as good as new, so that keys  *)
(* can be issued for ever.                                                 *)
(***************************************************************************)
EXTENDS Naturals, Sequences, FiniteSets

CONSTANTS
    MaxKeys,           \* keys that can be told apart at one time
    Rotation,          \* IdentityRotationInterval
    Overlap,           \* IdentityOverlapWindow
    CacheTTL,          \* verifierCacheTTL
    Threshold,         \* authFailureThreshold
    MaxUnreachable,    \* how long at most the hub does not get through to the zone's cluster
    MaxDisturbances    \* bound: failed requests, crashes, broken watches, ...

\* A zone's cluster that is out of reach for a whole overlap window cannot be
\* given a new key before the old one expires, and a cache that outlives a
\* rotation would never know the key of the day.
ASSUME IdentityAssumption ==
    /\ {MaxKeys, Rotation, CacheTTL, Threshold} \subseteq Nat \ {0}
    /\ MaxUnreachable \in Nat /\ Overlap \in Nat /\ MaxUnreachable < Overlap /\ CacheTTL < Rotation
    /\ MaxDisturbances \in Nat

VARIABLES
    zone,         \* the Zone is live
    downstream,   \* the key in the Secret of the zone's cluster
    hub,          \* the pair in the Secret of the hub
    write,        \* the pair the controller is about to store in it
    held,         \* the key the zone's server signs with
    events,       \* keys its watch has yet to deliver
    watch,        \* its watch: open, closed, or open and silent
    refresh,      \* the keys that Refreshes have fetched and not yet set
    failures,     \* refused requests in a row
    tried,        \* since the last tick a request was accepted, or recovered from
    cache,        \* the verifier's entry for the zone
    cut,          \* the hub cannot reach the zone's cluster
    unreachable,  \* for how long it has not got through with all there was to do
    lapsed,       \* key -> for how long the hub has not held it as valid
    outage,       \* for how long the zone's server has been refused
    disturbances

controllerVars == <<zone, downstream, hub, write>>
serverVars == <<held, events, watch, refresh, failures, tried>>
clockVars == <<cut, unreachable, lapsed, outage>>
vars == <<controllerVars, serverVars, cache, clockVars, disturbances>>

Keys == 1 .. MaxKeys
NoKey == 0
Expiry == Rotation + Overlap
Identity == [key : Keys, age : 0 .. Expiry]
NoPair == <<>>
MaxOutage == CacheTTL + MaxUnreachable
Pairs == {NoPair} \cup (Identity \X Identity)

TypeOK ==
    /\ zone \in BOOLEAN
    /\ downstream \in Keys \cup {NoKey} /\ held \in Keys \cup {NoKey} /\ refresh \subseteq Keys
    /\ hub \in Pairs /\ write \in Pairs
    /\ events \in Seq(Keys)
    /\ watch \in {"open", "closed", "silent"}
    /\ failures \in 0 .. Threshold - 1
    /\ tried \in BOOLEAN
    /\ cache \in [keys : SUBSET Keys, age : 0 .. CacheTTL]
    /\ cut \in BOOLEAN /\ unreachable \in 0 .. MaxUnreachable
    /\ lapsed \in [Keys -> 0 .. CacheTTL + 1]
    /\ outage \in 0 .. MaxOutage + 1
    /\ disturbances \in 0 .. MaxDisturbances

\* No cache entry is one that has run out.
NoEntry == [keys |-> {}, age |-> CacheTTL]

Init ==
    /\ zone = TRUE
    /\ downstream = NoKey /\ hub = NoPair /\ write = NoPair
    /\ held = NoKey /\ events = <<>> /\ watch = "closed" /\ refresh = {}
    /\ failures = 0 /\ tried = TRUE
    /\ cache = NoEntry
    /\ cut = FALSE /\ unreachable = 0
    /\ lapsed = [k \in Keys |-> CacheTTL + 1]
    /\ outage = 0
    /\ disturbances = 0

Disturbed == disturbances < MaxDisturbances /\ disturbances' = disturbances + 1

KeysOf(pair) == {pair[i].key : i \in DOMAIN pair}

\* The keys that are in use nowhere, and GenerateIdentity: one of them.
NewKeys ==
    Keys \ ({downstream, held} \cup refresh \cup KeysOf(hub) \cup cache.keys
              \cup {events[i] : i \in DOMAIN events})
GenerateIdentity == CHOOSE k \in NewKeys : TRUE

-----------------------------------------------------------------------------
(***************************************************************************)
(* The zone controller: ensureEtcdIdentity.                                *)
(***************************************************************************)

Fresh(key) == [key |-> key, age |-> 0]

\* Identity.DueAt, Identity.Valid.
Due(id) == id.age >= Rotation
Valid(id) == id.age < Expiry

\* The keys a Secret of the hub has to offer: both halves while they are valid.
Offered(pair) == {pair[i].key : i \in {j \in DOMAIN pair : Valid(pair[j])}}
ValidKeys == Offered(hub)

\* The pair to store when the downstream key is not the hub's current one: what
\* the hub held as current so far is kept as the previous one.
ResyncHubPublicSecret == <<Fresh(downstream), IF hub = NoPair THEN Fresh(downstream) ELSE hub[1]>>

\* The hub does not record the downstream key as the current one.
Unsynced == downstream \notin {hub[i].key : i \in DOMAIN hub \cap {1}}

\* A key for the zone's cluster.  Its watch sees it if it still sees anything.
Deliver(key) ==
    /\ NewKeys # {}
    /\ downstream' = key
    /\ events' = IF watch = "open" /\ held # NoKey THEN Append(events, key) ELSE events

IssueInitial(key) == Deliver(key) /\ write' = <<Fresh(key), Fresh(key)>>
Rotate(key) == Deliver(key) /\ write' = <<Fresh(key), hub[1]>>
Resync == write' = ResyncHubPublicSecret /\ UNCHANGED <<downstream, events>>

\* Mutant: the hub's copy is what counts, as if both were written at once.
RotateOnlyWhenDue ==
    \/ downstream = NoKey /\ IssueInitial(GenerateIdentity)
    \/ downstream # NoKey /\ hub # NoPair /\ Due(hub[1]) /\ Rotate(GenerateIdentity)

\* The downstream Secret decides: issue, resync or, when due, rotate.
EnsureIdentity ==
    \/ downstream = NoKey /\ IssueInitial(GenerateIdentity)
    \/ downstream # NoKey /\ Unsynced /\ Resync
    \/ downstream # NoKey /\ ~Unsynced /\ Due(hub[1]) /\ Rotate(GenerateIdentity)

Ensure ==
    /\ zone /\ write = NoPair /\ ~cut
    /\ EnsureIdentity
    /\ UNCHANGED <<zone, hub, held, watch, refresh, failures, tried, cache, clockVars, disturbances>>

\* persistHubPublicSecret.  Once the Zone is gone the Secret is created all
\* the same, or updated, or the update refused because it has been collected.
PersistHubPublicSecret ==
    /\ write # NoPair
    /\ hub' = write \/ (~zone /\ hub' = hub)
    /\ write' = NoPair
    /\ lapsed' = [k \in Keys |-> IF k \in Offered(hub') THEN 0 ELSE lapsed[k]]
    /\ UNCHANGED <<zone, downstream, serverVars, cache, cut, unreachable, outage, disturbances>>

\* ... or the request fails, or the process dies before it is sent.
PersistFails ==
    /\ write # NoPair /\ Disturbed
    /\ write' = NoPair
    /\ UNCHANGED <<zone, downstream, hub, serverVars, cache, clockVars>>

DeleteZone ==
    /\ zone /\ hub # NoPair /\ Disturbed
    /\ zone' = FALSE
    /\ UNCHANGED <<downstream, hub, write, serverVars, cache, clockVars>>

\* The garbage collector deletes a Secret whose Zone is gone.
CollectSecret ==
    /\ ~zone /\ hub # NoPair
    /\ hub' = NoPair
    /\ UNCHANGED <<zone, downstream, write, serverVars, cache, clockVars, disturbances>>

-----------------------------------------------------------------------------
(***************************************************************************)
(* The zone's server: WatchIdentity and the relay.                         *)
(***************************************************************************)

\* WatchIdentity: the watch is open before the Secret is first read, and a
\* server that starts holds its key before it signs anything.
Start ==
    /\ held = NoKey /\ downstream # NoKey
    /\ held' = downstream
    /\ watch' = "open"
    /\ UNCHANGED <<controllerVars, events, refresh, failures, tried, cache, clockVars, disturbances>>

\* handleEvent.
HandleEvent ==
    /\ events # <<>> /\ watch = "open"
    /\ held' = Head(events)
    /\ events' = Tail(events)
    /\ UNCHANGED <<controllerVars, watch, refresh, failures, tried, cache, clockVars, disturbances>>

\* The watch closes, or stops delivering without a word; the events are lost.
WatchBreaks(how) ==
    /\ held # NoKey /\ watch = "open" /\ Disturbed
    /\ watch' = how
    /\ events' = <<>>
    /\ UNCHANGED <<controllerVars, held, refresh, failures, tried, cache, clockVars>>

\* run: after a closed watch comes a new one, which begins with the Secret as
\* it is.
Reconnect ==
    /\ held # NoKey /\ watch = "closed"
    /\ watch' = "open"
    /\ events' = <<downstream>>
    /\ UNCHANGED <<controllerVars, held, refresh, failures, tried, cache, clockVars, disturbances>>

\* recover: fetch the Secret as it is now, past the watch.  Requests go on in
\* other goroutines, and any of them may be the next to start one.
Recover == refresh' = refresh \cup {downstream}

\* set, some time later: a key the watch or another Refresh set in between is
\* overwritten.  Another one may have fetched the same key.
SetRefreshed ==
    /\ held' \in refresh
    /\ \/ refresh' = refresh \ {held'} /\ UNCHANGED disturbances
       \/ UNCHANGED refresh /\ Disturbed
    /\ tried' = TRUE
    /\ UNCHANGED <<controllerVars, events, watch, failures, cache, clockVars>>

\* The Refresh fails; so many refusals later there will be another.
RefreshFails ==
    /\ Disturbed
    /\ \E k \in refresh : refresh' = refresh \ {k}
    /\ UNCHANGED <<controllerVars, held, events, watch, failures, tried, cache, clockVars>>

\* A message on a stream that was opened before counts as a success.
StreamMessage ==
    /\ failures > 0 /\ Disturbed
    /\ failures' = 0
    /\ UNCHANGED <<controllerVars, held, events, watch, refresh, tried, cache, clockVars>>

-----------------------------------------------------------------------------
(***************************************************************************)
(* The hub: Verifier.lookup, Proxy.authenticate.                           *)
(***************************************************************************)

Cached == cache.age < CacheTTL

\* Mutant: an entry that has run out is better than nothing.
LookupOrStale == IF Cached \/ ValidKeys = {} THEN cache.keys ELSE ValidKeys

Lookup == IF Cached THEN cache.keys ELSE ValidKeys

\* Mutant: every hit renews the entry.
EntryRenewed == IF Lookup = {} THEN cache ELSE [keys |-> Lookup, age |-> 0]

\* What is fetched is cached, unless there is nothing.
Entry == IF Cached \/ ValidKeys = {} THEN cache ELSE [keys |-> ValidKeys, age |-> 0]

Accepts(key) == key \in Lookup

\* recordResult.
RecordResult(ok) ==
    \/ /\ ok
       /\ failures' = 0 /\ tried' = TRUE
       /\ UNCHANGED refresh
    \/ /\ ~ok /\ failures + 1 < Threshold
       /\ failures' = failures + 1
       /\ UNCHANGED <<tried, refresh>>
    \/ /\ ~ok /\ failures + 1 = Threshold
       /\ failures' = 0
       /\ Recover
       /\ UNCHANGED tried

\* A request of the zone's server, signed with the key it holds now.
Request ==
    /\ held # NoKey
    /\ RecordResult(Accepts(held))
    /\ cache' = Entry
    /\ UNCHANGED <<controllerVars, held, events, watch, clockVars, disturbances>>

-----------------------------------------------------------------------------
(***************************************************************************)
(* Time.  Everybody gets round to what there is to do within a tick.       *)
(***************************************************************************)

\* The hub loses sight of the zone's cluster and finds it again.  A sight too
\* short for the controller to do what it has to does not end the time for which
\* it has not got through.
Unreachable ==
    /\ ~cut /\ unreachable < MaxUnreachable /\ write = NoPair /\ Disturbed
    /\ cut' = TRUE
    /\ UNCHANGED <<controllerVars, serverVars, cache, unreachable, lapsed, outage>>

Reachable ==
    /\ cut
    /\ cut' = FALSE
    /\ UNCHANGED <<controllerVars, serverVars, cache, unreachable, lapsed, outage, disturbances>>

Busy ==
    \/ write # NoPair \/ refresh # {}
    \/ zone /\ ~cut /\ (downstream = NoKey \/ Unsynced \/ Due(hub[1]))
    \/ held = NoKey
    \/ watch = "closed" \/ (watch = "open" /\ events # <<>>)
    \/ ~tried

Older(n, limit) == IF n < limit THEN n + 1 ELSE n

Aged(pair) == [i \in DOMAIN pair |-> [pair[i] EXCEPT !.age = Older(@, Expiry)]]

Tick ==
    /\ ~Busy
    /\ cut => unreachable < MaxUnreachable
    /\ hub' = Aged(hub)
    /\ cache' = [cache EXCEPT !.age = Older(@, CacheTTL)]
    /\ unreachable' = IF cut THEN unreachable + 1 ELSE 0
    /\ lapsed' = [k \in Keys |-> IF k \in ValidKeys THEN 0 ELSE Older(lapsed[k], CacheTTL + 1)]
    /\ outage' = IF Accepts(held) THEN 0 ELSE Older(outage, MaxOutage + 1)
    /\ tried' = FALSE
    /\ UNCHANGED <<zone, downstream, write, held, events, watch, refresh, failures, cut, disturbances>>

-----------------------------------------------------------------------------
Controller == Ensure \/ PersistHubPublicSecret \/ CollectSecret
Watcher == Start \/ HandleEvent \/ Reconnect
Trouble ==
    \/ PersistFails \/ DeleteZone \/ RefreshFails \/ StreamMessage \/ Unreachable
    \/ \E how \in {"closed", "silent"} : WatchBreaks(how)

Next == Controller \/ Watcher \/ SetRefreshed \/ Request \/ Tick \/ Reachable \/ Trouble

Spec == Init /\ [][Next]_vars

\* Controller and watch go on, a server that is refused asks again, and time
\* passes: no tick has room for requests without end.
FairSpec ==
    /\ Spec
    /\ WF_vars(Controller) /\ WF_vars(Watcher) /\ WF_vars(SetRefreshed) /\ WF_vars(Request)
    /\ WF_vars(Reachable) /\ SF_vars(Tick)

-----------------------------------------------------------------------------
(***************************************************************************)
(* Properties.                                                             *)
(***************************************************************************)

\* A zone's server is never refused for longer than the verifier may cache the
\* keys before the last rotation, plus the time the hub may be unable to reach
\* the zone's cluster and see which key it gave it: not when the two writes of
\* a rotation come apart, and not when the watch dies.
ShortOutage == zone => outage <= MaxOutage

\* What the hub no longer holds as valid is refused before a cache period is over,
\* whether it was superseded, expired because rotation has stopped, or deleted
\* with its Zone.
FailsClosed == \A k \in Keys : Accepts(k) => lapsed[k] < CacheTTL

\* A zone's server always gets through again, and the controller does not
\* settle with the hub and the zone's cluster in disagreement.
Reconciled == []<>(~zone \/ (~Unsynced /\ Accepts(held)))
=============================================================================
