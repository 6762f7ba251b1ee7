------------------------- MODULE ZoneIdentityProofs -------------------------
(***************************************************************************)
(* Proofs about ZoneIdentity for every rotation interval, overlap, cache   *)
(* period and number of disturbances: a key that the hub no longer holds   *)
(* as valid is refused before a cache period is over, and the zone's own   *)
(* server is not refused for longer than a cache period and an outage of   *)
(* the network.                                                            *)
(*                                                                         *)
(* The argument for the first compares two clocks that only a tick         *)
(* advances, the age of the verifier's entry and the time for which a key  *)
(* has lapsed.  A fetch sets the first to zero only when the second is     *)
(* zero for every key that it fetches.                                     *)
(***************************************************************************)
EXTENDS ZoneIdentity, TLAPS

\* A key the hub's Secret offers has not lapsed.
HubInv == \A k \in ValidKeys : lapsed[k] = 0

\* A key in an entry that is still good lapsed, if it did, after it was fetched.
EntryInv == Cached => \A k \in cache.keys : lapsed[k] <= cache.age

\* There is nothing to hold, fetch or deliver before the first key was issued.
Issued == downstream = NoKey => held = NoKey /\ refresh = {} /\ events = <<>>

IInv == TypeOK /\ Issued /\ HubInv /\ EntryInv

\* The key before the one of the zone's cluster: the hub's current one as long as
\* the hub does not know better, its previous one afterwards.
Prior == IF hub = NoPair THEN downstream ELSE IF Unsynced THEN hub[1].key ELSE hub[2].key

\* The key was replaced since the last tick, or the hub has yet to hear of it.
JustRotated == Unsynced \/ hub[1].age = 0

Recent == {downstream} \cup {k \in {Prior} : JustRotated}
Served == Cached /\ held \in cache.keys

\* A watch that does not deliver has nothing to deliver.
WatchInv == watch # "open" => events = <<>>

\* What the controller is about to store makes the zone's key the current one.
WriteInv == write # NoPair => Unsynced /\ write = ResyncHubPublicSecret

\* The hub's current key never expires: rotation starts an overlap ahead of it.
AgeInv ==
    hub # NoPair =>
        /\ downstream # NoKey
        /\ hub[1].age <= Rotation + unreachable
        /\ Unsynced => hub[1].age >= Rotation
        /\ hub[1].age = 0 => Valid(hub[2])

\* An entry without the current key is older than that key, and has the one before.
CacheInv ==
    hub # NoPair /\ Cached =>
        /\ ~Unsynced /\ downstream \notin cache.keys => hub[1].age <= cache.age
        /\ JustRotated => Prior = downstream \/ Prior \in cache.keys

\* What is under way to the zone's server is at most one rotation of this tick old,
\* and a server that has tried holds no older key than that, or one that is served.
FlightInv ==
    /\ \A i \in DOMAIN events : events[i] \in Recent
    /\ refresh \subseteq Recent
    /\ tried /\ held # NoKey => held \in Recent \/ Served

\* An outage lasts while the hub is unaware of the key because it does not get
\* through, and then until an entry from before runs out.
OutageInv ==
    /\ Unsynced => outage <= unreachable
    /\ ~Unsynced => outage <= (IF hub[1].age <= CacheTTL THEN MaxUnreachable + hub[1].age ELSE 0)

ServiceInv ==
    /\ WatchInv
    /\ zone => WriteInv /\ AgeInv /\ CacheInv /\ FlightInv /\ OutageInv

-----------------------------------------------------------------------------
(***************************************************************************)
(* Operators.                                                              *)
(***************************************************************************)

\* What IdentityAssumption says of each constant.
LEMMA Constants ==
    /\ MaxKeys \in Nat /\ Rotation \in Nat /\ CacheTTL \in Nat /\ Threshold \in Nat
    /\ MaxKeys > 0 /\ Rotation > 0 /\ CacheTTL > 0 /\ Threshold > 0
    /\ MaxUnreachable \in Nat /\ Overlap \in Nat /\ MaxDisturbances \in Nat
    /\ Expiry \in Nat /\ MaxOutage \in Nat /\ NoKey \notin Keys
BY IdentityAssumption DEF Expiry, MaxOutage, NoKey, Keys

\* A clock with a limit never exceeds it, and advances by one below it.
LEMMA OlderFact ==
    ASSUME NEW limit \in Nat, NEW n \in 0 .. limit
    PROVE  /\ Older(n, limit) \in 0 .. limit
           /\ Older(n, limit) >= n /\ Older(n, limit) <= n + 1
           /\ Older(n, limit) < limit => Older(n, limit) = n + 1
BY DEF Older

\* A pair has two identities or none.
LEMMA PairFact ==
    ASSUME NEW pair \in Pairs
    PROVE  /\ DOMAIN pair \in {{}, {1, 2}}
           /\ \A i \in DOMAIN pair : pair[i] \in Identity
           /\ pair # NoPair => pair \in Identity \X Identity
           /\ KeysOf(pair) \subseteq Keys /\ Offered(pair) \subseteq KeysOf(pair)
  <1>1. CASE pair = NoPair
    BY <1>1 DEF NoPair, KeysOf, Offered
  <1>2. CASE pair \in Identity \X Identity
    <2>1. DOMAIN pair = {1, 2} /\ pair[1] \in Identity /\ pair[2] \in Identity
      BY <1>2
    <2>2. \A i \in DOMAIN pair : pair[i] \in Identity /\ pair[i].key \in Keys
      BY <2>1 DEF Identity
    <2> QED BY <1>2, <2>1, <2>2 DEF KeysOf, Offered
  <1> QED BY <1>1, <1>2 DEF Pairs

\* A key that was never issued is a pair's.
LEMMA FreshFact ==
    ASSUME NEW key \in Keys
    PROVE  Fresh(key) \in Identity
BY Constants DEF Fresh, Identity

\* A tick leaves a pair a pair, and offers no key that was not offered before.
LEMMA AgedFact ==
    ASSUME NEW pair \in Pairs
    PROVE  Aged(pair) \in Pairs /\ Offered(Aged(pair)) \subseteq Offered(pair)
  <1>1. CASE pair = NoPair
    <2>1. Aged(pair) = NoPair
      BY <1>1 DEF Aged, NoPair
    <2> QED BY <1>1, <2>1 DEF Pairs
  <1>2. CASE pair \in Identity \X Identity
    <2>1. DOMAIN pair = {1, 2} /\ pair[1] \in Identity /\ pair[2] \in Identity
      BY <1>2
    <2> DEFINE a(i) == [pair[i] EXCEPT !.age = Older(@, Expiry)]
    <2>2. ASSUME NEW i \in {1, 2}
          PROVE  /\ a(i) \in Identity
                 /\ a(i).key = pair[i].key
                 /\ Valid(a(i)) => Valid(pair[i])
      <3>1. pair[i] \in [key : Keys, age : 0 .. Expiry]
        BY <2>1 DEF Identity
      <3>2. a(i) = [pair[i] EXCEPT !.age = Older(pair[i].age, Expiry)]
        OBVIOUS
      <3>3. Older(pair[i].age, Expiry) \in 0 .. Expiry /\ Older(pair[i].age, Expiry) >= pair[i].age
        BY <3>1, OlderFact, Constants
      <3>4. a(i) \in Identity /\ a(i).key = pair[i].key /\ a(i).age = Older(pair[i].age, Expiry)
        BY <3>1, <3>2, <3>3 DEF Identity
      <3>5. Valid(a(i)) => Valid(pair[i])
        BY <3>1, <3>3, <3>4, Constants DEF Valid
      <3> QED BY <3>4, <3>5
    <2>3. DOMAIN Aged(pair) = {1, 2} /\ \A i \in {1, 2} : Aged(pair)[i] = a(i)
      BY <2>1 DEF Aged
    <2>4. Aged(pair) = <<a(1), a(2)>>
      BY <2>1 DEF Aged
    <2> HIDE DEF a
    <2>5. Aged(pair) \in Identity \X Identity
      BY <2>2, <2>4
    <2>6. ASSUME NEW k \in Offered(Aged(pair))
          PROVE  k \in Offered(pair)
      <3>1. PICK i \in {1, 2} : Valid(Aged(pair)[i]) /\ k = Aged(pair)[i].key
        BY <2>3, <2>6 DEF Offered
      <3>2. Valid(pair[i]) /\ k = pair[i].key
        BY <2>2, <2>3, <3>1
      <3> QED BY <2>1, <3>2 DEF Offered
    <2> QED BY <2>5, <2>6 DEF Pairs
  <1> QED BY <1>1, <1>2 DEF Pairs

-----------------------------------------------------------------------------
(***************************************************************************)
(* Types.                                                                  *)
(***************************************************************************)

LEMMA TypeInit == Init => TypeOK
  <1> SUFFICES ASSUME Init
               PROVE  TypeOK
    OBVIOUS
  <1>1. cache \in [keys : SUBSET Keys, age : 0 .. CacheTTL]
    BY Constants DEF Init, NoEntry
  <1>2. lapsed \in [Keys -> 0 .. CacheTTL + 1]
    BY Constants DEF Init
  <1>3. /\ 0 \in 0 .. Threshold - 1 /\ 0 \in 0 .. MaxUnreachable
        /\ 0 \in 0 .. MaxOutage + 1 /\ 0 \in 0 .. MaxDisturbances
    BY Constants
  <1>4. <<>> \in Seq(Keys)
    OBVIOUS
  <1> QED BY <1>1, <1>2, <1>3, <1>4 DEF Init, TypeOK, Pairs

\* The disturbances are counted up to their bound.
LEMMA DisturbedType ==
    ASSUME disturbances \in 0 .. MaxDisturbances, Disturbed
    PROVE  disturbances' \in 0 .. MaxDisturbances
BY Constants DEF Disturbed

\* What a delivered key leaves behind.
LEMMA DeliverType ==
    ASSUME TypeOK, NEW key \in Keys, Deliver(key)
    PROVE  downstream' \in Keys /\ events' \in Seq(Keys)
BY DEF TypeOK, Deliver

\* The controller stores a well-formed pair and delivers a key.
LEMMA EnsureIdentityType ==
    ASSUME TypeOK, EnsureIdentity
    PROVE  downstream' \in Keys \cup {NoKey} /\ events' \in Seq(Keys) /\ write' \in Pairs
  <1>1. NewKeys # {} => GenerateIdentity \in Keys
    BY DEF GenerateIdentity, NewKeys
  <1>2. CASE IssueInitial(GenerateIdentity)
    <2>1. GenerateIdentity \in Keys /\ Deliver(GenerateIdentity)
      BY <1>1, <1>2 DEF IssueInitial, Deliver
    <2>2. write' \in Pairs
      BY <1>2, <2>1, FreshFact DEF IssueInitial, Pairs
    <2> QED BY <2>1, <2>2, DeliverType
  <1>3. CASE downstream # NoKey /\ Resync
    <2>1. downstream \in Keys /\ Fresh(downstream) \in Identity
      BY <1>3, FreshFact DEF TypeOK
    <2>2. hub # NoPair => hub[1] \in Identity
      BY PairFact DEF TypeOK
    <2>3. write' \in Pairs
      BY <1>3, <2>1, <2>2 DEF Resync, ResyncHubPublicSecret, Pairs
    <2> QED BY <1>3, <2>3 DEF Resync, TypeOK
  <1>4. CASE ~Unsynced /\ Rotate(GenerateIdentity)
    <2>1. GenerateIdentity \in Keys /\ Deliver(GenerateIdentity)
      BY <1>1, <1>4 DEF Rotate, Deliver
    <2>2. hub[1] \in Identity
      BY <1>4, PairFact DEF Unsynced, TypeOK
    <2>3. write' \in Pairs
      BY <1>4, <2>1, <2>2, FreshFact DEF Rotate, Pairs
    <2> QED BY <2>1, <2>3, DeliverType
  <1> QED BY <1>2, <1>3, <1>4 DEF EnsureIdentity

\* The verifier's entry.
LEMMA EntryType ==
    ASSUME TypeOK
    PROVE  Entry \in [keys : SUBSET Keys, age : 0 .. CacheTTL] /\ ValidKeys \subseteq Keys
  <1>1. ValidKeys \subseteq Keys
    BY PairFact DEF TypeOK, ValidKeys
  <1>2. [keys |-> ValidKeys, age |-> 0] \in [keys : SUBSET Keys, age : 0 .. CacheTTL]
    BY <1>1, Constants
  <1> QED BY <1>1, <1>2 DEF Entry, TypeOK

\* A write of the pair brings back the keys it offers, and no other.
LEMMA PersistClock ==
    ASSUME TypeOK, PersistHubPublicSecret
    PROVE  /\ hub' \in Pairs /\ write' \in Pairs
           /\ lapsed' \in [Keys -> 0 .. CacheTTL + 1]
           /\ \A k \in Keys : lapsed'[k] <= lapsed[k]
           /\ \A k \in ValidKeys' : lapsed'[k] = 0
  <1>1. hub' \in Pairs /\ write' \in Pairs
    BY DEF TypeOK, PersistHubPublicSecret, NoPair, Pairs
  <1>2. ValidKeys' = Offered(hub') /\ ValidKeys' \subseteq Keys
    BY <1>1, PairFact DEF ValidKeys
  <1>3. \A k \in Keys : lapsed[k] \in 0 .. CacheTTL + 1
    BY DEF TypeOK
  <1>4. lapsed' = [k \in Keys |-> IF k \in Offered(hub') THEN 0 ELSE lapsed[k]]
    BY DEF PersistHubPublicSecret
  <1> QED BY <1>1, <1>2, <1>3, <1>4, Constants

\* A tick makes everything at most one tick older.
LEMMA TickClock ==
    ASSUME TypeOK, Tick
    PROVE  /\ hub' \in Pairs /\ ValidKeys' \subseteq ValidKeys
           /\ cache' \in [keys : SUBSET Keys, age : 0 .. CacheTTL]
           /\ cache'.keys = cache.keys
           /\ cache'.age < CacheTTL => cache'.age = cache.age + 1
           /\ lapsed' \in [Keys -> 0 .. CacheTTL + 1]
           /\ \A k \in Keys : lapsed'[k] <= lapsed[k] + 1
           /\ \A k \in ValidKeys : lapsed'[k] = 0
  <1>1. hub' \in Pairs /\ ValidKeys' \subseteq ValidKeys
    BY AgedFact DEF TypeOK, Tick, ValidKeys
  <1>2. cache' = [keys |-> cache.keys, age |-> Older(cache.age, CacheTTL)]
    BY DEF TypeOK, Tick
  <1>3. cache.keys \in SUBSET Keys /\ cache.age \in 0 .. CacheTTL
    BY DEF TypeOK
  <1>4. /\ Older(cache.age, CacheTTL) \in 0 .. CacheTTL
        /\ Older(cache.age, CacheTTL) < CacheTTL => Older(cache.age, CacheTTL) = cache.age + 1
    BY <1>3, OlderFact, Constants
  <1>5. ASSUME NEW k \in Keys
        PROVE  /\ lapsed[k] \in Nat
               /\ Older(lapsed[k], CacheTTL + 1) \in 0 .. CacheTTL + 1
               /\ Older(lapsed[k], CacheTTL + 1) <= lapsed[k] + 1
    <2> DEFINE limit == CacheTTL + 1
    <2>1. lapsed[k] \in 0 .. limit /\ limit \in Nat
      BY Constants DEF TypeOK
    <2> HIDE DEF limit
    <2>2. /\ Older(lapsed[k], limit) \in 0 .. limit
          /\ Older(lapsed[k], limit) <= lapsed[k] + 1
      BY <2>1, OlderFact
    <2> QED BY <2>1, <2>2 DEF limit
  <1>6. lapsed' = [k \in Keys |-> IF k \in ValidKeys THEN 0 ELSE Older(lapsed[k], CacheTTL + 1)]
    BY DEF Tick
  <1>7. ValidKeys \subseteq Keys
    BY EntryType
  <1>8. lapsed' \in [Keys -> 0 .. CacheTTL + 1]
    BY <1>5, <1>6, Constants
  <1>9. \A k \in Keys : lapsed'[k] <= lapsed[k] + 1
    BY <1>5, <1>6
  <1>10. \A k \in ValidKeys : lapsed'[k] = 0
    BY <1>6, <1>7
  <1> QED BY <1>1, <1>2, <1>3, <1>4, <1>8, <1>9, <1>10

\* Every step keeps the types.
LEMMA TypeNext == TypeOK /\ Issued /\ [Next]_vars => TypeOK'
  <1> SUFFICES ASSUME TypeOK, Issued, [Next]_vars
               PROVE  TypeOK'
    OBVIOUS
  <1> USE DEF controllerVars, serverVars, clockVars
  <1>1. CASE Ensure
    BY <1>1, EnsureIdentityType DEF Ensure, TypeOK
  <1>2. CASE PersistHubPublicSecret
    BY <1>2, PersistClock DEF PersistHubPublicSecret, TypeOK
  <1>3. CASE PersistFails
    BY <1>3, DisturbedType DEF PersistFails, TypeOK, NoPair, Pairs
  <1>4. CASE DeleteZone
    BY <1>4, DisturbedType DEF DeleteZone, TypeOK
  <1>5. CASE Start
    BY <1>5 DEF Start, TypeOK
  <1>6. CASE HandleEvent
    <2>1. Head(events) \in Keys /\ Tail(events) \in Seq(Keys)
      BY <1>6 DEF HandleEvent, TypeOK
    <2> QED BY <1>6, <2>1 DEF HandleEvent, TypeOK
  <1>7. ASSUME NEW how \in {"closed", "silent"}, WatchBreaks(how)
        PROVE  TypeOK'
    BY <1>7, DisturbedType DEF WatchBreaks, TypeOK
  <1>8. CASE Reconnect
    BY <1>8 DEF Reconnect, TypeOK, Issued
  <1>9. CASE SetRefreshed
    <2>1. held' \in Keys /\ refresh' \subseteq Keys
      BY <1>9 DEF SetRefreshed, TypeOK
    <2>2. disturbances' \in 0 .. MaxDisturbances
      BY <1>9, DisturbedType DEF SetRefreshed, TypeOK
    <2> QED BY <1>9, <2>1, <2>2 DEF SetRefreshed, TypeOK
  <1>10. CASE RefreshFails
    <2>1. refresh' \subseteq Keys
      BY <1>10 DEF RefreshFails, TypeOK
    <2> QED BY <1>10, <2>1, DisturbedType DEF RefreshFails, TypeOK
  <1>11. CASE StreamMessage
    BY <1>11, DisturbedType, Constants DEF StreamMessage, TypeOK
  <1>12. CASE Request
    <2>1. RecordResult(Accepts(held)) /\ failures \in 0 .. Threshold - 1
      BY <1>12 DEF Request, TypeOK
    <2>2. failures' \in 0 .. Threshold - 1
      <3>1. failures' = 0 \/ (failures' = failures + 1 /\ failures + 1 < Threshold)
        BY <2>1 DEF RecordResult
      <3> QED BY <2>1, <3>1, Constants
    <2>3. tried' = TRUE \/ tried' = tried
      BY <2>1 DEF RecordResult
    <2>4. refresh' \subseteq Keys
      <3>1. downstream \in Keys /\ refresh \subseteq Keys
        BY <1>12 DEF Request, Issued, TypeOK
      <3> QED BY <2>1, <3>1 DEF RecordResult, Recover
    <2>5. cache' \in [keys : SUBSET Keys, age : 0 .. CacheTTL]
      BY <1>12, EntryType DEF Request
    <2> QED BY <1>12, <2>2, <2>3, <2>4, <2>5 DEF Request, TypeOK
  <1>13. CASE Tick
    <2>1. unreachable' \in 0 .. MaxUnreachable
      <3>1. unreachable' = 0 \/ (unreachable' = unreachable + 1 /\ unreachable < MaxUnreachable)
        BY <1>13 DEF Tick
      <3> QED BY <3>1, Constants DEF TypeOK
    <2>2. outage' \in 0 .. MaxOutage + 1
      <3> DEFINE limit == MaxOutage + 1
      <3>1. outage' = 0 \/ outage' = Older(outage, limit)
        BY <1>13 DEF Tick
      <3>2. outage \in 0 .. limit /\ limit \in Nat
        BY Constants DEF TypeOK
      <3> HIDE DEF limit
      <3>3. outage' \in 0 .. limit
        BY <3>1, <3>2, OlderFact
      <3> QED BY <3>3 DEF limit
    <2> QED BY <1>13, <2>1, <2>2, TickClock DEF Tick, TypeOK
  <1>14. CASE Unreachable
    BY <1>14, DisturbedType DEF Unreachable, TypeOK
  <1>15. CASE Reachable
    BY <1>15 DEF Reachable, TypeOK
  <1>16. CASE UNCHANGED vars
    BY <1>16 DEF vars, TypeOK
  <1>17. CASE CollectSecret
    BY <1>17 DEF CollectSecret, TypeOK, NoPair, Pairs
  <1> QED
    BY <1>1, <1>2, <1>3, <1>4, <1>5, <1>6, <1>7, <1>8, <1>9, <1>10, <1>11, <1>12, <1>13,
       <1>14, <1>15, <1>16, <1>17 DEF Next, Controller, Watcher, Trouble

\* The downstream Secret never loses its key again.
LEMMA IssuedNext == TypeOK /\ Issued /\ [Next]_vars => Issued'
  <1> SUFFICES ASSUME TypeOK, Issued, [Next]_vars
               PROVE  Issued'
    OBVIOUS
  <1> USE DEF controllerVars, serverVars, clockVars
  <1>1. CASE Ensure
    <2>1. CASE downstream # NoKey /\ Resync
      BY <2>1 DEF Resync, Issued
    <2>2. ASSUME Deliver(GenerateIdentity)
          PROVE  Issued'
      <3>1. downstream' \in Keys
        BY <2>2 DEF Deliver, GenerateIdentity, NewKeys
      <3> QED BY <3>1, Constants DEF Issued
    <2> QED BY <1>1, <2>1, <2>2 DEF Ensure, EnsureIdentity, IssueInitial, Rotate
  <1>2. CASE Watcher \/ SetRefreshed
    BY <1>2 DEF Watcher, Start, HandleEvent, Reconnect, SetRefreshed, Issued
  <1>3. CASE Request
    BY <1>3 DEF Request, RecordResult, Recover, Issued
  <1>4. CASE PersistHubPublicSecret \/ PersistFails \/ DeleteZone \/ CollectSecret
    BY <1>4 DEF PersistHubPublicSecret, PersistFails, DeleteZone, CollectSecret, Issued
  <1>5. CASE RefreshFails \/ StreamMessage \/ \E how \in {"closed", "silent"} : WatchBreaks(how)
    BY <1>5 DEF RefreshFails, StreamMessage, WatchBreaks, Issued
  <1>6. CASE Tick \/ Unreachable \/ Reachable
    BY <1>6 DEF Tick, Unreachable, Reachable, Issued
  <1>7. CASE UNCHANGED vars
    BY <1>7 DEF vars, Issued
  <1> QED
    BY <1>1, <1>2, <1>3, <1>4, <1>5, <1>6, <1>7 DEF Next, Controller, Trouble

-----------------------------------------------------------------------------
(***************************************************************************)
(* The two clocks.                                                         *)
(***************************************************************************)

LEMMA ClockInit == Init => HubInv /\ EntryInv
  <1> SUFFICES ASSUME Init
               PROVE  HubInv /\ EntryInv
    OBVIOUS
  <1>1. ValidKeys = {}
    BY DEF Init, ValidKeys, Offered, NoPair
  <1>2. ~Cached
    BY Constants DEF Init, Cached, NoEntry
  <1> QED BY <1>1, <1>2 DEF HubInv, EntryInv

\* A step that leaves the hub's Secret, the cache and the clocks alone.
LEMMA ClockStill ==
    ASSUME HubInv, EntryInv, UNCHANGED <<hub, cache, lapsed>>
    PROVE  HubInv' /\ EntryInv'
BY DEF HubInv, EntryInv, ValidKeys, Cached

\* Every step keeps both clocks in order: only a write to the hub's Secret, a fetch and a
\* tick touch them.
LEMMA ClockNext == IInv /\ [Next]_vars => HubInv' /\ EntryInv'
  <1> SUFFICES ASSUME TypeOK, HubInv, EntryInv, [Next]_vars
               PROVE  HubInv' /\ EntryInv'
    BY DEF IInv
  <1> USE DEF controllerVars, serverVars, clockVars
  <1>1. CASE PersistHubPublicSecret
    <2>1. HubInv'
      BY <1>1, PersistClock DEF HubInv
    <2>2. cache' = cache /\ cache.keys \subseteq Keys /\ cache.age \in Nat
      BY <1>1, Constants DEF PersistHubPublicSecret, TypeOK
    <2>3. ASSUME Cached', NEW k \in cache.keys
          PROVE  lapsed'[k] <= cache.age
      <3>1. Cached /\ k \in Keys
        BY <2>2, <2>3 DEF Cached
      <3>2. lapsed[k] <= cache.age
        BY <2>3, <3>1 DEF EntryInv
      <3>3. lapsed'[k] <= lapsed[k] /\ lapsed[k] \in Nat /\ lapsed'[k] \in Nat
        BY <1>1, <3>1, PersistClock, Constants DEF TypeOK
      <3> QED BY <2>2, <3>2, <3>3
    <2> QED BY <2>1, <2>2, <2>3 DEF EntryInv
  <1>2. CASE CollectSecret
    <2>1. ValidKeys' = {} /\ UNCHANGED <<cache, lapsed>>
      BY <1>2 DEF CollectSecret, ValidKeys, Offered, NoPair
    <2> QED BY <2>1 DEF HubInv, EntryInv, Cached
  <1>3. CASE Request
    <2>1. UNCHANGED <<hub, lapsed>> /\ cache' = Entry
      BY <1>3 DEF Request
    <2>2. HubInv'
      BY <2>1 DEF HubInv, ValidKeys
    <2>3. CASE Cached \/ ValidKeys = {}
      BY <2>1, <2>2, <2>3 DEF Entry, EntryInv, Cached
    <2>4. CASE ~(Cached \/ ValidKeys = {})
      <3>1. cache'.keys = ValidKeys /\ cache'.age = 0
        BY <2>1, <2>4 DEF Entry
      <3> QED BY <2>1, <2>2, <3>1 DEF HubInv, EntryInv
    <2> QED BY <2>3, <2>4
  <1>4. CASE Tick
    <2>1. HubInv'
      BY <1>4, TickClock DEF HubInv
    <2>2. ASSUME Cached', NEW k \in cache'.keys
          PROVE  lapsed'[k] <= cache'.age
      <3>1. cache'.age = cache.age + 1 /\ cache'.age < CacheTTL /\ cache.age \in Nat
        BY <1>4, <2>2, TickClock, Constants DEF Cached, TypeOK
      <3>2. Cached /\ k \in cache.keys /\ k \in Keys
        BY <1>4, <2>2, <3>1, TickClock, Constants DEF Cached, TypeOK
      <3>3. lapsed[k] <= cache.age
        BY <3>2 DEF EntryInv
      <3>4. lapsed'[k] <= lapsed[k] + 1 /\ lapsed[k] \in Nat /\ lapsed'[k] \in Nat
        BY <1>4, <3>2, TickClock, Constants DEF TypeOK
      <3> QED BY <3>1, <3>3, <3>4
    <2> QED BY <2>1, <2>2 DEF EntryInv
  <1>5. CASE Ensure \/ PersistFails \/ DeleteZone
    BY <1>5, ClockStill DEF Ensure, PersistFails, DeleteZone
  <1>6. CASE Watcher \/ SetRefreshed
    BY <1>6, ClockStill DEF Watcher, Start, HandleEvent, Reconnect, SetRefreshed
  <1>7. CASE RefreshFails \/ StreamMessage \/ \E how \in {"closed", "silent"} : WatchBreaks(how)
    BY <1>7, ClockStill DEF RefreshFails, StreamMessage, WatchBreaks
  <1>8. CASE Unreachable \/ Reachable
    BY <1>8, ClockStill DEF Unreachable, Reachable
  <1>9. CASE UNCHANGED vars
    BY <1>9, ClockStill DEF vars
  <1> QED
    BY <1>1, <1>2, <1>3, <1>4, <1>5, <1>6, <1>7, <1>8, <1>9 DEF Next, Controller, Trouble

\* Both clocks together: whatever the verifier accepts is fresh enough.
LEMMA Closed == IInv => FailsClosed
  <1> SUFFICES ASSUME TypeOK, HubInv, EntryInv, NEW k \in Keys, Accepts(k)
               PROVE  lapsed[k] < CacheTTL
    BY DEF IInv, FailsClosed
  <1>1. CASE Cached
    <2>1. lapsed[k] <= cache.age /\ cache.age < CacheTTL
      BY <1>1 DEF Accepts, Lookup, EntryInv, Cached
    <2>2. lapsed[k] \in Nat /\ cache.age \in Nat
      BY Constants DEF TypeOK
    <2> QED BY <2>1, <2>2, Constants
  <1>2. CASE ~Cached
    BY <1>2, Constants DEF Accepts, Lookup, HubInv
  <1> QED BY <1>1, <1>2

-----------------------------------------------------------------------------
(***************************************************************************)
(* The outage of the zone's server.                                        *)
(***************************************************************************)

\* What IdentityAssumption says of the periods.
LEMMA Periods ==
    /\ MaxUnreachable < Overlap /\ CacheTTL < Rotation
    /\ Expiry = Rotation + Overlap /\ MaxOutage = CacheTTL + MaxUnreachable
BY IdentityAssumption DEF Expiry, MaxOutage

\* Whether the hub knows the key, before and after a step.
LEMMA UnsyncedFact ==
    ASSUME hub \in Pairs
    PROVE  /\ hub = NoPair => Unsynced
           /\ hub # NoPair => (Unsynced <=> downstream # hub[1].key)
  <1>1. hub = NoPair \/ DOMAIN hub = {1, 2}
    BY PairFact
  <1>2. ASSUME hub = NoPair
        PROVE  Unsynced
    BY <1>2 DEF NoPair, Unsynced
  <1>3. ASSUME DOMAIN hub = {1, 2}
        PROVE  Unsynced <=> downstream # hub[1].key
    BY <1>3 DEF Unsynced
  <1> QED BY <1>1, <1>2, <1>3

LEMMA UnsyncedFactNext ==
    ASSUME hub' \in Pairs
    PROVE  /\ hub' = NoPair => Unsynced'
           /\ hub' # NoPair => (Unsynced' <=> downstream' # hub'[1].key)
  <1>1. hub' = NoPair \/ DOMAIN hub' = {1, 2}
    BY PairFact
  <1>2. ASSUME hub' = NoPair
        PROVE  Unsynced'
    BY <1>2 DEF NoPair, Unsynced
  <1>3. ASSUME DOMAIN hub' = {1, 2}
        PROVE  Unsynced' <=> downstream' # hub'[1].key
    BY <1>3 DEF Unsynced
  <1> QED BY <1>1, <1>2, <1>3

\* The two identities of a pair that is there.
LEMMA HubType ==
    ASSUME TypeOK, hub # NoPair
    PROVE  /\ DOMAIN hub = {1, 2}
           /\ hub[1].key \in Keys /\ hub[1].age \in 0 .. Expiry
           /\ hub[2].key \in Keys /\ hub[2].age \in 0 .. Expiry
  <1>1. hub \in Identity \X Identity
    BY PairFact DEF TypeOK
  <1> QED BY <1>1 DEF Identity

\* The hub's current key is on offer, and so is the one before in the tick of a rotation.
LEMMA OfferFact ==
    ASSUME TypeOK, AgeInv, hub # NoPair
    PROVE  /\ hub[1].age < Expiry
           /\ hub[1].key \in ValidKeys
           /\ hub[1].age = 0 => hub[2].key \in ValidKeys
  <1>1. hub[1].age <= Rotation + unreachable /\ (hub[1].age = 0 => Valid(hub[2]))
    BY DEF AgeInv
  <1>2. unreachable \in 0 .. MaxUnreachable
    BY DEF TypeOK
  <1>3. hub[1].age < Expiry
    BY <1>1, <1>2, HubType, Constants, Periods
  <1>4. Valid(hub[1])
    BY <1>3 DEF Valid
  <1> QED BY <1>1, <1>3, <1>4, HubType DEF ValidKeys, Offered

\* A zone's server that has tried and is refused waits for the hub to hear of its
\* key, or for the verifier's entry to run out.
LEMMA Refused ==
    ASSUME TypeOK, AgeInv, CacheInv, FlightInv, tried, held # NoKey, ~Accepts(held)
    PROVE  Unsynced \/ hub[1].age < CacheTTL
  <1> SUFFICES ASSUME ~Unsynced
               PROVE  hub[1].age < CacheTTL
    OBVIOUS
  <1>1. hub # NoPair /\ downstream = hub[1].key
    BY UnsyncedFact DEF TypeOK
  <1>2. hub[1].age \in Nat /\ cache.age \in Nat
    BY <1>1, HubType, Constants DEF TypeOK
  <1>3. CASE Cached
    <2>1. held \notin cache.keys
      BY <1>3 DEF Accepts, Lookup
    <2>2. held \in Recent
      BY <2>1 DEF FlightInv, Served
    <2>3. CASE held = downstream
      BY <1>1, <1>2, <1>3, <2>1, <2>3, Constants DEF CacheInv, Cached
    <2>4. CASE held = Prior /\ JustRotated /\ held # downstream
      BY <1>1, <1>3, <2>1, <2>4 DEF CacheInv
    <2> QED BY <2>2, <2>3, <2>4 DEF Recent
  <1>4. CASE ~Cached
    <2>1. held \notin ValidKeys
      BY <1>4 DEF Accepts, Lookup
    <2>2. held \in Recent
      BY <1>4 DEF FlightInv, Served
    <2>3. held # downstream
      BY <1>1, <2>1, OfferFact
    <2>4. held = hub[2].key /\ hub[1].age = 0
      BY <1>1, <2>2, <2>3 DEF Recent, Prior, JustRotated
    <2> QED BY <1>1, <2>1, <2>4, OfferFact
  <1> QED BY <1>3, <1>4

\* A step that touches neither Secret leaves what is recent as it was.
LEMMA RecentStill ==
    ASSUME UNCHANGED <<downstream, hub>>
    PROVE  /\ Unsynced' = Unsynced /\ Prior' = Prior /\ JustRotated' = JustRotated
           /\ Recent' = Recent
BY DEF Unsynced, Prior, JustRotated, Recent

\* A step that touches neither Secret, the verifier's entry nor a clock.
LEMMA QuietStep ==
    ASSUME WriteInv, AgeInv, CacheInv, OutageInv,
           UNCHANGED <<downstream, hub, cache, unreachable, outage>>,
           write' = write \/ write' = NoPair
    PROVE  WriteInv' /\ AgeInv' /\ CacheInv' /\ OutageInv' /\ Cached' = Cached
  <1>1. /\ Unsynced' = Unsynced /\ Prior' = Prior /\ JustRotated' = JustRotated
    BY RecentStill
  <1>2. Cached' = Cached /\ ResyncHubPublicSecret' = ResyncHubPublicSecret
    BY DEF Cached, ResyncHubPublicSecret, Fresh
  <1> QED BY <1>1, <1>2 DEF WriteInv, AgeInv, CacheInv, OutageInv, Valid

\* Issuing the first key: nobody holds any yet.
LEMMA IssueService ==
    ASSUME TypeOK, Issued, ServiceInv, Ensure, zone, downstream = NoKey,
           NEW k \in Keys, IssueInitial(k)
    PROVE  ServiceInv'
  <1> USE DEF controllerVars, serverVars, clockVars
  <1>1. hub = NoPair /\ hub' = NoPair
    BY DEF ServiceInv, AgeInv, Ensure
  <1>2. held = NoKey /\ refresh = {} /\ events = <<>>
    BY DEF Issued
  <1>3. UNCHANGED <<held, refresh, events, tried, watch, zone, outage, unreachable>>
    BY <1>2 DEF Ensure, IssueInitial, Deliver
  <1>4. Unsynced /\ Unsynced'
    BY <1>1, UnsyncedFact, UnsyncedFactNext DEF TypeOK
  <1>5. write' = ResyncHubPublicSecret'
    BY <1>1 DEF IssueInitial, Deliver, ResyncHubPublicSecret, Fresh
  <1> QED BY <1>1, <1>2, <1>3, <1>4, <1>5
       DEF ServiceInv, WatchInv, WriteInv, AgeInv, CacheInv, FlightInv, OutageInv

\* Rotation: the outage, if there was one, is over, so a new one may begin.
LEMMA RotateService ==
    ASSUME TypeOK, ServiceInv, Ensure, zone, downstream # NoKey, ~Unsynced, Due(hub[1]),
           NEW k \in NewKeys, Rotate(k)
    PROVE  ServiceInv'
  <1> USE DEF controllerVars, serverVars, clockVars
  <1>1. hub # NoPair /\ downstream = hub[1].key /\ WriteInv /\ AgeInv /\ CacheInv /\ FlightInv /\ OutageInv
    BY UnsyncedFact DEF TypeOK, ServiceInv
  <1>2. /\ UNCHANGED <<hub, held, refresh, tried, watch, zone, cache, outage, unreachable>>
        /\ downstream' = k /\ write' = <<Fresh(k), hub[1]>>
        /\ events' = events \/ (watch = "open" /\ events' = Append(events, k))
    BY DEF Ensure, Rotate, Deliver
  <1>3. k \in Keys /\ k # hub[1].key /\ k # NoKey
    BY <1>1, HubType, Constants DEF NewKeys, KeysOf
  <1>4. Unsynced' /\ Prior' = downstream /\ JustRotated' /\ Cached' = Cached
    BY <1>1, <1>2, <1>3, UnsyncedFactNext DEF TypeOK, Prior, JustRotated, Cached
  <1>5. hub[1].age \in Nat /\ hub[1].age >= Rotation /\ hub[1].age > CacheTTL /\ hub[1].age # 0
    BY <1>1, HubType, Constants, Periods DEF Due
  <1>6. Recent \subseteq Recent'
    <2>1. ~JustRotated
      BY <1>5 DEF JustRotated
    <2> QED BY <1>4, <2>1 DEF Recent
  <1>7. WatchInv' /\ WriteInv' /\ AgeInv'
    <2>1. write' = ResyncHubPublicSecret'
      BY <1>1, <1>2 DEF ResyncHubPublicSecret, Fresh
    <2>2. AgeInv'
      BY <1>1, <1>2, <1>3, <1>5 DEF AgeInv, Valid
    <2> QED BY <1>2, <1>4, <2>1, <2>2 DEF WatchInv, WriteInv, ServiceInv
  <1>8. CacheInv'
    <2>1. ASSUME Cached
          PROVE  downstream \in cache.keys
      <3>1. cache.age < CacheTTL /\ cache.age \in Nat
        BY <2>1, Constants DEF Cached, TypeOK
      <3> QED BY <1>1, <1>5, <2>1, <3>1, Constants DEF CacheInv
    <2> QED BY <1>2, <1>4, <2>1 DEF CacheInv
  <1>9. FlightInv'
    <2>1. ASSUME NEW i \in DOMAIN events'
          PROVE  events'[i] \in Recent'
      <3>1. CASE events' = events
        BY <1>1, <1>6, <2>1, <3>1 DEF FlightInv
      <3>2. CASE events' = Append(events, k)
        <4>1. (i \in DOMAIN events /\ events'[i] = events[i]) \/ events'[i] = k
          BY <2>1, <3>2 DEF TypeOK
        <4>2. k \in Recent'
          BY <1>2 DEF Recent
        <4> QED BY <1>1, <1>6, <4>1, <4>2 DEF FlightInv
      <3> QED BY <1>2, <3>1, <3>2
    <2>2. Served' = Served
      BY <1>2 DEF Served, Cached
    <2> QED BY <1>1, <1>2, <1>6, <2>1, <2>2 DEF FlightInv
  <1>10. OutageInv'
    <2>1. outage \in Nat /\ outage <= 0 /\ unreachable \in Nat
      BY <1>1, <1>5, Constants DEF OutageInv, TypeOK
    <2> QED BY <1>2, <1>4, <2>1 DEF OutageInv
  <1> QED BY <1>7, <1>8, <1>9, <1>10 DEF ServiceInv

\* Issue, resync or rotate.
LEMMA EnsureService ==
    ASSUME TypeOK, Issued, ServiceInv, Ensure
    PROVE  ServiceInv'
  <1> USE DEF controllerVars, serverVars, clockVars
  <1>1. zone /\ EnsureIdentity
    BY DEF Ensure
  <1>2. NewKeys # {} => GenerateIdentity \in NewKeys
    BY DEF GenerateIdentity
  <1>3. NewKeys \subseteq Keys
    BY DEF NewKeys
  <1>4. CASE downstream = NoKey /\ IssueInitial(GenerateIdentity)
    <2>1. GenerateIdentity \in Keys
      BY <1>2, <1>3, <1>4 DEF IssueInitial, Deliver
    <2> QED BY <1>1, <1>4, <2>1, IssueService
  <1>5. CASE downstream # NoKey /\ ~Unsynced /\ Due(hub[1]) /\ Rotate(GenerateIdentity)
    <2>1. GenerateIdentity \in NewKeys
      BY <1>2, <1>5 DEF Rotate, Deliver
    <2> QED BY <1>1, <1>5, <2>1, RotateService
  <1>6. CASE downstream # NoKey /\ Unsynced /\ Resync
    <2>1. UNCHANGED <<zone, downstream, hub, cache, unreachable, outage, events, refresh, tried, held, watch>>
      BY <1>6 DEF Ensure, Resync
    <2>2. /\ Unsynced' = Unsynced /\ Prior' = Prior /\ JustRotated' = JustRotated
          /\ Recent' = Recent
      BY <2>1, RecentStill
    <2>3. Cached' = Cached /\ Served' = Served /\ write' = ResyncHubPublicSecret'
      BY <1>6, <2>1 DEF Cached, Served, Resync, ResyncHubPublicSecret, Fresh
    <2>4. WatchInv' /\ WriteInv' /\ AgeInv' /\ CacheInv' /\ OutageInv'
      BY <1>1, <1>6, <2>1, <2>2, <2>3
         DEF ServiceInv, WatchInv, WriteInv, AgeInv, CacheInv, OutageInv, Valid
    <2>5. FlightInv'
      BY <1>1, <2>1, <2>2, <2>3 DEF ServiceInv, FlightInv
    <2> QED BY <2>4, <2>5 DEF ServiceInv
  <1> QED BY <1>1, <1>4, <1>5, <1>6 DEF EnsureIdentity

\* The hub hears of the key.
LEMMA PersistService ==
    ASSUME TypeOK, ServiceInv, PersistHubPublicSecret
    PROVE  ServiceInv'
  <1> USE DEF controllerVars, serverVars, clockVars
  <1>1. UNCHANGED <<zone, downstream, held, events, watch, refresh, tried, cache, unreachable, outage>>
    BY DEF PersistHubPublicSecret
  <1>2. CASE ~zone
    BY <1>1, <1>2 DEF ServiceInv, WatchInv
  <1>3. CASE zone
    <2>1. WriteInv /\ AgeInv /\ CacheInv /\ FlightInv /\ OutageInv /\ WatchInv
      BY <1>3 DEF ServiceInv
    <2>2. write # NoPair /\ Unsynced /\ hub' = ResyncHubPublicSecret /\ write' = NoPair /\ hub' = write
      BY <1>3, <2>1 DEF PersistHubPublicSecret, WriteInv
    <2>3. hub' \in Identity \X Identity
      BY <2>2, PairFact DEF TypeOK
    <2>4. hub' = <<Fresh(downstream), IF hub = NoPair THEN Fresh(downstream) ELSE hub[1]>>
      BY <2>2 DEF ResyncHubPublicSecret
    <2>5. hub'[1].key = downstream /\ hub'[1].age = 0 /\ downstream \in Keys
      BY <2>3, <2>4 DEF Fresh, Identity
    <2>6. hub' # NoPair /\ hub' \in Pairs
      BY <2>3, PairFact DEF Pairs, NoPair
    <2>7. ~Unsynced' /\ JustRotated' /\ JustRotated /\ Cached' = Cached /\ Served' = Served
      BY <1>1, <2>2, <2>5, <2>6, UnsyncedFactNext DEF JustRotated, Cached, Served
    <2>8. Prior' = Prior
      <3>1. Prior' = hub'[2].key
        BY <2>6, <2>7 DEF Prior
      <3> QED BY <2>2, <2>4, <3>1 DEF Prior, Fresh
    <2>9. Recent' = Recent
      BY <1>1, <2>7, <2>8 DEF Recent
    <2>10. AgeInv'
      <3>1. hub'[2].age < Expiry
        <4>1. CASE hub = NoPair
          BY <2>4, <4>1, Constants, Periods DEF Fresh
        <4>2. CASE hub # NoPair
          BY <2>1, <2>4, <4>2, OfferFact
        <4> QED BY <4>1, <4>2
      <3>2. unreachable \in Nat
        BY Constants DEF TypeOK
      <3>3. hub'[1].age <= Rotation + unreachable
        BY <2>5, <3>2, Constants
      <3> QED BY <1>1, <2>5, <2>7, <3>1, <3>3, Constants DEF AgeInv, Valid
    <2>11. CacheInv'
      <3>1. cache.age \in Nat
        BY Constants DEF TypeOK
      <3>2. CASE hub = NoPair
        BY <1>1, <2>5, <2>8, <3>1, <3>2 DEF CacheInv, Prior
      <3>3. CASE hub # NoPair
        BY <1>1, <2>1, <2>5, <2>7, <2>8, <3>1, <3>3 DEF CacheInv
      <3> QED BY <3>2, <3>3
    <2>12. FlightInv'
      BY <1>1, <2>1, <2>7, <2>9 DEF FlightInv
    <2>13. OutageInv'
      <3>1. outage \in Nat /\ unreachable \in Nat /\ outage <= unreachable /\ unreachable <= MaxUnreachable
        BY <2>1, <2>2, Constants DEF OutageInv, TypeOK
      <3> QED BY <1>1, <2>5, <2>7, <3>1, Constants DEF OutageInv
    <2> QED BY <1>1, <2>1, <2>2, <2>10, <2>11, <2>12, <2>13 DEF ServiceInv, WatchInv, WriteInv
  <1> QED BY <1>2, <1>3 DEF TypeOK

\* A request that is accepted is served by the entry it leaves behind; a fetch
\* finds every recent key.
LEMMA RequestService ==
    ASSUME TypeOK, ServiceInv, Request
    PROVE  ServiceInv'
  <1> USE DEF controllerVars, serverVars, clockVars
  <1>1. UNCHANGED <<zone, downstream, hub, write, held, events, watch, unreachable, outage>> /\ cache' = Entry
    BY DEF Request
  <1>2. CASE ~zone
    BY <1>1, <1>2 DEF ServiceInv, WatchInv
  <1>3. CASE zone
    <2>1. WriteInv /\ AgeInv /\ CacheInv /\ FlightInv /\ OutageInv /\ WatchInv
      BY <1>3 DEF ServiceInv
    <2>2. /\ Unsynced' = Unsynced /\ Prior' = Prior /\ JustRotated' = JustRotated
          /\ Recent' = Recent
      BY <1>1, RecentStill
    <2>3. WatchInv' /\ WriteInv' /\ AgeInv' /\ OutageInv'
      <3>1. ResyncHubPublicSecret' = ResyncHubPublicSecret
        BY <1>1 DEF ResyncHubPublicSecret, Fresh
      <3> QED BY <1>1, <2>1, <2>2, <3>1 DEF WatchInv, WriteInv, AgeInv, OutageInv, Valid
    <2>4. CacheInv'
      <3>1. CASE Cached \/ ValidKeys = {}
        <4>1. cache' = cache /\ Cached' = Cached
          BY <1>1, <3>1 DEF Entry, Cached
        <4> QED BY <1>1, <2>1, <2>2, <4>1 DEF CacheInv
      <3>2. CASE ~(Cached \/ ValidKeys = {})
        <4>1. cache'.keys = ValidKeys
          BY <1>1, <3>2 DEF Entry
        <4> SUFFICES ASSUME hub # NoPair
                     PROVE  /\ ~Unsynced => downstream \in ValidKeys
                            /\ JustRotated => Prior \in ValidKeys
          BY <1>1, <2>2, <4>1 DEF CacheInv
        <4>2. ~Unsynced => downstream = hub[1].key
          BY UnsyncedFact DEF TypeOK
        <4> QED BY <2>1, <4>2, OfferFact DEF JustRotated, Prior
      <3> QED BY <3>1, <3>2
    <2>5. FlightInv'
      <3>1. RecordResult(Accepts(held))
        BY DEF Request
      <3>2. refresh' \subseteq Recent'
        <4>1. refresh' \subseteq refresh \cup {downstream}
          BY <3>1 DEF RecordResult, Recover
        <4>2. refresh \subseteq Recent /\ downstream \in Recent
          BY <2>1 DEF FlightInv, Recent
        <4> QED BY <2>2, <4>1, <4>2
      <3>3. Served => Served'
        <4>1. Cached => cache' = cache
          BY <1>1 DEF Entry
        <4> QED BY <1>1, <4>1 DEF Served, Cached
      <3>4. Accepts(held) => Served'
        <4>1. CASE Cached
          BY <3>3, <4>1 DEF Accepts, Lookup, Served
        <4>2. CASE ~Cached /\ held \in ValidKeys
          <5>1. cache'.keys = ValidKeys /\ cache'.age = 0
            BY <1>1, <4>2 DEF Entry
          <5> QED BY <1>1, <4>2, <5>1, Constants DEF Served, Cached
        <4> QED BY <4>1, <4>2 DEF Accepts, Lookup
      <3>5. Accepts(held) \/ tried' = tried
        BY <3>1 DEF RecordResult
      <3> QED BY <1>1, <2>1, <2>2, <3>2, <3>3, <3>4, <3>5 DEF FlightInv
    <2> QED BY <2>3, <2>4, <2>5 DEF ServiceInv
  <1> QED BY <1>2, <1>3 DEF TypeOK

\* A tick leaves the keys of a pair, and makes a valid identity one tick older.
LEMMA AgedKeys ==
    ASSUME TypeOK, hub # NoPair, hub' = Aged(hub)
    PROVE  /\ hub' # NoPair
           /\ hub'[1].key = hub[1].key /\ hub'[2].key = hub[2].key
           /\ hub[1].age < Expiry => hub'[1].age = hub[1].age + 1
  <1>1. hub \in Identity \X Identity
    BY PairFact DEF TypeOK
  <1>2. DOMAIN hub = {1, 2} /\ hub[1] \in Identity /\ hub[2] \in Identity
    BY <1>1
  <1>3. /\ DOMAIN hub' = {1, 2}
        /\ hub'[1] = [hub[1] EXCEPT !.age = Older(hub[1].age, Expiry)]
        /\ hub'[2] = [hub[2] EXCEPT !.age = Older(hub[2].age, Expiry)]
    BY <1>2 DEF Aged
  <1>4. hub' # NoPair
    BY <1>3 DEF NoPair
  <1>5. hub'[1].key = hub[1].key /\ hub'[2].key = hub[2].key /\ hub'[1].age = Older(hub[1].age, Expiry)
    BY <1>2, <1>3 DEF Identity
  <1> QED BY <1>4, <1>5 DEF Older

\* A tick: everybody has done what there was to do.
LEMMA TickService ==
    ASSUME TypeOK, ServiceInv, Tick
    PROVE  ServiceInv'
  <1> USE DEF controllerVars, serverVars, clockVars
  <1>1. UNCHANGED <<zone, downstream, write, held, events, watch, refresh>> /\ ~Busy /\ hub' = Aged(hub)
    BY DEF Tick
  <1>2. CASE ~zone
    BY <1>1, <1>2 DEF ServiceInv, WatchInv
  <1>3. CASE zone
    <2>1. WriteInv /\ AgeInv /\ CacheInv /\ FlightInv /\ OutageInv /\ WatchInv
      BY <1>3 DEF ServiceInv
    <2>2. /\ write = NoPair /\ refresh = {} /\ held # NoKey /\ tried
          /\ events = <<>>
          /\ cut \/ (~Unsynced /\ ~Due(hub[1]))
      BY <1>1, <1>3, <2>1 DEF Busy, WatchInv, TypeOK
    <2>3. /\ unreachable' = IF cut THEN unreachable + 1 ELSE 0
          /\ unreachable \in Nat /\ unreachable' \in Nat
      <3>1. unreachable' = IF cut THEN unreachable + 1 ELSE 0
        BY DEF Tick
      <3>2. unreachable \in Nat
        BY Constants DEF TypeOK
      <3> QED BY <3>1, <3>2
    <2>4. hub' \in Pairs
      BY TickClock
    <2>5. ASSUME hub # NoPair
          PROVE  /\ hub' # NoPair /\ Unsynced' = Unsynced
                 /\ hub'[1].age = hub[1].age + 1 /\ hub[1].age \in Nat
                 /\ hub'[1].key = hub[1].key /\ hub'[2].key = hub[2].key
      <3>1. hub[1].age < Expiry /\ hub[1].age \in Nat
        BY <2>1, <2>5, OfferFact, HubType, Constants
      <3>2. /\ hub' # NoPair
            /\ hub'[1].key = hub[1].key /\ hub'[2].key = hub[2].key
            /\ hub'[1].age = hub[1].age + 1
        BY <1>1, <2>5, <3>1, AgedKeys
      <3>3. Unsynced' = Unsynced
        <4>1. (Unsynced <=> downstream # hub[1].key) /\ (Unsynced' <=> downstream' # hub'[1].key)
          BY <2>4, <2>5, <3>2, UnsyncedFact, UnsyncedFactNext DEF TypeOK
        <4>2. Unsynced \in BOOLEAN /\ Unsynced' \in BOOLEAN
          BY DEF Unsynced
        <4> QED BY <1>1, <3>2, <4>1, <4>2
      <3> QED BY <3>1, <3>2, <3>3
    <2>6. ASSUME hub = NoPair
          PROVE  hub' = NoPair /\ Unsynced /\ Unsynced'
      <3>1. hub' = NoPair
        BY <1>1, <2>6 DEF Aged, NoPair
      <3> QED BY <2>4, <2>6, <3>1, UnsyncedFact, UnsyncedFactNext DEF TypeOK
    <2>7. AgeInv'
      <3> SUFFICES ASSUME hub' # NoPair
                   PROVE  /\ downstream' # NoKey
                          /\ hub'[1].age <= Rotation + unreachable'
                          /\ Unsynced' => hub'[1].age >= Rotation
                          /\ hub'[1].age # 0
        BY DEF AgeInv
      <3>1. hub # NoPair
        BY <2>6
      <3>2. /\ downstream # NoKey /\ hub[1].age <= Rotation + unreachable
            /\ Unsynced => hub[1].age >= Rotation
        BY <2>1, <3>1 DEF AgeInv
      <3>3. cut \/ hub[1].age < Rotation
        BY <2>2, <2>5, <3>1, Constants DEF Due
      <3> QED BY <1>1, <2>3, <2>5, <3>1, <3>2, <3>3, Constants
    <2>8. CacheInv'
      <3> SUFFICES ASSUME hub' # NoPair, Cached'
                   PROVE  /\ ~Unsynced' /\ downstream' \notin cache'.keys => hub'[1].age <= cache'.age
                          /\ JustRotated' => Prior' = downstream' \/ Prior' \in cache'.keys
        BY DEF CacheInv
      <3>1. hub # NoPair
        BY <2>6
      <3>2. cache'.keys = cache.keys /\ cache'.age = cache.age + 1 /\ cache.age \in Nat /\ Cached
        BY TickClock, Constants DEF Cached, TypeOK
      <3>3. /\ ~Unsynced /\ downstream \notin cache.keys => hub[1].age <= cache.age
            /\ JustRotated => Prior = downstream \/ Prior \in cache.keys
        BY <2>1, <3>1, <3>2 DEF CacheInv
      <3>4. JustRotated' => Unsynced
        BY <2>5, <3>1 DEF JustRotated
      <3>5. Unsynced => JustRotated /\ Prior' = Prior
        BY <2>5, <3>1 DEF JustRotated, Prior
      <3>6. ~Unsynced' /\ downstream' \notin cache'.keys => hub'[1].age <= cache'.age
        BY <1>1, <2>5, <3>1, <3>2, <3>3
      <3> QED BY <1>1, <3>2, <3>3, <3>4, <3>5, <3>6
    <2>9. FlightInv'
      BY <1>1, <2>2 DEF FlightInv, Tick
    <2>10. OutageInv'
      <3>1. outage' = IF Accepts(held) THEN 0 ELSE Older(outage, MaxOutage + 1)
        BY DEF Tick
      <3>2. outage \in Nat /\ outage' \in Nat /\ outage' <= outage + 1
        BY <3>1, Constants DEF Older, TypeOK
      <3>3. CASE Accepts(held)
        <4>1. outage' = 0
          BY <3>1, <3>3
        <4>2. ~Unsynced' => hub'[1].age \in Nat
          BY <2>5, <2>6
        <4> QED BY <2>3, <4>1, <4>2, Constants DEF OutageInv
      <3>4. CASE ~Accepts(held) /\ Unsynced
        <4>1. Unsynced' /\ cut
          BY <2>2, <2>5, <2>6, <3>4
        <4>2. outage <= unreachable
          BY <2>1, <3>4 DEF OutageInv
        <4> QED BY <2>3, <3>2, <4>1, <4>2 DEF OutageInv
      <3>5. CASE ~Accepts(held) /\ ~Unsynced
        <4>1. hub[1].age < CacheTTL
          BY <2>1, <2>2, <3>5, Refused
        <4>2. hub # NoPair
          BY <2>6, <3>5
        <4>3. outage <= MaxUnreachable + hub[1].age
          BY <2>1, <2>5, <3>5, <4>1, <4>2, Constants DEF OutageInv
        <4>4. ~Unsynced' /\ hub'[1].age = hub[1].age + 1 /\ hub[1].age \in Nat
          BY <2>5, <3>5, <4>2
        <4>5. hub'[1].age <= CacheTTL /\ outage' <= MaxUnreachable + hub'[1].age
          BY <3>2, <4>1, <4>3, <4>4, Constants
        <4> QED BY <4>4, <4>5 DEF OutageInv
      <3> QED BY <3>3, <3>4, <3>5
    <2>11. WatchInv' /\ WriteInv'
      BY <1>1, <2>2 DEF WatchInv, WriteInv
    <2> QED BY <2>7, <2>8, <2>9, <2>10, <2>11 DEF ServiceInv
  <1> QED BY <1>2, <1>3 DEF TypeOK

\* The zone's server takes over a key that is on its way, or loses what is.
LEMMA ServerService ==
    ASSUME TypeOK, ServiceInv,
           UNCHANGED <<zone, downstream, hub, cache, unreachable, outage>>,
           write' = write \/ write' = NoPair,
           Watcher \/ SetRefreshed \/ RefreshFails \/ StreamMessage \/ PersistFails
             \/ Unreachable \/ Reachable \/ UNCHANGED vars
             \/ \E how \in {"closed", "silent"} : WatchBreaks(how)
    PROVE  ServiceInv'
  <1> USE DEF controllerVars, serverVars, clockVars
  <1> DEFINE Taken ==
               /\ watch' # "open" => events' = <<>>
               /\ \A i \in DOMAIN events' :
                     events'[i] = downstream \/ \E j \in DOMAIN events : events'[i] = events[j]
               /\ refresh' \subseteq refresh
               /\ \/ held' = held /\ tried' = tried
                  \/ held' = downstream
                  \/ held' \in refresh
                  \/ \E j \in DOMAIN events : held' = events[j]
  <1>1. WatchInv
    BY DEF ServiceInv
  <1>2. Taken
    <2>1. CASE Start
      BY <1>1, <2>1 DEF Start, WatchInv
    <2>2. CASE HandleEvent
      <3>1. events \in Seq(Keys) /\ events # <<>> /\ watch' = "open"
        BY <2>2 DEF HandleEvent, TypeOK
      <3>2. 1 \in DOMAIN events /\ held' = events[1] /\ refresh' = refresh
        BY <2>2, <3>1 DEF HandleEvent
      <3>3. \A i \in DOMAIN events' : i + 1 \in DOMAIN events /\ events'[i] = events[i + 1]
        BY <2>2, <3>1 DEF HandleEvent
      <3> QED BY <3>1, <3>2, <3>3
    <2>3. CASE Reconnect
      <3>1. DOMAIN events' = {1} /\ events'[1] = downstream
        BY <2>3 DEF Reconnect
      <3> QED BY <2>3, <3>1 DEF Reconnect
    <2>4. CASE SetRefreshed
      BY <1>1, <2>4 DEF SetRefreshed, WatchInv
    <2>5. CASE RefreshFails \/ StreamMessage \/ PersistFails \/ Unreachable \/ Reachable \/ UNCHANGED vars
      BY <1>1, <2>5 DEF RefreshFails, StreamMessage, PersistFails, Unreachable, Reachable, vars, WatchInv
    <2>6. ASSUME NEW how \in {"closed", "silent"}, WatchBreaks(how)
          PROVE  Taken
      BY <2>6 DEF WatchBreaks
    <2> QED BY <2>1, <2>2, <2>3, <2>4, <2>5, <2>6 DEF Watcher
  <1> HIDE DEF Taken
  <1>3. WatchInv'
    BY <1>2 DEF Taken, WatchInv
  <1>4. CASE ~zone
    BY <1>3, <1>4 DEF ServiceInv
  <1>5. CASE zone
    <2>1. WriteInv /\ AgeInv /\ CacheInv /\ FlightInv /\ OutageInv
      BY <1>5 DEF ServiceInv
    <2>2. WriteInv' /\ AgeInv' /\ CacheInv' /\ OutageInv' /\ Cached' = Cached
      BY <2>1, QuietStep
    <2>3. Recent' = Recent
      BY RecentStill
    <2>4. downstream \in Recent /\ \A j \in DOMAIN events : events[j] \in Recent
      BY <2>1 DEF Recent, FlightInv
    <2>5. \A i \in DOMAIN events' : events'[i] \in Recent'
      BY <1>2, <2>3, <2>4 DEF Taken
    <2>6. refresh' \subseteq Recent'
      BY <1>2, <2>1, <2>3 DEF Taken, FlightInv
    <2>7. tried' /\ held' # NoKey => held' \in Recent' \/ Served'
      <3>1. CASE held' = held /\ tried' = tried
        BY <2>1, <2>2, <2>3, <3>1 DEF FlightInv, Served
      <3>2. CASE held' = downstream \/ held' \in refresh
                   \/ \E j \in DOMAIN events : held' = events[j]
        BY <2>1, <2>3, <2>4, <3>2 DEF FlightInv
      <3> QED BY <1>2, <3>1, <3>2 DEF Taken
    <2>8. FlightInv'
      BY <2>5, <2>6, <2>7 DEF FlightInv
    <2> QED BY <1>3, <2>2, <2>8 DEF ServiceInv
  <1> QED BY <1>4, <1>5 DEF TypeOK

\* Every step keeps the invariant.
LEMMA ServiceNext == TypeOK /\ Issued /\ ServiceInv /\ [Next]_vars => ServiceInv'
  <1> SUFFICES ASSUME TypeOK, Issued, ServiceInv, [Next]_vars
               PROVE  ServiceInv'
    OBVIOUS
  <1> USE DEF controllerVars, serverVars, clockVars
  <1>1. CASE Ensure
    BY <1>1, EnsureService
  <1>2. CASE PersistHubPublicSecret
    BY <1>2, PersistService
  <1>3. CASE Request
    BY <1>3, RequestService
  <1>4. CASE Tick
    BY <1>4, TickService
  <1>5. CASE DeleteZone \/ CollectSecret
    BY <1>5 DEF DeleteZone, CollectSecret, ServiceInv, WatchInv
  <1>6. CASE Watcher \/ SetRefreshed
    BY <1>6, ServerService DEF Watcher, Start, HandleEvent, Reconnect, SetRefreshed
  <1>7. CASE RefreshFails \/ StreamMessage \/ PersistFails
    BY <1>7, ServerService DEF RefreshFails, StreamMessage, PersistFails
  <1>8. CASE Unreachable \/ Reachable \/ UNCHANGED vars
    BY <1>8, ServerService DEF Unreachable, Reachable, vars
  <1>9. ASSUME NEW how \in {"closed", "silent"}, WatchBreaks(how)
        PROVE  ServiceInv'
    BY <1>9, ServerService DEF WatchBreaks
  <1> QED
    BY <1>1, <1>2, <1>3, <1>4, <1>5, <1>6, <1>7, <1>8, <1>9 DEF Next, Controller, Trouble

LEMMA ServiceInit == Init => ServiceInv
  <1> SUFFICES ASSUME Init
               PROVE  ServiceInv
    OBVIOUS
  <1>1. hub = NoPair /\ write = NoPair /\ events = <<>> /\ refresh = {} /\ held = NoKey
    BY DEF Init
  <1>2. Unsynced /\ outage <= unreachable
    BY <1>1, UnsyncedFact DEF Init, Pairs
  <1> QED BY <1>1, <1>2
       DEF ServiceInv, WatchInv, WriteInv, AgeInv, CacheInv, FlightInv, OutageInv

LEMMA Short == TypeOK /\ ServiceInv => ShortOutage
  <1> SUFFICES ASSUME TypeOK, OutageInv
               PROVE  outage <= MaxOutage
    BY DEF ServiceInv, ShortOutage
  <1>1. outage \in Nat /\ unreachable \in Nat /\ unreachable <= MaxUnreachable
    BY Constants DEF TypeOK
  <1>2. CASE Unsynced
    BY <1>1, <1>2, Constants, Periods DEF OutageInv
  <1>3. CASE ~Unsynced
    <2>1. hub[1].age \in Nat
      BY <1>3, UnsyncedFact, HubType, Constants DEF TypeOK
    <2> QED BY <1>1, <1>3, <2>1, Constants, Periods DEF OutageInv
  <1> QED BY <1>2, <1>3

-----------------------------------------------------------------------------

\* The identity's state is well typed at every moment, whatever is lost,
\* refused or delayed between controller, hub and zone.
THEOREM Typing == Spec => []TypeOK
  <1>1. Init => TypeOK /\ Issued
    BY TypeInit DEF Init, Issued
  <1>2. TypeOK /\ Issued /\ [Next]_vars => (TypeOK /\ Issued)'
    BY TypeNext, IssuedNext
  <1> QED BY <1>1, <1>2, PTL DEF Spec

\* For all periods, the verifier (Verifier.lookup) refuses a key before it has
\* lapsed for a cache period: after a rotation, an expiry or the deletion of the
\* Zone, and in whatever order requests, writes and ticks come.
THEOREM LapsedIsRefused == Spec => []FailsClosed
  <1>1. Init => IInv
    BY TypeInit, ClockInit DEF IInv, Init, Issued
  <1>2. IInv /\ [Next]_vars => IInv'
    BY TypeNext, IssuedNext, ClockNext DEF IInv
  <1> QED BY <1>1, <1>2, Closed, PTL DEF Spec

\* For all periods and however the two writes of a rotation come apart, the watch
\* dies or a Refresh overtakes it, the zone's server (relay, WatchIdentity) is not
\* refused for longer than the verifier's cache period plus the time the hub does
\* not get through to the zone's cluster.
THEOREM OutageIsShort == Spec => []ShortOutage
  <1>1. Init => TypeOK /\ Issued /\ ServiceInv
    BY TypeInit, ServiceInit DEF Init, Issued
  <1>2. TypeOK /\ Issued /\ ServiceInv /\ [Next]_vars => (TypeOK /\ Issued /\ ServiceInv)'
    BY TypeNext, IssuedNext, ServiceNext
  <1> QED BY <1>1, <1>2, Short, PTL DEF Spec
=============================================================================
