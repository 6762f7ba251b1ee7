------------------------------ MODULE EtcdProxy ------------------------------
(***************************************************************************)
(* A Watch or LeaseKeepAlive stream on its way from an etcd client through *)
(* the zone's relay and the hub's proxy to Kine (pkg/domain/etcdproxy,     *)
(* proxy.go, pool.go, relay.go).  Each hop serves a stream on one side,    *)
(* has opened one on the other, and pumps between them with one goroutine  *)
(* in either direction.                                                    *)
(*                                                                         *)
(* Link l joins hop l to hop l + 1; hop 0 is the client and the one after  *)
(* the last proxy is Kine.  Links are gRPC streams: the client half-closes *)
(* one, the server ends it with a status, and either end may cancel or     *)
(* lose it.                                                                *)
(***************************************************************************)
EXTENDS Naturals, Sequences

CONSTANTS
    Hops,          \* proxies between the client and Kine
    MaxMessages    \* bound: messages in each direction

ASSUME ProxyAssumption == Hops \in Nat \ {0} /\ MaxMessages \in Nat

VARIABLES
    link,   \* link -> its state
    hop,    \* hop -> the handler and its two goroutines
    sent,   \* requests the client sent, responses Kine sent
    got     \* requests Kine got, responses the client got

vars == <<link, hop, sent, got>>

Links == 0 .. Hops
Proxies == 1 .. Hops
Statuses == {"open", "ok", "failed"}

TypeOK ==
    /\ link \in [Links -> [live : BOOLEAN, reqs : 0 .. MaxMessages, resps : 0 .. MaxMessages,
                           closed : BOOLEAN, end : Statuses]]
    /\ hop \in [Proxies -> [st : {"idle", "pumping", "returned"}, req : Statuses, resp : Statuses]]
    /\ sent \in (0 .. MaxMessages) \X (0 .. MaxMessages)
    /\ got \in (0 .. MaxMessages) \X (0 .. MaxMessages)

\* reqs and resps count the messages under way; gRPC keeps them in order.
NoLink == [live |-> FALSE, reqs |-> 0, resps |-> 0, closed |-> FALSE, end |-> "open"]
Opened == [NoLink EXCEPT !.live = TRUE]

\* What is left of a stream that is cancelled or broken: nothing under way.
Severed(l) == [l EXCEPT !.end = "failed", !.reqs = 0, !.resps = 0]

Init ==
    /\ link = [l \in Links |-> IF l = 0 THEN Opened ELSE NoLink]
    /\ hop = [h \in Proxies |-> [st |-> "idle", req |-> "open", resp |-> "open"]]
    /\ sent = <<0, 0>> /\ got = <<0, 0>>

Usable(l) == link[l].live /\ link[l].end = "open"

-----------------------------------------------------------------------------
(***************************************************************************)
(* Proxy.Watch, Proxy.LeaseKeepAlive and pumpBidi.                         *)
(***************************************************************************)

\* authenticate, then open a stream to the next hop over a connection of the
\* pool; either may fail.
Open(h) ==
    /\ hop[h].st = "idle" /\ Usable(h - 1)
    /\ \/ /\ hop' = [hop EXCEPT ![h].st = "pumping"]
          /\ link' = [link EXCEPT ![h] = Opened]
       \/ /\ hop' = [hop EXCEPT ![h].st = "returned"]
          /\ link' = [link EXCEPT ![h - 1].end = "failed"]
    /\ UNCHANGED <<sent, got>>

Pumps(h, direction) == hop[h].st = "pumping" /\ hop[h][direction] = "open"

\* Mutant: the error of client.Send is not looked at.
ForwardRequestUnchecked(h) ==
    /\ Pumps(h, "req") /\ Usable(h - 1) /\ link[h - 1].reqs > 0
    /\ link' = [link EXCEPT ![h - 1].reqs = @ - 1, ![h].reqs = IF Usable(h) THEN @ + 1 ELSE @]
    /\ UNCHANGED <<hop, sent, got>>

\* One request: server.Recv, then client.Send.
ForwardRequest(h) ==
    /\ Pumps(h, "req") /\ Usable(h - 1) /\ link[h - 1].reqs > 0
    /\ \/ /\ Usable(h)
          /\ link' = [link EXCEPT ![h - 1].reqs = @ - 1, ![h].reqs = @ + 1]
          /\ UNCHANGED hop
       \/ /\ ~Usable(h)
          /\ link' = [link EXCEPT ![h - 1].reqs = @ - 1]
          /\ hop' = [hop EXCEPT ![h].req = "failed"]
    /\ UNCHANGED <<sent, got>>

\* server.Recv says io.EOF, which is passed on with CloseSend, or that the stream
\* is gone.
RequestsEnd(h) ==
    /\ Pumps(h, "req")
    /\ \/ /\ Usable(h - 1) /\ link[h - 1].reqs = 0 /\ link[h - 1].closed
          /\ hop' = [hop EXCEPT ![h].req = "ok"]
          /\ link' = [link EXCEPT ![h].closed = TRUE]
       \/ /\ ~Usable(h - 1)
          /\ hop' = [hop EXCEPT ![h].req = "failed"]
          /\ UNCHANGED link
    /\ UNCHANGED <<sent, got>>

\* One response: client.Recv, then server.Send.
ForwardResponse(h) ==
    /\ Pumps(h, "resp") /\ link[h].resps > 0
    /\ \/ /\ Usable(h - 1)
          /\ link' = [link EXCEPT ![h].resps = @ - 1, ![h - 1].resps = @ + 1]
          /\ UNCHANGED hop
       \/ /\ ~Usable(h - 1)
          /\ link' = [link EXCEPT ![h].resps = @ - 1]
          /\ hop' = [hop EXCEPT ![h].resp = "failed"]
    /\ UNCHANGED <<sent, got>>

\* client.Recv says io.EOF, or that the stream failed.
ResponsesEnd(h) ==
    /\ Pumps(h, "resp") /\ link[h].resps = 0 /\ link[h].end # "open"
    /\ hop' = [hop EXCEPT ![h].resp = link[h].end]
    /\ UNCHANGED <<link, sent, got>>

\* Mutant: the result of the last direction to end, which is the requests'.
StatusOfRequests(h) == hop[h].req

\* The first error of either direction, if there is one.
Status(h) == IF "failed" \in {hop[h].req, hop[h].resp} THEN "failed" ELSE "ok"

\* pumpBidi waits for both directions.  With the handler ends the stream it
\* serves, if that has not ended before.
Return(h) ==
    /\ hop[h].st = "pumping" /\ hop[h].req # "open" /\ hop[h].resp # "open"
    /\ hop' = [hop EXCEPT ![h].st = "returned"]
    /\ link' = [link EXCEPT ![h - 1].end = IF @ = "open" THEN Status(h) ELSE @]
    /\ UNCHANGED <<sent, got>>

\* Mutant: the stream to the next hop has a context of its own.
CancelNever(h) == FALSE

\* The stream to the next hop was opened with the context of the stream served,
\* and does not outlive it.
Cancelled(h) == link[h - 1].end # "open" /\ Usable(h)

Cancel(h) ==
    /\ Cancelled(h)
    /\ link' = [link EXCEPT ![h] = Severed(@)]
    /\ UNCHANGED <<hop, sent, got>>

-----------------------------------------------------------------------------
(***************************************************************************)
(* The etcd client, Kine and the network.                                  *)
(***************************************************************************)
ClientSends ==
    /\ Usable(0) /\ ~link[0].closed /\ sent[1] < MaxMessages
    /\ sent' = [sent EXCEPT ![1] = @ + 1]
    /\ link' = [link EXCEPT ![0].reqs = @ + 1]
    /\ UNCHANGED <<hop, got>>

ClientReceives ==
    /\ link[0].resps > 0
    /\ got' = [got EXCEPT ![2] = @ + 1]
    /\ link' = [link EXCEPT ![0].resps = @ - 1]
    /\ UNCHANGED <<hop, sent>>

ClientCloses ==
    /\ Usable(0) /\ ~link[0].closed
    /\ link' = [link EXCEPT ![0].closed = TRUE]
    /\ UNCHANGED <<hop, sent, got>>

KineReceives ==
    /\ Usable(Hops) /\ link[Hops].reqs > 0
    /\ got' = [got EXCEPT ![1] = @ + 1]
    /\ link' = [link EXCEPT ![Hops].reqs = @ - 1]
    /\ UNCHANGED <<hop, sent>>

KineSends ==
    /\ Usable(Hops) /\ sent[2] < MaxMessages
    /\ sent' = [sent EXCEPT ![2] = @ + 1]
    /\ link' = [link EXCEPT ![Hops].resps = @ + 1]
    /\ UNCHANGED <<hop, got>>

\* Kine is through with the requests.
KineEnds ==
    /\ Usable(Hops) /\ link[Hops].closed /\ link[Hops].reqs = 0
    /\ link' = [link EXCEPT ![Hops].end = "ok"]
    /\ UNCHANGED <<hop, sent, got>>

\* The client cancels its stream, a connection breaks, or the process at the far
\* end of it dies, Kine included.
Break(l) ==
    /\ Usable(l)
    /\ link' = [link EXCEPT ![l] = Severed(@)]
    /\ UNCHANGED <<hop, sent, got>>

Requests(h) == ForwardRequest(h) \/ RequestsEnd(h)
Responses(h) == ForwardResponse(h) \/ ResponsesEnd(h)

Next ==
    \/ \E h \in Proxies : Open(h) \/ Requests(h) \/ Responses(h) \/ Return(h) \/ Cancel(h)
    \/ ClientSends \/ ClientReceives \/ ClientCloses
    \/ KineReceives \/ KineSends \/ KineEnds
    \/ \E l \in Links : Break(l)

Spec == Init /\ [][Next]_vars

\* The goroutines run, the client reads what it gets, and Kine reads the
\* requests and ends a stream that was closed.  Nobody has to send anything.
FairSpec ==
    /\ Spec
    /\ \A h \in Proxies :
           /\ WF_vars(Open(h)) /\ WF_vars(Return(h)) /\ WF_vars(Cancel(h))
           /\ WF_vars(Requests(h)) /\ WF_vars(Responses(h))
    /\ WF_vars(ClientReceives) /\ WF_vars(KineReceives) /\ WF_vars(KineEnds)

-----------------------------------------------------------------------------
(***************************************************************************)
(* Properties.                                                             *)
(***************************************************************************)

\* A stream that ends cleanly for the client has been relayed completely, in
\* both directions and over all hops: no failure on the way is masked by the
\* clean close of the other direction (pumpBidi).
CleanEndIsComplete ==
    link[0].end = "ok" => got[1] = sent[1] /\ got[2] + link[0].resps = sent[2]

\* A stream that is gone takes the handlers behind it along: none is left to
\* pump for a client that is not there any more, however idle Kine is.
NoLeak ==
    \A l \in Links, h \in Proxies :
        (h > l /\ link[l].end = "failed") ~> (hop[h].st # "pumping")

\* A client that is through gets its stream ended, and one that still has
\* something to send is told when the stream behind its proxy has failed.  One
\* that only listens is not (pumpBidi waits for server.Recv).
ClientIsTold ==
    \A h \in Proxies :
        (link[h - 1].closed \/ (link[h].end = "failed" /\ link[h - 1].reqs > 0))
            ~> (link[h - 1].end # "open")
=============================================================================
