-------------------------- MODULE EtcdProxyProofs --------------------------
(***************************************************************************)
(* Proofs about EtcdProxy, for any number of proxies on the way and any    *)
(* number of messages.                                                     *)
(***************************************************************************)
EXTENDS EtcdProxy, TLAPS

LinkState == [live : BOOLEAN, reqs : Nat, resps : Nat, closed : BOOLEAN, end : Statuses]
HopState == [st : {"idle", "pumping", "returned"}, req : Statuses, resp : Statuses]

\* TypeOK but for the bounds on what is under way and what has arrived, which
\* follow from the flow of messages.
Shape ==
    /\ link \in [Links -> LinkState]
    /\ hop \in [Proxies -> HopState]
    /\ sent \in (0 .. MaxMessages) \X (0 .. MaxMessages)
    /\ got \in Nat \X Nat

\* What a hop has recorded of its two directions is so on its two links, and a
\* stream that ended well on one link has ended well at Kine.
HopInv ==
    /\ \A h \in Proxies :
           /\ hop[h].st = "idle" => /\ ~link[h].live /\ ~link[h].closed /\ link[h].end = "open"
                                    /\ link[h].reqs = 0 /\ link[h].resps = 0
           /\ link[h].closed => hop[h].req = "ok"
           /\ hop[h].req = "ok" => link[h - 1].closed /\ link[h - 1].reqs = 0
           /\ hop[h].resp = "ok" => link[h].end = "ok" /\ link[h].resps = 0
    /\ \A l \in Links : link[l].end = "ok" => link[Hops].end = "ok"

\* A hop is reached only through the one before it.
OrderInv ==
    \A h, k \in Proxies : k = h - 1 /\ hop[k].st = "idle" => hop[h].st = "idle"

\* No request that entered link l was lost there, or by the hop that took it
\* out; and the same for responses.
KeepsRequests(l) == link[l].end # "failed" /\ (l < Hops => hop[l + 1].req # "failed")
KeepsResponses(l) == link[l].end # "failed" /\ (l > 0 => hop[l].resp # "failed")

\* The requests that entered each link so far, Kine being the last.  On a link
\* that ended well they are the ones Kine got.
RequestFlow(in) ==
    /\ in[0] = sent[1] /\ in[Hops + 1] = got[1]
    /\ \A l \in Links :
           /\ in[l] <= sent[1]
           /\ in[l + 1] + link[l].reqs <= in[l]
           /\ KeepsRequests(l) => in[l + 1] + link[l].reqs = in[l]
           /\ link[l].end = "ok" => in[l] = got[1]

\* The responses that left each link so far, the one after the last being Kine.
\* A link that ended well has been given all that Kine sent.
ResponseFlow(out) ==
    /\ out[0] = got[2] /\ out[Hops + 1] = sent[2]
    /\ \A l \in Links :
           /\ out[l + 1] <= sent[2]
           /\ out[l] + link[l].resps <= out[l + 1]
           /\ KeepsResponses(l) => out[l] + link[l].resps = out[l + 1]
           /\ link[l].end = "ok" => out[l + 1] = sent[2]

Counts == [0 .. Hops + 1 -> Nat]

RelayInv ==
    /\ Shape /\ HopInv
    /\ \E in \in Counts : RequestFlow(in)
    /\ \E out \in Counts : ResponseFlow(out)

IInv == RelayInv /\ OrderInv
-----------------------------------------------------------------------------

\* The ends of a hop and the two shapes of a link.
LEMMA Ends ==
    /\ Hops \in Nat /\ Hops >= 1 /\ MaxMessages \in Nat
    /\ 0 \in Links /\ Hops \in Links /\ Hops \in Proxies
    /\ \A h \in Proxies : h \in Nat /\ h \in Links /\ h - 1 \in Links /\ h - 1 # h
    /\ \A l \in Links : l \in Nat /\ (l < Hops => l + 1 \in Proxies) /\ (l > 0 => l \in Proxies)
    /\ \A l \in Links : l \in 0 .. Hops + 1 /\ l + 1 \in 0 .. Hops + 1
BY ProxyAssumption DEF Links, Proxies

\* The links to both sides of a proxy.
LEMMA Neighbours ==
    /\ \A h \in Proxies : (h - 1) + 1 = h /\ h - 1 # Hops /\ h # 0
    /\ \A l \in Links : l + 1 # 0 /\ l # Hops + 1 /\ (l # Hops => l + 1 # Hops + 1)
BY ProxyAssumption DEF Links, Proxies

\* A link that was never opened, and one that just was.
LEMMA NoLinkState ==
    /\ NoLink \in LinkState /\ NoLink.reqs = 0 /\ NoLink.resps = 0
    /\ ~NoLink.live /\ ~NoLink.closed /\ NoLink.end = "open"
    /\ Opened \in LinkState /\ Opened.reqs = 0 /\ Opened.resps = 0
    /\ Opened.live /\ ~Opened.closed /\ Opened.end = "open"
BY DEF NoLink, Opened, LinkState, Statuses

\* A broken link has lost what was under way on it.
LEMMA SeveredState ==
    ASSUME NEW l \in LinkState
    PROVE  /\ Severed(l) \in LinkState /\ Severed(l).live = l.live /\ Severed(l).closed = l.closed
           /\ Severed(l).reqs = 0 /\ Severed(l).resps = 0 /\ Severed(l).end = "failed"
BY DEF Severed, LinkState, Statuses

\* Changing one or two links, or one hop, leaves the others as they are.
LEMMA OneLink ==
    ASSUME Shape, NEW l \in Links, NEW r \in LinkState, link' = [link EXCEPT ![l] = r]
    PROVE  link' \in [Links -> LinkState] /\ link'[l] = r /\ \A k \in Links : k # l => link'[k] = link[k]
BY DEF Shape

LEMMA TwoLinks ==
    ASSUME Shape, NEW l \in Links, NEW m \in Links, l # m, NEW r \in LinkState, NEW q \in LinkState,
           link' = [link EXCEPT ![l] = r, ![m] = q]
    PROVE  /\ link' \in [Links -> LinkState] /\ link'[l] = r /\ link'[m] = q
           /\ \A k \in Links : k # l /\ k # m => link'[k] = link[k]
BY DEF Shape

LEMMA OneHop ==
    ASSUME Shape, NEW h \in Proxies, NEW r \in HopState, hop' = [hop EXCEPT ![h] = r]
    PROVE  hop' \in [Proxies -> HopState] /\ hop'[h] = r /\ \A k \in Proxies : k # h => hop'[k] = hop[k]
BY DEF Shape

\* The parts of a well-formed state.
LEMMA Members ==
    ASSUME Shape
    PROVE  /\ \A l \in Links : /\ link[l] \in LinkState
                               /\ link[l].live \in BOOLEAN /\ link[l].closed \in BOOLEAN
                               /\ link[l].reqs \in Nat /\ link[l].resps \in Nat
                               /\ link[l].end \in Statuses
           /\ \A h \in Proxies : /\ hop[h] \in HopState
                                 /\ hop[h].req \in Statuses /\ hop[h].resp \in Statuses
BY DEF Shape, LinkState, HopState

-----------------------------------------------------------------------------

\* One message more.
LEMMA CountUp ==
    ASSUME NEW f \in Counts, NEW k \in 0 .. Hops + 1
    PROVE  /\ [f EXCEPT ![k] = @ + 1] \in Counts
           /\ [f EXCEPT ![k] = @ + 1][k] = f[k] + 1
           /\ \A j \in 0 .. Hops + 1 : j # k => [f EXCEPT ![k] = @ + 1][j] = f[j]
<1>1. f[k] + 1 \in Nat
  BY DEF Counts
<1> QED
  BY <1>1 DEF Counts

\* A step that moves no request, ends no link well and loses none keeps their
\* flow; and the same for responses.
LEMMA RequestsRest ==
    ASSUME Shape, Shape', NEW in \in Counts, RequestFlow(in), sent'[1] = sent[1], got'[1] = got[1],
           \A l \in Links :
               /\ link'[l].reqs <= link[l].reqs
               /\ KeepsRequests(l)' => KeepsRequests(l) /\ link'[l].reqs = link[l].reqs
               /\ link'[l].end = "ok" => link[l].end = "ok"
    PROVE  RequestFlow(in)'
<1>1. \A k \in 0 .. Hops + 1 : in[k] \in Nat
  BY DEF Counts
<1>2. \A l \in Links : link[l].reqs \in Nat /\ link'[l].reqs \in Nat
  BY DEF Shape, LinkState
<1> QED
  BY <1>1, <1>2, Ends DEF RequestFlow

LEMMA ResponsesRest ==
    ASSUME Shape, Shape', NEW out \in Counts, ResponseFlow(out), sent'[2] = sent[2], got'[2] = got[2],
           \A l \in Links :
               /\ link'[l].resps <= link[l].resps
               /\ KeepsResponses(l)' => KeepsResponses(l) /\ link'[l].resps = link[l].resps
               /\ link'[l].end = "ok" => link[l].end = "ok"
    PROVE  ResponseFlow(out)'
<1>1. \A k \in 0 .. Hops + 1 : out[k] \in Nat
  BY DEF Counts
<1>2. \A l \in Links : link[l].resps \in Nat /\ link'[l].resps \in Nat
  BY DEF Shape, LinkState
<1> QED
  BY <1>1, <1>2, Ends DEF ResponseFlow

\* pumpRequests takes a request off one link and puts it on the next, or loses it with a
\* link that failed.
LEMMA ForwardRequestStep == ASSUME RelayInv, NEW h \in Proxies, ForwardRequest(h) PROVE RelayInv'
<1> DEFINE a == [link[h - 1] EXCEPT !.reqs = @ - 1]
           b == [link[h] EXCEPT !.reqs = @ + 1]
           c == [hop[h] EXCEPT !.req = "failed"]
<1> USE DEF RelayInv
<1>0. /\ a \in LinkState /\ a.reqs = link[h - 1].reqs - 1 /\ a.resps = link[h - 1].resps
      /\ a.live = link[h - 1].live /\ a.closed = link[h - 1].closed /\ a.end = link[h - 1].end
  BY Members, Ends DEF ForwardRequest, LinkState
<1>1. /\ b \in LinkState /\ b.reqs = link[h].reqs + 1 /\ b.resps = link[h].resps
      /\ b.live = link[h].live /\ b.closed = link[h].closed /\ b.end = link[h].end
  BY Members, Ends DEF LinkState
<1>2. c \in HopState /\ c.st = hop[h].st /\ c.resp = hop[h].resp /\ c.req = "failed"
  BY Members DEF HopState, Statuses
<1>3. /\ sent' = sent /\ got' = got
      /\ hop[h].st = "pumping" /\ hop[h].req = "open" /\ Usable(h - 1) /\ link[h - 1].reqs > 0
  BY DEF ForwardRequest, Pumps
<1>4. PICK in \in Counts : RequestFlow(in)
  OBVIOUS
<1>5. PICK out \in Counts : ResponseFlow(out)
  OBVIOUS
<1>6. CASE Usable(h) /\ link' = [link EXCEPT ![h - 1] = a, ![h] = b] /\ hop' = hop
  <2> HIDE DEF a, b
  <2>1. /\ link' \in [Links -> LinkState] /\ link'[h - 1] = a /\ link'[h] = b
        /\ \A k \in Links : k # h - 1 /\ k # h => link'[k] = link[k]
    <3>1. h - 1 \in Links /\ h \in Links /\ h - 1 # h
      BY Ends
    <3> QED
      BY <1>6, <1>0, <1>1, <3>1, TwoLinks
  <2>2. Shape'
    BY <2>1, <1>3, <1>6 DEF Shape
  <2>3. HopInv'
    BY <2>1, <1>0, <1>1, <1>3, <1>6, Ends DEF HopInv, Usable
  <2>4. \E i \in Counts : RequestFlow(i)'
    <3> DEFINE i == [in EXCEPT ![h] = @ + 1]
    <3>1. i \in Counts /\ i[h] = in[h] + 1 /\ \A k \in 0 .. Hops + 1 : k # h => i[k] = in[k]
      BY CountUp, Ends
    <3>2. \A k \in 0 .. Hops + 1 : in[k] \in Nat
      BY DEF Counts
    <3> HIDE DEF i
    <3>3. RequestFlow(i)'
      BY <3>1, <3>2, <2>1, <1>0, <1>1, <1>3, <1>4, <1>6, Ends, Members, SMTT(30)
         DEF RequestFlow, KeepsRequests, Usable, Shape
    <3> QED
      BY <3>1, <3>3
  <2>5. ResponseFlow(out)'
    BY <2>1, <1>0, <1>1, <1>3, <1>5, <1>6, Ends DEF ResponseFlow, KeepsResponses
  <2> QED
    BY <2>2, <2>3, <2>4, <2>5
<1>7. CASE ~Usable(h) /\ link' = [link EXCEPT ![h - 1] = a] /\ hop' = [hop EXCEPT ![h] = c]
  <2> HIDE DEF a, c
  <2>1. link' \in [Links -> LinkState] /\ link'[h - 1] = a /\ \A k \in Links : k # h - 1 => link'[k] = link[k]
    BY <1>7, <1>0, OneLink, Ends
  <2>2. hop' \in [Proxies -> HopState] /\ hop'[h] = c /\ \A k \in Proxies : k # h => hop'[k] = hop[k]
    BY <1>7, <1>2, OneHop
  <2>3. Shape'
    BY <2>1, <2>2, <1>3 DEF Shape
  <2>4. HopInv'
    BY <2>1, <2>2, <1>0, <1>2, <1>3, Ends DEF HopInv, Usable
  <2>5. RequestFlow(in)'
    <3>2. \A k \in 0 .. Hops + 1 : in[k] \in Nat
      BY DEF Counts
    <3> QED
      BY <3>2, <2>1, <2>2, <1>0, <1>2, <1>3, <1>4, Ends, Members, SMTT(30)
         DEF RequestFlow, KeepsRequests, Shape
  <2>6. ResponseFlow(out)'
    <3>1. \A l \in Links : link'[l].resps = link[l].resps /\ link'[l].end = link[l].end
      BY <2>1, <1>0
    <3>2. \A k \in Proxies : hop'[k].resp = hop[k].resp
      BY <2>2, <1>2
    <3>3. \A l \in Links : KeepsResponses(l)' => KeepsResponses(l)
      BY <3>1, <3>2, Ends DEF KeepsResponses
    <3> QED
      BY <2>3, <3>1, <3>3, <1>3, <1>5, Members, ResponsesRest
  <2> QED
    BY <2>3, <2>4, <2>5, <2>6
<1> QED
  BY <1>6, <1>7, Ends DEF ForwardRequest

\* pumpResponses does the same in the other direction.
LEMMA ForwardResponseStep == ASSUME RelayInv, NEW h \in Proxies, ForwardResponse(h) PROVE RelayInv'
<1> DEFINE a == [link[h] EXCEPT !.resps = @ - 1]
           b == [link[h - 1] EXCEPT !.resps = @ + 1]
           c == [hop[h] EXCEPT !.resp = "failed"]
<1> USE DEF RelayInv
<1>0. /\ a \in LinkState /\ a.resps = link[h].resps - 1 /\ a.reqs = link[h].reqs
      /\ a.live = link[h].live /\ a.closed = link[h].closed /\ a.end = link[h].end
  BY Members, Ends DEF ForwardResponse, LinkState
<1>1. /\ b \in LinkState /\ b.resps = link[h - 1].resps + 1 /\ b.reqs = link[h - 1].reqs
      /\ b.live = link[h - 1].live /\ b.closed = link[h - 1].closed /\ b.end = link[h - 1].end
  BY Members, Ends DEF LinkState
<1>2. c \in HopState /\ c.st = hop[h].st /\ c.req = hop[h].req /\ c.resp = "failed"
  BY Members DEF HopState, Statuses
<1>3. /\ sent' = sent /\ got' = got
      /\ hop[h].st = "pumping" /\ hop[h].resp = "open" /\ link[h].resps > 0
  BY DEF ForwardResponse, Pumps
<1>4. PICK in \in Counts : RequestFlow(in)
  OBVIOUS
<1>5. PICK out \in Counts : ResponseFlow(out)
  OBVIOUS
<1>6. CASE Usable(h - 1) /\ link' = [link EXCEPT ![h] = a, ![h - 1] = b] /\ hop' = hop
  <2> HIDE DEF a, b
  <2>1. /\ link' \in [Links -> LinkState] /\ link'[h] = a /\ link'[h - 1] = b
        /\ \A k \in Links : k # h - 1 /\ k # h => link'[k] = link[k]
    <3>1. h - 1 \in Links /\ h \in Links /\ h - 1 # h
      BY Ends
    <3> QED
      BY <1>6, <1>0, <1>1, <3>1, TwoLinks
  <2>2. Shape'
    BY <2>1, <1>3, <1>6 DEF Shape
  <2>3. HopInv'
    BY <2>1, <1>0, <1>1, <1>3, <1>6, Ends DEF HopInv, Usable
  <2>4. \E i \in Counts : ResponseFlow(i)'
    <3> DEFINE i == [out EXCEPT ![h] = @ + 1]
    <3>1. i \in Counts /\ i[h] = out[h] + 1 /\ \A k \in 0 .. Hops + 1 : k # h => i[k] = out[k]
      BY CountUp, Ends
    <3>2. \A k \in 0 .. Hops + 1 : out[k] \in Nat
      BY DEF Counts
    <3> HIDE DEF i
    <3>3. ResponseFlow(i)'
      BY <3>1, <3>2, <2>1, <1>0, <1>1, <1>3, <1>5, <1>6, Ends, Members, SMTT(30)
         DEF ResponseFlow, KeepsResponses, Usable, Shape
    <3> QED
      BY <3>1, <3>3
  <2>5. RequestFlow(in)'
    <3>1. \A l \in Links : link'[l].reqs = link[l].reqs /\ link'[l].end = link[l].end
      BY <2>1, <1>0, <1>1
    <3>2. \A l \in Links : KeepsRequests(l)' => KeepsRequests(l)
      BY <3>1, <1>6, Ends DEF KeepsRequests
    <3> QED
      BY <2>2, <3>1, <3>2, <1>3, <1>4, Members, RequestsRest
  <2> QED
    BY <2>2, <2>3, <2>4, <2>5
<1>7. CASE ~Usable(h - 1) /\ link' = [link EXCEPT ![h] = a] /\ hop' = [hop EXCEPT ![h] = c]
  <2> HIDE DEF a, c
  <2>1. link' \in [Links -> LinkState] /\ link'[h] = a /\ \A k \in Links : k # h => link'[k] = link[k]
    BY <1>7, <1>0, OneLink, Ends
  <2>2. hop' \in [Proxies -> HopState] /\ hop'[h] = c /\ \A k \in Proxies : k # h => hop'[k] = hop[k]
    BY <1>7, <1>2, OneHop
  <2>3. Shape'
    BY <2>1, <2>2, <1>3 DEF Shape
  <2>4. HopInv'
    BY <2>1, <2>2, <1>0, <1>2, <1>3, Ends DEF HopInv
  <2>5. ResponseFlow(out)'
    <3>2. \A k \in 0 .. Hops + 1 : out[k] \in Nat
      BY DEF Counts
    <3> QED
      BY <3>2, <2>1, <2>2, <1>0, <1>2, <1>3, <1>5, Ends, Members DEF ResponseFlow, KeepsResponses, Shape
  <2>6. RequestFlow(in)'
    <3>1. \A l \in Links : link'[l].reqs = link[l].reqs /\ link'[l].end = link[l].end
      BY <2>1, <1>0
    <3>2. \A k \in Proxies : hop'[k].req = hop[k].req
      BY <2>2, <1>2
    <3>3. \A l \in Links : KeepsRequests(l)' => KeepsRequests(l)
      BY <3>1, <3>2, Ends DEF KeepsRequests
    <3> QED
      BY <2>3, <3>1, <3>3, <1>3, <1>4, Members, RequestsRest
  <2> QED
    BY <2>3, <2>4, <2>5, <2>6
<1> QED
  BY <1>6, <1>7, Ends DEF ForwardResponse

\* A link that breaks has nothing under way any more, but promises nothing
\* either; Cancel is the same, by another's hand.
LEMMA BreakStep == ASSUME RelayInv, NEW l \in Links, Break(l) PROVE RelayInv'
<1> USE DEF RelayInv
<1>1. /\ link' \in [Links -> LinkState] /\ link'[l] = Severed(link[l])
      /\ \A k \in Links : k # l => link'[k] = link[k]
  BY Members, SeveredState, OneLink DEF Break
<1>2. Usable(l) /\ hop' = hop /\ sent' = sent /\ got' = got
  BY DEF Break
<1>3. Shape'
  BY <1>1, <1>2 DEF Shape
<1>4. HopInv'
  BY <1>1, <1>2, Members, SeveredState, Ends DEF HopInv, Usable
<1>5. \A k \in Links :
         /\ link'[k].reqs <= link[k].reqs /\ link'[k].resps <= link[k].resps
         /\ link'[k].end = "ok" => link[k].end = "ok"
         /\ KeepsRequests(k)' => KeepsRequests(k) /\ link'[k].reqs = link[k].reqs
         /\ KeepsResponses(k)' => KeepsResponses(k) /\ link'[k].resps = link[k].resps
  BY <1>1, <1>2, Members, SeveredState DEF KeepsRequests, KeepsResponses
<1> QED
  BY <1>2, <1>3, <1>4, <1>5, RequestsRest, ResponsesRest

\* Cancelling the upstream context breaks its link.
LEMMA CancelStep == ASSUME RelayInv, NEW h \in Proxies, Cancel(h) PROVE RelayInv'
BY BreakStep, Ends DEF Cancel, Cancelled, Break

\* A proxy opens the next link, on which nothing has travelled, or refuses its own.
LEMMA OpenStep == ASSUME RelayInv, NEW h \in Proxies, Open(h) PROVE RelayInv'
<1> USE DEF RelayInv
<1> DEFINE a == [link[h - 1] EXCEPT !.end = "failed"]
           p == [hop[h] EXCEPT !.st = "pumping"]
           r == [hop[h] EXCEPT !.st = "returned"]
<1>1. /\ a \in LinkState /\ a.reqs = link[h - 1].reqs /\ a.resps = link[h - 1].resps
      /\ a.live = link[h - 1].live /\ a.closed = link[h - 1].closed /\ a.end = "failed"
  BY Members, Ends DEF LinkState, Statuses
<1>2. /\ p \in HopState /\ p.st = "pumping" /\ p.req = hop[h].req /\ p.resp = hop[h].resp
      /\ r \in HopState /\ r.st = "returned" /\ r.req = hop[h].req /\ r.resp = hop[h].resp
  BY Members DEF HopState
<1>3. hop[h].st = "idle" /\ Usable(h - 1) /\ sent' = sent /\ got' = got
  BY DEF Open
<1>4. CASE hop' = [hop EXCEPT ![h] = p] /\ link' = [link EXCEPT ![h] = Opened]
  <2> HIDE DEF p
  <2>1. link' \in [Links -> LinkState] /\ link'[h] = Opened /\ \A k \in Links : k # h => link'[k] = link[k]
    BY <1>4, NoLinkState, OneLink, Ends
  <2>2. hop' \in [Proxies -> HopState] /\ hop'[h] = p /\ \A k \in Proxies : k # h => hop'[k] = hop[k]
    BY <1>4, <1>2, OneHop
  <2>3. Shape'
    BY <2>1, <2>2, <1>3 DEF Shape
  <2>4. \A k \in Links : /\ link'[k].reqs = link[k].reqs /\ link'[k].resps = link[k].resps
                         /\ (link'[k].closed <=> link[k].closed) /\ link'[k].end = link[k].end
    BY <2>1, <1>3, NoLinkState, Members, Ends DEF HopInv
  <2>5. \A k \in Proxies : /\ hop'[k].req = hop[k].req /\ hop'[k].resp = hop[k].resp
                           /\ hop'[k].st = "idle" => hop[k].st = "idle" /\ k # h
    BY <2>2, <1>2
  <2>6. HopInv'
    BY <2>1, <2>4, <2>5, Ends DEF HopInv
  <2>7. \A k \in Links : (KeepsRequests(k)' => KeepsRequests(k)) /\ (KeepsResponses(k)' => KeepsResponses(k))
    BY <2>4, <2>5, Ends DEF KeepsRequests, KeepsResponses
  <2> QED
    BY <2>3, <2>4, <2>6, <2>7, <1>3, Members, RequestsRest, ResponsesRest
<1>5. CASE hop' = [hop EXCEPT ![h] = r] /\ link' = [link EXCEPT ![h - 1] = a]
  <2> HIDE DEF a, r
  <2>1. link' \in [Links -> LinkState] /\ link'[h - 1] = a /\ \A k \in Links : k # h - 1 => link'[k] = link[k]
    BY <1>5, <1>1, OneLink, Ends
  <2>2. hop' \in [Proxies -> HopState] /\ hop'[h] = r /\ \A k \in Proxies : k # h => hop'[k] = hop[k]
    BY <1>5, <1>2, OneHop
  <2>3. Shape'
    BY <2>1, <2>2, <1>3 DEF Shape
  <2>4. \A k \in Links : /\ link'[k].reqs = link[k].reqs /\ link'[k].resps = link[k].resps
                         /\ link'[k].closed = link[k].closed /\ link'[k].live = link[k].live
                         /\ link'[k].end = link[k].end \/ (k = h - 1 /\ link[k].end = "open" /\ link[k].live
                                                           /\ link'[k].end = "failed")
    BY <2>1, <1>1, <1>3, Ends DEF Usable
  <2>5. \A k \in Proxies : /\ hop'[k].req = hop[k].req /\ hop'[k].resp = hop[k].resp
                           /\ hop'[k].st = "idle" => hop[k].st = "idle"
    BY <2>2, <1>2
  <2>6. HopInv'
    BY <2>4, <2>5, Ends, SMTT(30) DEF HopInv
  <2>7. \A k \in Links : (KeepsRequests(k)' => KeepsRequests(k)) /\ (KeepsResponses(k)' => KeepsResponses(k))
    BY <2>4, <2>5, Ends DEF KeepsRequests, KeepsResponses
  <2>8. \A k \in Links : link'[k].end = "ok" => link[k].end = "ok"
    BY <2>4
  <2> QED
    BY <2>3, <2>4, <2>6, <2>7, <2>8, <1>3, Members, RequestsRest, ResponsesRest
<1> QED
  BY <1>4, <1>5, Ends DEF Open

\* pumpRequests ends: at the client's half-close it passes that on, and then nothing is
\* left on the link it reads.
LEMMA RequestsEndStep == ASSUME RelayInv, NEW h \in Proxies, RequestsEnd(h) PROVE RelayInv'
<1> USE DEF RelayInv
<1> DEFINE a == [link[h] EXCEPT !.closed = TRUE]
           p == [hop[h] EXCEPT !.req = "ok"]
           r == [hop[h] EXCEPT !.req = "failed"]
<1>1. /\ a \in LinkState /\ a.reqs = link[h].reqs /\ a.resps = link[h].resps
      /\ a.live = link[h].live /\ a.closed /\ a.end = link[h].end
  BY Members, Ends DEF LinkState
<1>2. /\ p \in HopState /\ p.st = hop[h].st /\ p.req = "ok" /\ p.resp = hop[h].resp
      /\ r \in HopState /\ r.st = hop[h].st /\ r.req = "failed" /\ r.resp = hop[h].resp
  BY Members DEF HopState, Statuses
<1>3. hop[h].st = "pumping" /\ hop[h].req = "open" /\ sent' = sent /\ got' = got
  BY DEF RequestsEnd, Pumps
<1>4. CASE /\ Usable(h - 1) /\ link[h - 1].reqs = 0 /\ link[h - 1].closed
           /\ hop' = [hop EXCEPT ![h] = p] /\ link' = [link EXCEPT ![h] = a]
  <2> HIDE DEF a, p
  <2>1. link' \in [Links -> LinkState] /\ link'[h] = a /\ \A k \in Links : k # h => link'[k] = link[k]
    BY <1>4, <1>1, OneLink, Ends
  <2>2. hop' \in [Proxies -> HopState] /\ hop'[h] = p /\ \A k \in Proxies : k # h => hop'[k] = hop[k]
    BY <1>4, <1>2, OneHop
  <2>3. Shape'
    BY <2>1, <2>2, <1>3 DEF Shape
  <2>4. \A k \in Links : /\ link'[k].reqs = link[k].reqs /\ link'[k].resps = link[k].resps
                         /\ link'[k].end = link[k].end
    BY <2>1, <1>1
  <2>5. \A k \in Proxies : hop'[k].resp = hop[k].resp /\ (k # h => hop'[k].req = hop[k].req)
    BY <2>2, <1>2
  <2>6. HopInv'
    BY <2>1, <2>2, <1>1, <1>2, <1>3, <1>4, Ends DEF HopInv
  <2>7. \A k \in Links : (KeepsRequests(k)' => KeepsRequests(k)) /\ (KeepsResponses(k)' => KeepsResponses(k))
    BY <2>4, <2>5, <1>3, Ends DEF KeepsRequests, KeepsResponses
  <2> QED
    BY <2>3, <2>4, <2>6, <2>7, <1>3, Members, RequestsRest, ResponsesRest
<1>5. CASE hop' = [hop EXCEPT ![h] = r] /\ link' = link
  <2> HIDE DEF r
  <2>2. hop' \in [Proxies -> HopState] /\ hop'[h] = r /\ \A k \in Proxies : k # h => hop'[k] = hop[k]
    BY <1>5, <1>2, OneHop
  <2>3. Shape'
    BY <2>2, <1>3, <1>5 DEF Shape
  <2>6. HopInv'
    BY <2>2, <1>2, <1>3, <1>5, Ends DEF HopInv
  <2>7. \A k \in Links : (KeepsRequests(k)' => KeepsRequests(k)) /\ (KeepsResponses(k)' => KeepsResponses(k))
    BY <2>2, <1>2, <1>3, <1>5, Ends DEF KeepsRequests, KeepsResponses
  <2> QED
    BY <2>3, <2>6, <2>7, <1>3, <1>5, Members, RequestsRest, ResponsesRest
<1> QED
  BY <1>4, <1>5, Ends DEF RequestsEnd

\* pumpResponses ends at the end of the link it reads, whose responses have all been
\* forwarded when that end is a clean one.
LEMMA ResponsesEndStep == ASSUME RelayInv, NEW h \in Proxies, ResponsesEnd(h) PROVE RelayInv'
<1> USE DEF RelayInv
<1> DEFINE p == [hop[h] EXCEPT !.resp = link[h].end]
<1>2. p \in HopState /\ p.st = hop[h].st /\ p.req = hop[h].req /\ p.resp = link[h].end
  BY Members, Ends DEF HopState
<1>3. /\ hop[h].st = "pumping" /\ hop[h].resp = "open" /\ sent' = sent /\ got' = got /\ link' = link
      /\ link[h].resps = 0 /\ link[h].end # "open" /\ hop' = [hop EXCEPT ![h] = p]
  BY DEF ResponsesEnd, Pumps
<1> HIDE DEF p
<1>4. hop' \in [Proxies -> HopState] /\ hop'[h] = p /\ \A k \in Proxies : k # h => hop'[k] = hop[k]
  BY <1>2, <1>3, OneHop
<1>5. Shape'
  BY <1>3, <1>4 DEF Shape
<1>6. HopInv'
  BY <1>2, <1>3, <1>4, Ends DEF HopInv
<1>7. \A k \in Links : (KeepsRequests(k)' => KeepsRequests(k)) /\ (KeepsResponses(k)' => KeepsResponses(k))
  BY <1>2, <1>3, <1>4, Ends DEF KeepsRequests, KeepsResponses
<1> QED
  BY <1>3, <1>5, <1>6, <1>7, Members, RequestsRest, ResponsesRest

\* The stream that hop h serves ends well only if both directions did: what
\* entered it has then entered the next, which has ended well before.
LEMMA ReturnStep == ASSUME RelayInv, OrderInv, NEW h \in Proxies, Return(h) PROVE RelayInv'
<1> USE DEF RelayInv
<1> DEFINE e == IF link[h - 1].end = "open" THEN Status(h) ELSE link[h - 1].end
           a == [link[h - 1] EXCEPT !.end = e]
           p == [hop[h] EXCEPT !.st = "returned"]
<1>0. /\ Status(h) \in Statuses /\ e \in Statuses
      /\ hop[h].req # "open" /\ hop[h].resp # "open"
      /\ Status(h) = "ok" => hop[h].req = "ok" /\ hop[h].resp = "ok"
  BY Members, Ends DEF Return, Status, Statuses
<1>1. /\ a \in LinkState /\ a.reqs = link[h - 1].reqs /\ a.resps = link[h - 1].resps
      /\ a.live = link[h - 1].live /\ a.closed = link[h - 1].closed /\ a.end = e
  BY <1>0, Members, Ends DEF LinkState
<1>2. p \in HopState /\ p.st = "returned" /\ p.req = hop[h].req /\ p.resp = hop[h].resp
  BY Members DEF HopState
<1>3. /\ hop[h].st = "pumping" /\ sent' = sent /\ got' = got
      /\ hop' = [hop EXCEPT ![h] = p] /\ link' = [link EXCEPT ![h - 1] = a]
  BY DEF Return
<1> HIDE DEF a, p
<1>4. link' \in [Links -> LinkState] /\ link'[h - 1] = a /\ \A k \in Links : k # h - 1 => link'[k] = link[k]
  BY <1>1, <1>3, OneLink, Ends
<1>5. hop' \in [Proxies -> HopState] /\ hop'[h] = p /\ \A k \in Proxies : k # h => hop'[k] = hop[k]
  BY <1>2, <1>3, OneHop
<1>6. Shape'
  BY <1>3, <1>4, <1>5 DEF Shape
<1>7. CASE link[h - 1].end = "open" /\ Status(h) = "ok"
  <2>1. /\ hop[h].req = "ok" /\ hop[h].resp = "ok"
        /\ link[h - 1].closed /\ link[h - 1].reqs = 0 /\ link[h].end = "ok" /\ link[h].resps = 0
        /\ link'[h - 1].end = "ok" /\ link[Hops].end = "ok"
    BY <1>0, <1>1, <1>4, <1>7, Ends DEF HopInv
  <2>2. \A k \in Links : /\ link'[k].reqs = link[k].reqs /\ link'[k].resps = link[k].resps
                         /\ link'[k].closed = link[k].closed /\ link'[k].live = link[k].live
                         /\ k # h - 1 => link'[k].end = link[k].end
    BY <1>1, <1>4
  <2>3. \A k \in Proxies : /\ hop'[k].req = hop[k].req /\ hop'[k].resp = hop[k].resp
                           /\ hop'[k].st = "idle" => hop[k].st = "idle"
    BY <1>2, <1>5
  <2>4. h - 1 # Hops
    BY <2>1, <1>7
  <2>5. \A k \in Proxies : k = h - 1 => hop[k].st # "idle"
    <3>1. ASSUME NEW k \in Proxies, k = h - 1, hop[k].st = "idle" PROVE FALSE
      BY <3>1, <2>1 DEF HopInv
    <3> QED
      BY <3>1
  <2>6. HopInv'
    BY <2>1, <2>2, <2>3, <2>4, <2>5, Ends DEF HopInv
  <2>7. \A k \in Links : (KeepsRequests(k)' <=> KeepsRequests(k)) /\ (KeepsResponses(k)' <=> KeepsResponses(k))
    <3>1. \A k \in Links : link'[k].end # "failed" <=> link[k].end # "failed"
      BY <2>1, <2>2, <1>7
    <3> QED
      BY <3>1, <2>3, Ends DEF KeepsRequests, KeepsResponses
  <2>8. PICK in \in Counts : RequestFlow(in)
    OBVIOUS
  <2>9. RequestFlow(in)'
    <3>1. \A k \in 0 .. Hops + 1 : in[k] \in Nat
      BY DEF Counts
    <3>2. KeepsRequests(h - 1)
      BY <1>7, <2>1, Neighbours DEF KeepsRequests
    <3>3. in[h - 1] = in[h] + link[h - 1].reqs /\ in[h] = got[1]
      BY <3>2, <2>1, <2>8, Ends, Neighbours DEF RequestFlow
    <3>4. in[h - 1] = got[1]
      <4>1. in[h] \in Nat
        BY <3>1, Ends
      <4> QED
        BY <4>1, <3>3, <2>1
    <3> QED
      BY <3>4, <2>2, <2>7, <2>8, <1>3, Ends DEF RequestFlow
  <2>10. PICK out \in Counts : ResponseFlow(out)
    OBVIOUS
  <2>11. ResponseFlow(out)'
    <3>1. \A k \in 0 .. Hops + 1 : out[k] \in Nat
      BY DEF Counts
    <3>2. KeepsResponses(h)
      BY <2>1, Ends DEF KeepsResponses
    <3>3. out[h] = sent[2]
      BY <3>1, <3>2, <2>1, <2>10, Ends DEF ResponseFlow
    <3> QED
      BY <3>3, <2>2, <2>7, <2>10, <1>3, Ends DEF ResponseFlow
  <2> QED
    BY <1>6, <2>6, <2>9, <2>11
<1>8. CASE ~(link[h - 1].end = "open" /\ Status(h) = "ok")
  <2>1. link'[h - 1].end = link[h - 1].end \/ (link[h - 1].end = "open" /\ link'[h - 1].end = "failed")
    BY <1>0, <1>1, <1>4, <1>8 DEF Statuses, Status
  <2>2. \A k \in Links : /\ link'[k].reqs = link[k].reqs /\ link'[k].resps = link[k].resps
                         /\ link'[k].closed = link[k].closed /\ link'[k].live = link[k].live
                         /\ k # h - 1 => link'[k].end = link[k].end
                         /\ link'[k].end = "ok" <=> link[k].end = "ok"
    BY <1>1, <1>4, <2>1
  <2>3. \A k \in Proxies : /\ hop'[k].req = hop[k].req /\ hop'[k].resp = hop[k].resp
                           /\ hop'[k].st = "idle" => hop[k].st = "idle"
    BY <1>2, <1>5
  <2>4. \A k \in Proxies : k = h - 1 => hop[k].st # "idle"
    BY <1>3 DEF OrderInv
  <2>5. HopInv'
    BY <2>1, <2>2, <2>3, <2>4, Ends DEF HopInv
  <2>6. \A k \in Links : (KeepsRequests(k)' => KeepsRequests(k)) /\ (KeepsResponses(k)' => KeepsResponses(k))
    BY <2>1, <2>2, <2>3, Ends DEF KeepsRequests, KeepsResponses
  <2> QED
    BY <2>2, <2>5, <2>6, <1>3, <1>6, Members, RequestsRest, ResponsesRest
<1> QED
  BY <1>7, <1>8

\* The client's ends of both directions.
LEMMA ClientStep == ASSUME RelayInv, ClientSends \/ ClientReceives \/ ClientCloses PROVE RelayInv'
<1> USE DEF RelayInv
<1> DEFINE s == [link[0] EXCEPT !.reqs = @ + 1]
           r == [link[0] EXCEPT !.resps = @ - 1]
           c == [link[0] EXCEPT !.closed = TRUE]
<1>1. /\ s \in LinkState /\ s.reqs = link[0].reqs + 1 /\ s.resps = link[0].resps
      /\ s.live = link[0].live /\ s.closed = link[0].closed /\ s.end = link[0].end
  BY Members, Ends DEF LinkState
<1>2. c \in LinkState /\ c.reqs = link[0].reqs /\ c.resps = link[0].resps
      /\ c.live = link[0].live /\ c.closed /\ c.end = link[0].end
  BY Members, Ends DEF LinkState
<1>3. link[0].resps > 0 =>
      /\ r \in LinkState /\ r.reqs = link[0].reqs /\ r.resps = link[0].resps - 1
      /\ r.live = link[0].live /\ r.closed = link[0].closed /\ r.end = link[0].end
  BY Members, Ends DEF LinkState
<1>4. PICK in \in Counts : RequestFlow(in)
  OBVIOUS
<1>5. PICK out \in Counts : ResponseFlow(out)
  OBVIOUS
<1>6. \A k \in 0 .. Hops + 1 : in[k] \in Nat /\ out[k] \in Nat
  BY DEF Counts
<1>7. CASE ClientSends
  <2>1. Usable(0) /\ ~link[0].closed /\ sent[1] < MaxMessages /\ hop' = hop /\ got' = got
        /\ link' = [link EXCEPT ![0] = s] /\ sent' = [sent EXCEPT ![1] = sent[1] + 1]
    BY <1>7 DEF ClientSends
  <2> HIDE DEF s
  <2>2. link' \in [Links -> LinkState] /\ link'[0] = s /\ \A k \in Links : k # 0 => link'[k] = link[k]
    BY <1>1, <2>1, OneLink, Ends
  <2>3. sent' \in (0 .. MaxMessages) \X (0 .. MaxMessages) /\ sent'[1] = sent[1] + 1 /\ sent'[2] = sent[2]
    BY <2>1, Ends DEF Shape
  <2>4. Shape'
    BY <2>1, <2>2, <2>3 DEF Shape
  <2>5. HopInv'
    BY <1>1, <2>1, <2>2, Ends DEF HopInv, Usable
  <2>6. \A k \in Links : /\ link'[k].resps = link[k].resps /\ link'[k].end = link[k].end
                         /\ KeepsResponses(k)' => KeepsResponses(k)
                         /\ KeepsRequests(k)' => KeepsRequests(k)
    BY <1>1, <2>1, <2>2 DEF KeepsResponses, KeepsRequests
  <2>7. ResponseFlow(out)'
    BY <1>5, <2>1, <2>3, <2>4, <2>6, Members, ResponsesRest
  <2>8. \E i \in Counts : RequestFlow(i)'
    <3> DEFINE i == [in EXCEPT ![0] = @ + 1]
    <3>1. i \in Counts /\ i[0] = in[0] + 1 /\ \A k \in 0 .. Hops + 1 : k # 0 => i[k] = in[k]
      BY CountUp, Ends
    <3> HIDE DEF i
    <3>a. sent[1] \in Nat
      BY ProxyAssumption DEF Shape
    <3>b. \A k \in Links : link[k].reqs \in Nat
      BY Members
    <3>2. \A k \in Links : k + 1 # 0 /\ sent[1] \in Nat /\ link[k].reqs \in Nat
      BY <3>a, <3>b, Neighbours
    <3>3. RequestFlow(i)'
      <4>1. i[0] = sent'[1] /\ i[Hops + 1] = got'[1]
        BY <1>4, <2>1, <2>3, <3>1, Ends DEF RequestFlow
      <4>2. ASSUME NEW k \in Links
            PROVE  /\ i[k] <= sent'[1] /\ i[k + 1] + link'[k].reqs <= i[k]
                   /\ KeepsRequests(k)' => i[k + 1] + link'[k].reqs = i[k]
                   /\ link'[k].end = "ok" => i[k] = got'[1]
        <5>1. /\ in[k] <= sent[1] /\ in[k + 1] + link[k].reqs <= in[k]
              /\ KeepsRequests(k)' => in[k + 1] + link[k].reqs = in[k]
              /\ link'[k].end = "ok" => in[k] = got[1]
          BY <1>4, <2>6 DEF RequestFlow
        <5>2. /\ i[k + 1] = in[k + 1] /\ in[k] \in Nat /\ in[k + 1] \in Nat
              /\ sent[1] \in Nat /\ link[k].reqs \in Nat
          BY <1>6, <3>1, <3>2, Ends
        <5>3. CASE k = 0
          <6>1. i[k] = in[k] + 1 /\ link'[k].reqs = link[k].reqs + 1 /\ in[k] = sent[1]
            BY <1>1, <1>4, <2>2, <3>1, <5>3 DEF RequestFlow
          <6>2. link'[k].end # "ok"
            BY <2>1, <2>6, <5>3 DEF Usable
          <6> QED
            BY <2>3, <5>1, <5>2, <6>1, <6>2
        <5>4. CASE k # 0
          <6>1. i[k] = in[k] /\ link'[k].reqs = link[k].reqs
            BY <2>2, <3>1, <5>4, Ends
          <6> QED
            BY <2>1, <2>3, <5>1, <5>2, <6>1
        <5> QED
          BY <5>3, <5>4
      <4> QED
        BY <4>1, <4>2 DEF RequestFlow
    <3> QED
      BY <3>1, <3>3
  <2> QED
    BY <2>4, <2>5, <2>7, <2>8
<1>8. CASE ClientReceives
  <2>1. link[0].resps > 0 /\ hop' = hop /\ sent' = sent
        /\ link' = [link EXCEPT ![0] = r] /\ got' = [got EXCEPT ![2] = got[2] + 1]
    BY <1>8 DEF ClientReceives
  <2> HIDE DEF r
  <2>2. link' \in [Links -> LinkState] /\ link'[0] = r /\ \A k \in Links : k # 0 => link'[k] = link[k]
    BY <1>3, <2>1, OneLink, Ends
  <2>3. got' \in Nat \X Nat /\ got'[2] = got[2] + 1 /\ got'[1] = got[1]
    BY <2>1 DEF Shape
  <2>4. Shape'
    BY <2>1, <2>2, <2>3 DEF Shape
  <2>5. HopInv'
    BY <1>3, <2>1, <2>2, Ends DEF HopInv
  <2>6. \A k \in Links : /\ link'[k].reqs = link[k].reqs /\ link'[k].end = link[k].end
                         /\ KeepsResponses(k)' => KeepsResponses(k)
                         /\ KeepsRequests(k)' => KeepsRequests(k)
    BY <1>3, <2>1, <2>2 DEF KeepsResponses, KeepsRequests
  <2>7. RequestFlow(in)'
    BY <1>4, <2>1, <2>3, <2>4, <2>6, Members, RequestsRest
  <2>8. \E i \in Counts : ResponseFlow(i)'
    <3> DEFINE i == [out EXCEPT ![0] = @ + 1]
    <3>1. i \in Counts /\ i[0] = out[0] + 1 /\ \A k \in 0 .. Hops + 1 : k # 0 => i[k] = out[k]
      BY CountUp, Ends
    <3> HIDE DEF i
    <3>2. \A k \in Links : k + 1 # 0 /\ link[k].resps \in Nat
      BY Neighbours, Members
    <3>3. i[0] = got'[2] /\ i[Hops + 1] = sent'[2]
      BY <1>5, <2>1, <2>3, <3>1, Ends DEF ResponseFlow
    <3>4. \A k \in Links : i[k + 1] = out[k + 1] /\ i[k] + link'[k].resps = out[k] + link[k].resps
      BY <1>3, <1>6, <2>1, <2>2, <3>1, <3>2, Ends
    <3>5. ResponseFlow(i)'
      BY <1>5, <2>1, <2>6, <3>3, <3>4 DEF ResponseFlow
    <3> QED
      BY <3>1, <3>5
  <2> QED
    BY <2>4, <2>5, <2>7, <2>8
<1>9. CASE ClientCloses
  <2>1. hop' = hop /\ sent' = sent /\ got' = got /\ link' = [link EXCEPT ![0] = c]
    BY <1>9 DEF ClientCloses
  <2> HIDE DEF c
  <2>2. link' \in [Links -> LinkState] /\ link'[0] = c /\ \A k \in Links : k # 0 => link'[k] = link[k]
    BY <1>2, <2>1, OneLink, Ends
  <2>3. Shape'
    BY <2>1, <2>2 DEF Shape
  <2>4. HopInv'
    BY <1>2, <2>1, <2>2, Ends DEF HopInv
  <2>5. \A k \in Links : /\ link'[k].reqs = link[k].reqs /\ link'[k].resps = link[k].resps
                         /\ link'[k].end = link[k].end
                         /\ KeepsResponses(k)' => KeepsResponses(k)
                         /\ KeepsRequests(k)' => KeepsRequests(k)
    BY <1>2, <2>1, <2>2 DEF KeepsResponses, KeepsRequests
  <2> QED
    BY <1>4, <1>5, <2>1, <2>3, <2>4, <2>5, Members, RequestsRest, ResponsesRest
<1> QED
  BY <1>7, <1>8, <1>9

\* The storage's ends of both directions.
LEMMA KineStep == ASSUME RelayInv, KineReceives \/ KineSends \/ KineEnds PROVE RelayInv'
<1> USE DEF RelayInv
<1> DEFINE r == [link[Hops] EXCEPT !.reqs = @ - 1]
           s == [link[Hops] EXCEPT !.resps = @ + 1]
           e == [link[Hops] EXCEPT !.end = "ok"]
<1>1. /\ s \in LinkState /\ s.reqs = link[Hops].reqs /\ s.resps = link[Hops].resps + 1
      /\ s.live = link[Hops].live /\ s.closed = link[Hops].closed /\ s.end = link[Hops].end
  BY Members, Ends DEF LinkState
<1>2. e \in LinkState /\ e.reqs = link[Hops].reqs /\ e.resps = link[Hops].resps
      /\ e.live = link[Hops].live /\ e.closed = link[Hops].closed /\ e.end = "ok"
  BY Members, Ends DEF LinkState, Statuses
<1>3. link[Hops].reqs > 0 =>
      /\ r \in LinkState /\ r.reqs = link[Hops].reqs - 1 /\ r.resps = link[Hops].resps
      /\ r.live = link[Hops].live /\ r.closed = link[Hops].closed /\ r.end = link[Hops].end
  BY Members, Ends DEF LinkState
<1>4. PICK in \in Counts : RequestFlow(in)
  OBVIOUS
<1>5. PICK out \in Counts : ResponseFlow(out)
  OBVIOUS
<1>6. \A k \in 0 .. Hops + 1 : in[k] \in Nat /\ out[k] \in Nat
  BY DEF Counts
<1>7. CASE KineReceives
  <2>1. Usable(Hops) /\ link[Hops].reqs > 0 /\ hop' = hop /\ sent' = sent
        /\ link' = [link EXCEPT ![Hops] = r] /\ got' = [got EXCEPT ![1] = got[1] + 1]
    BY <1>7 DEF KineReceives
  <2> HIDE DEF r
  <2>2. link' \in [Links -> LinkState] /\ link'[Hops] = r /\ \A k \in Links : k # Hops => link'[k] = link[k]
    BY <1>3, <2>1, OneLink, Ends
  <2>3. got' \in Nat \X Nat /\ got'[1] = got[1] + 1 /\ got'[2] = got[2]
    BY <2>1 DEF Shape
  <2>4. Shape'
    BY <2>1, <2>2, <2>3 DEF Shape
  <2>5. HopInv' /\ \A k \in Links : link[k].end # "ok"
    <3>1. \A k \in Links : link[k].end # "ok"
      BY <2>1 DEF HopInv, Usable
    <3>2. \A k \in Proxies : link'[k - 1] = link[k - 1]
      BY <2>2, Ends, Neighbours
    <3>3. \A k \in Links : /\ link'[k].resps = link[k].resps /\ link'[k].live = link[k].live
                           /\ link'[k].closed = link[k].closed /\ link'[k].end = link[k].end
                           /\ link[k].reqs = 0 => link'[k].reqs = 0
      BY <1>3, <2>1, <2>2, Members
    <3>4. HopInv'
      BY <2>1, <3>2, <3>3, Ends DEF HopInv
    <3> QED
      BY <3>1, <3>4
  <2>6. \A k \in Links : /\ link'[k].resps = link[k].resps /\ link'[k].end = link[k].end
                         /\ KeepsResponses(k)' => KeepsResponses(k)
                         /\ KeepsRequests(k)' => KeepsRequests(k)
    BY <1>3, <2>1, <2>2 DEF KeepsResponses, KeepsRequests
  <2>7. ResponseFlow(out)'
    BY <1>5, <2>1, <2>3, <2>4, <2>6, Members, ResponsesRest
  <2>8. \E i \in Counts : RequestFlow(i)'
    <3> DEFINE i == [in EXCEPT ![Hops + 1] = @ + 1]
    <3>1. i \in Counts /\ i[Hops + 1] = in[Hops + 1] + 1
          /\ \A k \in 0 .. Hops + 1 : k # Hops + 1 => i[k] = in[k]
      BY CountUp, Ends
    <3> HIDE DEF i
    <3>2. \A k \in Links : k # Hops + 1 /\ (k # Hops => k + 1 # Hops + 1) /\ link[k].reqs \in Nat
      BY Neighbours, Members
    <3>3. RequestFlow(i)'
      BY <1>3, <1>4, <1>6, <2>1, <2>2, <2>3, <2>5, <2>6, <3>1, <3>2, Ends DEF RequestFlow
    <3> QED
      BY <3>1, <3>3
  <2> QED
    BY <2>4, <2>5, <2>7, <2>8
<1>8. CASE KineSends
  <2>1. Usable(Hops) /\ sent[2] < MaxMessages /\ hop' = hop /\ got' = got
        /\ link' = [link EXCEPT ![Hops] = s] /\ sent' = [sent EXCEPT ![2] = sent[2] + 1]
    BY <1>8 DEF KineSends
  <2> HIDE DEF s
  <2>2. link' \in [Links -> LinkState] /\ link'[Hops] = s /\ \A k \in Links : k # Hops => link'[k] = link[k]
    BY <1>1, <2>1, OneLink, Ends
  <2>3. sent' \in (0 .. MaxMessages) \X (0 .. MaxMessages) /\ sent'[2] = sent[2] + 1 /\ sent'[1] = sent[1]
    BY <2>1, Ends DEF Shape
  <2>4. Shape'
    BY <2>1, <2>2, <2>3 DEF Shape
  <2>5. HopInv' /\ \A k \in Links : link[k].end # "ok"
    BY <1>1, <2>1, <2>2, Members, Ends DEF HopInv, Usable
  <2>6. \A k \in Links : /\ link'[k].reqs = link[k].reqs /\ link'[k].end = link[k].end
                         /\ KeepsResponses(k)' => KeepsResponses(k)
                         /\ KeepsRequests(k)' => KeepsRequests(k)
    BY <1>1, <2>1, <2>2 DEF KeepsResponses, KeepsRequests
  <2>7. RequestFlow(in)'
    BY <1>4, <2>1, <2>3, <2>4, <2>6, Members, RequestsRest
  <2>8. \E i \in Counts : ResponseFlow(i)'
    <3> DEFINE i == [out EXCEPT ![Hops + 1] = @ + 1]
    <3>1. i \in Counts /\ i[Hops + 1] = out[Hops + 1] + 1
          /\ \A k \in 0 .. Hops + 1 : k # Hops + 1 => i[k] = out[k]
      BY CountUp, Ends
    <3> HIDE DEF i
    <3>2. \A k \in Links : k # Hops + 1 /\ (k # Hops => k + 1 # Hops + 1) /\ link[k].resps \in Nat
                           /\ sent[2] \in Nat
      BY Neighbours, Members DEF Shape
    <3>3. ResponseFlow(i)'
      BY <1>1, <1>5, <1>6, <2>1, <2>2, <2>3, <2>5, <2>6, <3>1, <3>2, Ends DEF ResponseFlow
    <3> QED
      BY <3>1, <3>3
  <2> QED
    BY <2>4, <2>5, <2>7, <2>8
<1>9. CASE KineEnds
  <2>1. Usable(Hops) /\ link[Hops].closed /\ link[Hops].reqs = 0
        /\ hop' = hop /\ sent' = sent /\ got' = got /\ link' = [link EXCEPT ![Hops] = e]
    BY <1>9 DEF KineEnds
  <2> HIDE DEF e
  <2>2. link' \in [Links -> LinkState] /\ link'[Hops] = e /\ \A k \in Links : k # Hops => link'[k] = link[k]
    BY <1>2, <2>1, OneLink, Ends
  <2>3. Shape'
    BY <2>1, <2>2 DEF Shape
  <2>4. HopInv'
    BY <1>2, <2>1, <2>2, Ends DEF HopInv, Usable
  <2>5. \A k \in Links : /\ link'[k].reqs = link[k].reqs /\ link'[k].resps = link[k].resps
                         /\ k # Hops => link'[k].end = link[k].end
                         /\ KeepsResponses(k)' => KeepsResponses(k)
                         /\ KeepsRequests(k)' => KeepsRequests(k)
    BY <1>2, <2>1, <2>2 DEF KeepsResponses, KeepsRequests, Usable
  <2>6. in[Hops] = got[1] /\ out[Hops + 1] = sent[2]
    <3>1. KeepsRequests(Hops)
      BY <2>1, Ends DEF KeepsRequests, Usable
    <3> QED
      BY <3>1, <1>4, <1>5, <1>6, <2>1, Ends DEF RequestFlow, ResponseFlow
  <2>7. RequestFlow(in)'
    BY <1>4, <2>1, <2>5, <2>6, Ends DEF RequestFlow
  <2>8. ResponseFlow(out)'
    BY <1>5, <2>1, <2>5, <2>6, Ends DEF ResponseFlow
  <2> QED
    BY <2>3, <2>4, <2>7, <2>8
<1> QED
  BY <1>7, <1>8, <1>9

\* The hops of a stream are opened in their order.
LEMMA OrderStep == ASSUME RelayInv, OrderInv, Next PROVE OrderInv'
<1>1. ASSUME NEW h \in Proxies, Open(h) PROVE OrderInv'
  <2>1. \A k \in Proxies : k = h - 1 => hop[k].st # "idle"
    BY <1>1 DEF RelayInv, HopInv, Open, Usable
  <2>2. PICK st \in {"pumping", "returned"} : hop' = [hop EXCEPT ![h].st = st]
    BY <1>1 DEF Open
  <2> DEFINE r == [hop[h] EXCEPT !.st = st]
  <2>3. r \in HopState /\ r.st # "idle"
    BY Members DEF RelayInv, HopState
  <2>4. hop' = [hop EXCEPT ![h] = r]
    BY <2>2
  <2> HIDE DEF r
  <2>5. hop'[h].st # "idle" /\ \A k \in Proxies : k # h => hop'[k] = hop[k]
    BY <2>3, <2>4, OneHop DEF RelayInv
  <2> QED
    BY <2>1, <2>5, Ends DEF OrderInv
<1>2. ASSUME \A k \in Proxies : hop'[k].st = hop[k].st \/ (hop[k].st # "idle" /\ hop'[k].st # "idle")
      PROVE  OrderInv'
  BY <1>2 DEF OrderInv
<1>3. ASSUME NEW h \in Proxies, Requests(h) \/ Responses(h) \/ Return(h) \/ Cancel(h)
      PROVE  \A k \in Proxies : hop'[k].st = hop[k].st \/ (hop[k].st # "idle" /\ hop'[k].st # "idle")
  <2>1. hop \in [Proxies -> HopState]
    BY DEF RelayInv, Shape
  <2> QED
    BY <1>3, <2>1 DEF Requests, ForwardRequest, RequestsEnd, Responses, ForwardResponse, ResponsesEnd,
       Return, Cancel, HopState
<1>4. CASE \/ ClientSends \/ ClientReceives \/ ClientCloses \/ KineReceives \/ KineSends \/ KineEnds
           \/ \E l \in Links : Break(l)
  BY <1>4, <1>2 DEF ClientSends, ClientReceives, ClientCloses, KineReceives, KineSends, KineEnds, Break
<1> QED
  BY <1>1, <1>2, <1>3, <1>4 DEF Next
-----------------------------------------------------------------------------

LEMMA InductiveInit == Init => IInv
<1> SUFFICES ASSUME Init PROVE IInv
  OBVIOUS
<1>1. link \in [Links -> LinkState]
  BY NoLinkState DEF Init
<1>2. hop \in [Proxies -> HopState]
  BY DEF Init, HopState, Statuses
<1>3. Shape
  BY <1>1, <1>2, Ends DEF Init, Shape
<1>4. \A l \in Links : /\ link[l].reqs = 0 /\ link[l].resps = 0 /\ link[l].end = "open"
                       /\ ~link[l].closed /\ (l # 0 => ~link[l].live)
  BY NoLinkState DEF Init
<1>5. \A h \in Proxies : hop[h].st = "idle" /\ hop[h].req = "open" /\ hop[h].resp = "open" /\ h # 0
  BY Ends DEF Init, Proxies
<1>6. HopInv /\ OrderInv
  BY <1>4, <1>5, Ends DEF HopInv, OrderInv
<1>7. \E f \in Counts : RequestFlow(f) /\ ResponseFlow(f)
  <2> DEFINE f == [k \in 0 .. Hops + 1 |-> 0]
  <2>1. f \in Counts /\ \A k \in 0 .. Hops + 1 : f[k] = 0
    BY DEF Counts
  <2>2. sent[1] = 0 /\ sent[2] = 0 /\ got[1] = 0 /\ got[2] = 0
    BY DEF Init
  <2> HIDE DEF f
  <2>3. RequestFlow(f) /\ ResponseFlow(f)
    BY <1>4, <2>1, <2>2, Ends DEF RequestFlow, ResponseFlow
  <2> QED
    BY <2>1, <2>3
<1> QED
  BY <1>3, <1>6, <1>7 DEF IInv, RelayInv

\* Every step keeps the invariant.
LEMMA InductiveNext == IInv /\ [Next]_vars => IInv'
<1> SUFFICES ASSUME IInv, [Next]_vars PROVE IInv'
  OBVIOUS
<1>1. CASE UNCHANGED vars
  BY <1>1 DEF vars, IInv, RelayInv, OrderInv, Shape, HopInv, RequestFlow, ResponseFlow, KeepsRequests, KeepsResponses
<1>2. CASE Next
  BY <1>2, OpenStep, ForwardRequestStep, RequestsEndStep, ForwardResponseStep, ResponsesEndStep,
     ReturnStep, CancelStep, BreakStep, ClientStep, KineStep, OrderStep
     DEF Next, Requests, Responses, IInv
<1> QED
  BY <1>1, <1>2

LEMMA Inductive == Spec => []IInv
BY InductiveInit, InductiveNext, PTL DEF Spec

\* No more is under way or has arrived than was sent.
LEMMA InductiveType == IInv => TypeOK
<1> SUFFICES ASSUME IInv PROVE TypeOK
  OBVIOUS
<1>1. PICK in \in Counts : RequestFlow(in)
  BY DEF IInv, RelayInv
<1>2. PICK out \in Counts : ResponseFlow(out)
  BY DEF IInv, RelayInv
<1>3. \A k \in 0 .. Hops + 1 : in[k] \in Nat /\ out[k] \in Nat
  BY DEF Counts
<1>4. /\ sent[1] \in 0 .. MaxMessages /\ sent[2] \in 0 .. MaxMessages
      /\ got[1] \in Nat /\ got[2] \in Nat /\ got = <<got[1], got[2]>>
  BY DEF IInv, RelayInv, Shape
<1>5. \A l \in Links : link[l] \in LinkState /\ link[l].reqs \in 0 .. MaxMessages
                       /\ link[l].resps \in 0 .. MaxMessages
  BY <1>1, <1>2, <1>3, <1>4, Members, Ends DEF RequestFlow, ResponseFlow, IInv, RelayInv
<1>6. got[1] \in 0 .. MaxMessages /\ got[2] \in 0 .. MaxMessages
  BY <1>1, <1>2, <1>3, <1>4, <1>5, Ends DEF RequestFlow, ResponseFlow
<1>7. link \in [Links -> [live : BOOLEAN, reqs : 0 .. MaxMessages, resps : 0 .. MaxMessages,
                          closed : BOOLEAN, end : Statuses]]
  BY <1>5 DEF IInv, RelayInv, Shape, LinkState
<1> QED
  BY <1>4, <1>6, <1>7 DEF TypeOK, IInv, RelayInv, Shape, HopState

\* TypeOK is an invariant: neither a link nor a receiver ever holds more
\* messages than were sent.
THEOREM Typing == Spec => []TypeOK
BY Inductive, InductiveType, PTL

\* A stream that ends cleanly for the client has been relayed completely in both
\* directions, over any number of proxies, whatever broke on the way and in
\* whichever order the goroutines of pumpBidi ran.
THEOREM CleanMeansComplete == Spec => []CleanEndIsComplete
<1>1. IInv => CleanEndIsComplete
  <2> SUFFICES ASSUME IInv, link[0].end = "ok"
               PROVE  got[1] = sent[1] /\ got[2] + link[0].resps = sent[2]
    BY DEF CleanEndIsComplete
  <2>1. PICK in \in Counts : RequestFlow(in)
    BY DEF IInv, RelayInv
  <2>2. PICK out \in Counts : ResponseFlow(out)
    BY DEF IInv, RelayInv
  <2>3. KeepsResponses(0)
    BY DEF KeepsResponses
  <2>4. 0 + 1 = 1
    OBVIOUS
  <2> QED
    BY <2>1, <2>2, <2>3, <2>4, Ends DEF RequestFlow, ResponseFlow
<1> QED
  BY <1>1, Inductive, PTL
=============================================================================
