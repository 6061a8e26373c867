--------------------------- MODULE Routing_proofs ---------------------------
(***************************************************************************)
(* Routes for any network, any links that fail and any flows: a search     *)
(* finds the distances and the hops of shortest paths, what it leaves      *)
(* behind leads nearer, and nothing is anywhere else.                      *)
(***************************************************************************)
EXTENDS Routing, NatSums_proofs, FiniteSetTheorems, SequenceTheorems

Packet == [to : Host, from : Node, next : Node]
Table == [Node -> [Host -> SUBSET Node]]

(* What the search has in hand.                                            *)
SearchInv ==
  /\ nextHop \in Table /\ todo \subseteq Host
  /\ pair = [x \in Node |-> [h \in Host |-> pair[x][h]]]
  /\ phase \in {"start", "redo", "run"} /\ (phase = "run" => q = <<>>)
  /\ q \in Seq(Switch \cup {host}) /\ \A i \in DOMAIN q : q[i] \in DOMAIN reach
  /\ DOMAIN reach \subseteq Node /\ left \subseteq Node
  /\ q = <<>> => left = {}
  /\ q # <<>> => host \in todo /\ left \subseteq Neighbours(Head(q))

(* A next hop leads; for the hosts done by the distances kept, for the one *)
(* at hand by those of the search.                                         *)
HopsInv ==
  \A x \in Node, h \in Host : \A y \in nextHop[x][h] :
    /\ Leads(x, y, h)
    /\ h \in todo => q # <<>> /\ h = host
    /\ h \notin todo => pair[x][h].dis = pair[y][h].dis + 1
    /\ q # <<>> /\ h = host => /\ x \in DOMAIN reach /\ y \in DOMAIN reach
                               /\ reach[x].dis = reach[y].dis + 1

(* The tables while the program runs, and what moves by them.              *)
TrafficInv ==
  /\ table \in Table
  /\ phase = "start" => table = Nothing
  /\ phase = "run" => table = nextHop /\ todo = {}
  /\ nic \in [Flow -> Node \cup {None}] /\ packet \in [Flow -> Packet \cup {None}]
  /\ phase = "start" => \A f \in Flow : nic[f] = None /\ packet[f] = None
  /\ \A f \in Flow : packet[f] # None =>
       /\ {packet[f].from, packet[f].next} \in up \cup broken
       /\ packet[f].next \in Switch \cup {packet[f].to}
  /\ phase = "run" /\ ~failed => OnRoutes

IInv == SearchInv /\ HopsInv /\ TrafficInv

-----------------------------------------------------------------------------
LEMMA InitInv == Init => IInv
<1>. SUFFICES ASSUME Init PROVE IInv
  OBVIOUS
<1>1. Nothing \in Table /\ nextHop = Nothing /\ q = <<>> /\ left = {} /\ todo = Host
  BY DEF Init, Nothing, Table
<1>2. SearchInv
  BY <1>1 DEF Init, SearchInv, Node
<1>3. HopsInv
  BY <1>1 DEF HopsInv, Nothing
<1>4. TrafficInv
  BY <1>1 DEF Init, TrafficInv
<1>. QED BY <1>2, <1>3, <1>4 DEF IInv

(* Steps of the search leave tables, links and traffic alone.              *)
LEMMA SearchTraffic ==
  ASSUME TrafficInv, phase # "run", UNCHANGED <<up, phase, table, broken, traffic>>
  PROVE  TrafficInv'
BY DEF TrafficInv, OnRoutes, Leads, traffic, Nothing

LEMMA StartSearchInv ==
  ASSUME IInv, NEW h \in Host, StartSearch(h)
  PROVE  IInv'
<1>1. TrafficInv'
  BY SearchTraffic DEF IInv, StartSearch
<1>2. SearchInv'
  <2>1. q' = <<h>> /\ Head(q') = h /\ q' # <<>> /\ DOMAIN q' = {1} /\ q'[1] = h
    BY DEF StartSearch
  <2>2. left' \subseteq Neighbours(h)' /\ Neighbours(h)' \subseteq Node /\ h \in todo'
    BY DEF StartSearch, Neighbours
  <2>3. q' \in Seq(Switch \cup {host'})
    BY <2>1 DEF StartSearch
  <2>4. DOMAIN reach' = {h} /\ h \in Node
    BY DEF StartSearch, Node
  <2>. QED BY <2>1, <2>2, <2>3, <2>4 DEF IInv, SearchInv, StartSearch
<1>3. HopsInv'
  <2>1. q = <<>> /\ h \in todo /\ host' = h
    BY DEF StartSearch
  <2>2. \A x \in Node : nextHop[x][h] = {}
    BY <2>1 DEF IInv, HopsInv, SearchInv, Table
  <2>. QED BY <2>1, <2>2 DEF IInv, HopsInv, Leads, StartSearch
<1>. QED BY <1>1, <1>2, <1>3 DEF IInv

LEMMA LookAtInv ==
  ASSUME IInv, NEW next \in left, LookAt(next)
  PROVE  IInv'
<1>. DEFINE now == Head(q)
            new == next \notin DOMAIN reach
            r == IF new THEN Beyond(reach[now], {now, next}) ELSE reach[next]
<1>1. TrafficInv'
  BY SearchTraffic DEF IInv, LookAt
<1>2. q # <<>> /\ now \in Switch \cup {host} /\ now \in DOMAIN reach /\ now \in Node
  BY HeadTailProperties DEF IInv, SearchInv, Node
<1>3. next \in Node /\ next # now /\ {now, next} \in up
  BY <1>2 DEF IInv, SearchInv, Neighbours
<1>4. host \in todo /\ host \in Host
  BY <1>2 DEF IInv, SearchInv
<1>5. /\ reach' = [x \in DOMAIN reach \cup {next} |-> IF x = next THEN r ELSE reach[x]]
      /\ q' = IF new /\ next \in Switch THEN Append(q, next) ELSE q
      /\ nextHop' = IF reach[now].dis + 1 = r.dis
                    THEN [nextHop EXCEPT ![next][host] = @ \cup {now}] ELSE nextHop
      /\ left' = left \ {next}
      /\ UNCHANGED <<todo, host, pair, up, phase>>
  BY DEF LookAt
<1>6. /\ DOMAIN reach' = DOMAIN reach \cup {next}
      /\ \A x \in DOMAIN reach : reach'[x] = reach[x]
      /\ reach'[next] = r
  BY <1>5
<1>7. q' \in Seq(Switch \cup {host}) /\ q' # <<>> /\ Head(q') = now
      /\ \A i \in DOMAIN q' : q'[i] \in DOMAIN reach'
  <2>1. q \in Seq(Switch \cup {host}) /\ \A i \in DOMAIN q : q[i] \in DOMAIN reach
    BY DEF IInv, SearchInv
  <2>2. CASE new /\ next \in Switch
    <3>1. q' = Append(q, next)
      BY <1>5, <2>2
    <3>. QED BY <1>2, <1>6, <2>1, <2>2, <3>1, AppendProperties
  <2>3. CASE ~(new /\ next \in Switch)
    BY <1>2, <1>5, <1>6, <2>1, <2>3
  <2>. QED BY <2>2, <2>3
<1>8. nextHop' \in Table /\ \A x \in Node, h \in Host : \A y \in nextHop'[x][h] :
        \/ y \in nextHop[x][h]
        \/ x = next /\ h = host /\ y = now /\ reach[now].dis + 1 = r.dis
  <2>1. nextHop \in Table
    BY DEF IInv, SearchInv
  <2>. QED BY <1>2, <1>3, <1>4, <1>5, <2>1 DEF Table
<1>. HIDE DEF now, r
<1>9. SearchInv'
  <2>1. left \subseteq Neighbours(now)
    BY <1>2 DEF IInv, SearchInv, now
  <2>2. Neighbours(Head(q))' = Neighbours(now)
    BY <1>5, <1>7 DEF Neighbours
  <2>3. left' \subseteq Neighbours(Head(q))' /\ left' \subseteq Node
    BY <1>5, <2>1, <2>2 DEF Neighbours
  <2>4. DOMAIN reach' \subseteq Node
    BY <1>3, <1>6 DEF IInv, SearchInv
  <2>5. /\ todo' \subseteq Host /\ host' \in todo'
        /\ pair' = [x \in Node |-> [h \in Host |-> pair'[x][h]]]
        /\ phase' \in {"start", "redo", "run"} /\ phase' # "run"
    BY <1>4, <1>5 DEF IInv, SearchInv, LookAt
  <2>6. q' \in Seq(Switch \cup {host'})
    BY <1>5, <1>7
  <2>. QED BY <1>7, <1>8, <2>3, <2>4, <2>5, <2>6 DEF SearchInv
<1>10. HopsInv'
  <2>. SUFFICES ASSUME NEW x \in Node, NEW h \in Host, NEW y \in nextHop'[x][h]
       PROVE  /\ Leads(x, y, h)'
              /\ h \in todo' => q' # <<>> /\ h = host'
              /\ h \notin todo' => pair'[x][h].dis = pair'[y][h].dis + 1
              /\ q' # <<>> /\ h = host' => /\ x \in DOMAIN reach' /\ y \in DOMAIN reach'
                                           /\ reach'[x].dis = reach'[y].dis + 1
    BY DEF HopsInv
  <2>1. CASE y \in nextHop[x][h]
    <3>1. /\ Leads(x, y, h)
          /\ h \in todo => q # <<>> /\ h = host
          /\ h \notin todo => pair[x][h].dis = pair[y][h].dis + 1
          /\ q # <<>> /\ h = host => /\ x \in DOMAIN reach /\ y \in DOMAIN reach
                                     /\ reach[x].dis = reach[y].dis + 1
      BY <2>1 DEF IInv, HopsInv
    <3>2. Leads(x, y, h)'
      BY <1>5, <3>1 DEF Leads
    <3>3. h = host => /\ x \in DOMAIN reach' /\ y \in DOMAIN reach'
                      /\ reach'[x].dis = reach'[y].dis + 1
      BY <1>2, <1>6, <3>1
    <3>. QED BY <1>5, <1>7, <3>1, <3>2, <3>3
  <2>2. CASE x = next /\ h = host /\ y = now /\ reach[now].dis + 1 = r.dis
    <3>1. Leads(x, y, h)'
      BY <1>2, <1>3, <1>5, <2>2 DEF Leads
    <3>2. x \in DOMAIN reach' /\ y \in DOMAIN reach' /\ reach'[x].dis = reach'[y].dis + 1
      BY <1>2, <1>6, <2>2
    <3>. QED BY <1>4, <1>5, <1>7, <2>2, <3>1, <3>2
  <2>. QED BY <1>8, <2>1, <2>2
<1>. QED BY <1>1, <1>9, <1>10 DEF IInv

LEMMA NextNodeInv ==
  ASSUME IInv, NextNode
  PROVE  IInv'
<1>1. TrafficInv'
  BY SearchTraffic DEF IInv, NextNode
<1>2. q \in Seq(Switch \cup {host}) /\ q # <<>> /\ Len(q) > 1 /\ q' = Tail(q)
      /\ left' = Neighbours(q[2])
      /\ UNCHANGED <<todo, host, reach, nextHop, pair, up, phase>>
  BY DEF IInv, SearchInv, NextNode
<1>3. /\ q' \in Seq(Switch \cup {host}) /\ Len(q') = Len(q) - 1
      /\ \A i \in DOMAIN q' : i + 1 \in DOMAIN q /\ q'[i] = q[i + 1]
  BY <1>2, HeadTailProperties, LenProperties
<1>4. q' # <<>> /\ Head(q') = q[2]
  <2>1. Len(q') \in Nat /\ Len(q') > 0
    BY <1>2, <1>3, LenProperties
  <2>2. 1 \in DOMAIN q' /\ q' # <<>>
    BY <1>3, <2>1, LenProperties
  <2>. QED BY <1>3, <2>2
<1>5. SearchInv'
  BY <1>2, <1>3, <1>4 DEF IInv, SearchInv, Neighbours
<1>6. HopsInv'
  BY <1>2, <1>4 DEF IInv, HopsInv, Leads
<1>. QED BY <1>1, <1>5, <1>6 DEF IInv

LEMMA EndSearchInv ==
  ASSUME IInv, EndSearch
  PROVE  IInv'
<1>1. TrafficInv'
  BY SearchTraffic DEF IInv, EndSearch
<1>2. q # <<>> /\ host \in todo /\ host \in Host
  <2>1. Len(q) = 1
    BY DEF EndSearch
  <2>2. q # <<>>
    BY <2>1
  <2>. QED BY <2>2 DEF IInv, SearchInv
<1>3. /\ \A x \in Node, h \in Host \ {host} : pair'[x][h] = pair[x][h]
      /\ \A x \in DOMAIN reach : pair'[x][host] = reach[x]
      /\ pair' = [x \in Node |-> [h \in Host |-> pair'[x][h]]]
  <2>1. \A x \in Node : pair[x] = [h \in Host |-> pair[x][h]]
    BY DEF IInv, SearchInv
  <2>2. pair' = [x \in Node |-> [pair[x] EXCEPT ![host] = IF x \in DOMAIN reach THEN reach[x] ELSE @]]
    BY DEF EndSearch
  <2>3. \A x \in Node : pair'[x] = [h \in Host |-> IF h = host /\ x \in DOMAIN reach
                                                  THEN reach[x] ELSE pair[x][h]]
    BY <2>1, <2>2
  <2>4. DOMAIN reach \subseteq Node
    BY DEF IInv, SearchInv
  <2>5. DOMAIN pair' = Node
    BY <2>2
  <2>6. pair' = [x \in Node |-> pair'[x]]
    BY <2>2, <2>5
  <2>7. \A x \in Node : pair'[x] = [h \in Host |-> pair'[x][h]]
    BY <2>3
  <2>8. /\ \A x \in Node, h \in Host \ {host} : pair'[x][h] = pair[x][h]
        /\ \A x \in DOMAIN reach : pair'[x][host] = reach[x]
    BY <1>2, <2>3, <2>4, Zenon
  <2>. QED BY <2>6, <2>7, <2>8
<1>4. SearchInv'
  BY <1>3 DEF IInv, SearchInv, EndSearch
<1>5. HopsInv'
  <2>. SUFFICES ASSUME NEW x \in Node, NEW h \in Host, NEW y \in nextHop[x][h]
       PROVE  /\ Leads(x, y, h)
              /\ h \notin todo'
              /\ pair'[x][h].dis = pair'[y][h].dis + 1
    BY SMTT(40) DEF HopsInv, EndSearch, Leads
  <2>1. y \in Node
    BY DEF IInv, SearchInv, Table
  <2>2. CASE h = host
    <3>1. x \in DOMAIN reach /\ y \in DOMAIN reach /\ reach[x].dis = reach[y].dis + 1 /\ Leads(x, y, h)
      BY <1>2, <2>2 DEF IInv, HopsInv
    <3>. QED BY <1>3, <2>2, <3>1, ZenonT(40) DEF EndSearch
  <2>3. CASE h # host
    <3>1. h \notin todo /\ Leads(x, y, h)
      BY <2>3 DEF IInv, HopsInv
    <3>2. pair[x][h].dis = pair[y][h].dis + 1
      BY <3>1 DEF IInv, HopsInv
    <3>. QED BY <1>3, <2>1, <2>3, <3>1, <3>2 DEF EndSearch
  <2>. QED BY <2>2, <2>3
<1>. QED BY <1>1, <1>4, <1>5 DEF IInv

-----------------------------------------------------------------------------
LEMMA EntriesAreHops ==
  ASSUME nextHop \in Table
  PROVE  WithEntries(Nothing) = nextHop
BY DEF WithEntries, Nothing, Table

LEMMA SetUpInv ==
  ASSUME IInv, SetUp
  PROVE  IInv'
<1>1. /\ phase = "start" /\ phase' = "run" /\ q = <<>> /\ todo = {}
      /\ UNCHANGED <<up, todo, host, q, left, reach, nextHop, pair, broken, nic, packet, failed>>
  BY DEF SetUp, Calculated, search, traffic
<1>2. table = Nothing /\ nextHop \in Table /\ table' = WithEntries(Nothing)
  BY <1>1 DEF IInv, SearchInv, TrafficInv, SetUp
<1>3. table' = nextHop /\ table' \in Table
  BY <1>2, EntriesAreHops
<1>4. SearchInv'
  BY <1>1 DEF IInv, SearchInv, Neighbours
<1>5. HopsInv'
  BY <1>1 DEF IInv, HopsInv, Leads
<1>6. TrafficInv'
  <2>1. \A f \in Flow : nic[f] = None /\ packet[f] = None
    BY <1>1 DEF IInv, TrafficInv
  <2>2. OnRoutes'
    BY <1>1, <2>1 DEF OnRoutes
  <2>. QED BY <1>1, <1>3, <2>1, <2>2 DEF IInv, TrafficInv
<1>. QED BY <1>4, <1>5, <1>6 DEF IInv

(* Steps of the traffic leave the routes alone.                            *)
LEMMA TrafficSearch ==
  ASSUME SearchInv, HopsInv, UNCHANGED <<up, phase, search, table, broken>>
  PROVE  SearchInv' /\ HopsInv'
<1>1. SearchInv'
  BY DEF SearchInv, Neighbours, search
<1>2. HopsInv'
  BY DEF HopsInv, Leads, search
<1>. QED BY <1>1, <1>2

LEMMA NewQpInv ==
  ASSUME IInv, NEW f \in Flow, NewQp(f)
  PROVE  IInv'
<1>1. SearchInv' /\ HopsInv'
  BY TrafficSearch DEF IInv, NewQp
<1>2. /\ phase = "run" /\ UNCHANGED <<up, phase, todo, nextHop, table, broken, packet>>
      /\ \/ failed' = TRUE /\ UNCHANGED nic
         \/ \E n \in table[Source[f]][Target[f]] : nic' = [nic EXCEPT ![f] = n]
                                                 /\ failed' = failed
  BY DEF NewQp, search
<1>3. Source[f] \in Node /\ Target[f] \in Host
  BY RouteNodes DEF Node
<1>4. TrafficInv'
  <2>1. CASE failed' = TRUE /\ UNCHANGED nic
    BY <1>2, <2>1 DEF IInv, TrafficInv
  <2>2. ASSUME NEW n \in table[Source[f]][Target[f]], nic' = [nic EXCEPT ![f] = n],
               failed' = failed
        PROVE  TrafficInv'
    <3>1. n \in Node /\ nic' \in [Flow -> Node \cup {None}]
      BY <1>3, <2>2 DEF IInv, TrafficInv, Table
    <3>2. ~failed' => OnRoutes'
      BY <1>2, <2>2 DEF IInv, TrafficInv, OnRoutes, Leads
    <3>. QED BY <1>2, <3>1, <3>2 DEF IInv, TrafficInv
  <2>. QED BY <1>2, <2>1, <2>2
<1>. QED BY <1>1, <1>4 DEF IInv

(* A packet that is sent the way of a table is where it may be.            *)
LEMMA Sent ==
  ASSUME IInv, phase = "run", ~failed,
         UNCHANGED <<up, phase, todo, nextHop, table, broken, nic>>,
         NEW f \in Flow, NEW x \in Node, NEW h \in Host, NEW y \in table[x][h],
         packet' = [packet EXCEPT ![f] = [to |-> h, from |-> x, next |-> y]],
         failed' = failed
  PROVE  TrafficInv'
<1>1. y \in Node /\ Leads(x, y, h)
  BY DEF IInv, TrafficInv, Table, HopsInv
<1>2. packet' \in [Flow -> Packet \cup {None}]
  BY <1>1 DEF IInv, TrafficInv, Packet
<1>3. packet'[f] = [to |-> h, from |-> x, next |-> y]
      /\ \A g \in Flow \ {f} : packet'[g] = packet[g]
  BY DEF IInv, TrafficInv
<1>4. \A g \in Flow : packet'[g] # None =>
        Leads(packet'[g].from, packet'[g].next, packet'[g].to)
  BY <1>1, <1>3 DEF IInv, TrafficInv, OnRoutes
<1>5. OnRoutes'
  BY <1>4 DEF IInv, TrafficInv, OnRoutes, Leads
<1>. QED BY <1>2, <1>4, <1>5 DEF IInv, TrafficInv, Leads

(* As is one that is gone.                                                 *)
LEMMA Gone ==
  ASSUME IInv, phase = "run", ~failed,
         UNCHANGED <<up, phase, todo, nextHop, table, broken, nic>>,
         NEW f \in Flow, packet' = [packet EXCEPT ![f] = None]
  PROVE  TrafficInv'
<1>1. packet' \in [Flow -> Packet \cup {None}]
  BY DEF IInv, TrafficInv
<1>2. packet'[f] = None /\ \A g \in Flow \ {f} : packet'[g] = packet[g]
  BY DEF IInv, TrafficInv
<1>3. OnRoutes'
  BY <1>2 DEF IInv, TrafficInv, OnRoutes, Leads
<1>. QED BY <1>1, <1>2, <1>3 DEF IInv, TrafficInv

LEMMA SendDataInv ==
  ASSUME IInv, NEW f \in Flow, SendData(f)
  PROVE  IInv'
<1>1. SearchInv' /\ HopsInv'
  BY TrafficSearch DEF IInv, SendData
<1>2. /\ phase = "run" /\ ~failed /\ nic[f] # None
      /\ UNCHANGED <<up, phase, todo, nextHop, table, broken, nic>> /\ failed' = failed
      /\ packet' = [packet EXCEPT ![f] = [to |-> Target[f], from |-> Source[f], next |-> nic[f]]]
  BY DEF SendData, search
<1>3. Source[f] \in Node /\ Target[f] \in Host
  BY RouteNodes DEF Node
<1>4. nic[f] \in table[Source[f]][Target[f]]
  BY <1>2 DEF IInv, TrafficInv, OnRoutes
<1>5. TrafficInv'
  BY <1>2, <1>3, <1>4, Sent
<1>. QED BY <1>1, <1>5 DEF IInv

LEMMA ForwardInv ==
  ASSUME IInv, NEW f \in Flow, Forward(f)
  PROVE  IInv'
<1>. DEFINE p == packet[f]
<1>1. SearchInv' /\ HopsInv'
  BY TrafficSearch DEF IInv, Forward
<1>2. /\ phase = "run" /\ ~failed /\ p # None
      /\ UNCHANGED <<up, phase, todo, nextHop, table, broken, nic>> /\ failed' = failed
      /\ \/ packet' = [packet EXCEPT ![f] = None]
         \/ \E n \in table[p.next][p.to] :
              packet' = [packet EXCEPT ![f] = [to |-> p.to, from |-> p.next, next |-> n]]
  BY DEF Forward, search
<1>3. p \in Packet
  BY <1>2 DEF IInv, TrafficInv
<1>4. TrafficInv'
  <2>1. CASE packet' = [packet EXCEPT ![f] = None]
    BY <1>2, <2>1, Gone
  <2>2. ASSUME NEW n \in table[p.next][p.to],
               packet' = [packet EXCEPT ![f] = [to |-> p.to, from |-> p.next, next |-> n]]
        PROVE  TrafficInv'
    <3>1. p.next \in Node /\ p.to \in Host
      BY <1>3 DEF Packet
    <3>. QED BY <1>2, <2>2, <3>1, Sent
  <2>. QED BY <1>2, <2>1, <2>2
<1>. QED BY <1>1, <1>4 DEF IInv

LEMMA DeliverInv ==
  ASSUME IInv, NEW f \in Flow, Deliver(f)
  PROVE  IInv'
<1>. DEFINE p == packet[f]
<1>1. SearchInv' /\ HopsInv'
  BY TrafficSearch DEF IInv, Deliver
<1>2. /\ phase = "run" /\ ~failed /\ p # None /\ p.next \in Host
      /\ UNCHANGED <<up, phase, todo, nextHop, table, broken, nic>>
      /\ \/ packet' = [packet EXCEPT ![f] = None]
         \/ failed' = TRUE /\ UNCHANGED packet
         \/ \E n \in table[p.next][Source[f]] : failed' = failed /\
              packet' = [packet EXCEPT ![f] = [to |-> Source[f], from |-> p.next, next |-> n]]
  BY DEF Deliver, IsData, search
<1>3. Source[f] \in Host /\ p.next \in Node
  BY <1>2, RouteNodes DEF Node
<1>4. TrafficInv'
  <2>1. CASE packet' = [packet EXCEPT ![f] = None]
    BY <1>2, <2>1, Gone
  <2>2. CASE failed' = TRUE /\ UNCHANGED packet
    BY <1>2, <2>2 DEF IInv, TrafficInv
  <2>3. ASSUME NEW n \in table[p.next][Source[f]], failed' = failed,
               packet' = [packet EXCEPT ![f] = [to |-> Source[f], from |-> p.next, next |-> n]]
        PROVE  TrafficInv'
    BY <1>2, <1>3, <2>3, Sent
  <2>. QED BY <1>2, <2>1, <2>2, <2>3
<1>. QED BY <1>1, <1>4 DEF IInv

(* No host is done until the routes are calculated again.                  *)
LEMMA TakeDownLinkInv ==
  ASSUME IInv, NEW link \in up, TakeDownLink(link)
  PROVE  IInv'
<1>1. /\ phase = "run" /\ phase' = "redo" /\ q = <<>>
      /\ up' = up \ {link} /\ broken' = broken \cup {link}
      /\ nextHop' = Nothing /\ todo' = Host
      /\ UNCHANGED <<host, q, left, reach, pair, table, nic, packet, failed>>
  BY DEF IInv, SearchInv, TakeDownLink, traffic
<1>2. Nothing \in Table
  BY DEF Nothing, Table
<1>3. SearchInv'
  BY <1>1, <1>2 DEF IInv, SearchInv
<1>4. HopsInv'
  BY <1>1 DEF HopsInv, Nothing
<1>5. TrafficInv'
  BY <1>1 DEF IInv, TrafficInv
<1>. QED BY <1>3, <1>4, <1>5 DEF IInv

(* What is left of the packets is on links that are up, and every queue    *)
(* pair has a NIC of the new tables, unless a host is cut off.             *)
LEMMA RedoInv ==
  ASSUME IInv, Redo
  PROVE  IInv'
<1>1. /\ phase = "redo" /\ phase' = "run" /\ q = <<>> /\ todo = {}
      /\ UNCHANGED <<up, todo, host, q, left, reach, nextHop, pair, broken>>
      /\ packet' = TakeDown /\ table' = WithEntries(Nothing)
      /\ RedistributeQp(WithEntries(Nothing))
  BY DEF Redo, Calculated, search
<1>2. nextHop \in Table
  BY DEF IInv, SearchInv
<1>3. table' = nextHop /\ table' \in Table /\ RedistributeQp(nextHop)
  BY <1>1, <1>2, EntriesAreHops
<1>4. SearchInv'
  BY <1>1 DEF IInv, SearchInv, Neighbours
<1>5. HopsInv'
  BY <1>1 DEF IInv, HopsInv, Leads
<1>6. TrafficInv'
  <2>1. /\ packet' \in [Flow -> Packet \cup {None}]
        /\ \A f \in Flow : packet'[f] # None =>
             packet'[f] = packet[f] /\ {packet[f].from, packet[f].next} \notin broken
    BY <1>1 DEF IInv, TrafficInv, TakeDown
  <2>2. \A f \in Flow : packet'[f] # None => Leads(packet'[f].from, packet'[f].next, packet'[f].to)
    BY <2>1 DEF IInv, TrafficInv, Leads
  <2>3. /\ nic' \in [Flow -> Node \cup {None}]
        /\ ~failed' => \A f \in Flow : nic'[f] # None => nic'[f] \in nextHop[Source[f]][Target[f]]
    <3>1. CASE failed' = TRUE /\ UNCHANGED nic
      BY <3>1 DEF IInv, TrafficInv
    <3>2. CASE nic' \in {n \in [Flow -> Node \cup {None}] : \A f \in Flow :
                           IF f \in {g \in Flow : nic[g] # None}
                           THEN n[f] \in nextHop[Source[f]][Target[f]] ELSE n[f] = None}
      BY <3>2
    <3>. QED BY <1>3, <3>1, <3>2 DEF RedistributeQp
  <2>4. ~failed' => OnRoutes'
    BY <1>1, <1>3, <2>2, <2>3 DEF OnRoutes, Leads
  <2>5. \A f \in Flow : packet'[f] # None =>
          /\ {packet'[f].from, packet'[f].next} \in up' \cup broken'
          /\ packet'[f].next \in Switch \cup {packet'[f].to}
    BY <1>1, <2>1 DEF IInv, TrafficInv
  <2>. QED BY <1>1, <1>3, <2>1, <2>3, <2>4, <2>5 DEF TrafficInv
<1>. QED BY <1>4, <1>5, <1>6 DEF IInv

-----------------------------------------------------------------------------
LEMMA NextInv == IInv /\ [Next]_vars => IInv'
<1>. SUFFICES ASSUME IInv, [Next]_vars PROVE IInv'
  OBVIOUS
<1>1. CASE Calculate
  BY <1>1, StartSearchInv, LookAtInv, NextNodeInv, EndSearchInv DEF Calculate
<1>2. CASE SetUp \/ Redo
  BY <1>2, SetUpInv, RedoInv
<1>3. ASSUME NEW f \in Flow, NewQp(f) \/ SendData(f) \/ Forward(f) \/ Deliver(f)
      PROVE  IInv'
  BY <1>3, NewQpInv, SendDataInv, ForwardInv, DeliverInv
<1>4. CASE \E link \in up : TakeDownLink(link)
  BY <1>4, TakeDownLinkInv
<1>5. CASE UNCHANGED vars
  <2>1. SearchInv' /\ HopsInv'
    BY <1>5, TrafficSearch DEF IInv, vars
  <2>2. TrafficInv'
    BY <1>5 DEF IInv, TrafficInv, OnRoutes, Leads, vars, search, traffic
  <2>. QED BY <2>1, <2>2 DEF IInv
<1>. QED BY <1>1, <1>2, <1>3, <1>4, <1>5 DEF Next

(* Whatever the network, and whichever links go down: while the program    *)
(* runs, every entry of a table leads one hop nearer over a link that is   *)
(* up, and packets and queue pairs are on such entries only.               *)
THEOREM RoutesLive == Spec => []OnlyLiveRoutes
<1>1. IInv => OnlyLiveRoutes
  <2>. SUFFICES ASSUME IInv, phase = "run" PROVE Nearer /\ (~failed => OnRoutes)
    BY DEF OnlyLiveRoutes
  <2>1. table = nextHop /\ todo = {}
    BY DEF IInv, TrafficInv
  <2>2. Nearer
    BY <2>1 DEF IInv, HopsInv, Nearer
  <2>. QED BY <2>2 DEF IInv, TrafficInv
<1>. QED BY <1>1, InitInv, NextInv, PTL DEF Spec

-----------------------------------------------------------------------------
(* Distances.  Within(h) is a recursive function: it exists, and goes on by *)
(* one link at a time.                                                     *)

Through(h) == Switch \cup {h}
Farther(h, S) == S \cup {x \in Node : Neighbours(x) \cap S \cap Through(h) # {}}
IsWithin(h, n, g) ==
  g = [k \in 0..n |-> IF k = 0 THEN {h} ELSE Farther(h, g[k - 1])]

LEMMA WithinExists ==
  ASSUME NEW h, NEW N \in Nat
  PROVE  \E g : IsWithin(h, N, g)
<1>. DEFINE S == {n \in Nat : \E g : IsWithin(h, n, g)}
<1>1. 0 \in S
  <2>. DEFINE z == [k \in 0..0 |-> {h}]
  <2>1. z = [k \in 0..0 |-> IF k = 0 THEN {h} ELSE Farther(h, z[k - 1])]
    OBVIOUS
  <2>. QED BY <2>1 DEF IsWithin
<1>2. ASSUME NEW n \in Nat, n \in S PROVE n + 1 \in S
  <2>1. PICK g : IsWithin(h, n, g)
    BY <1>2
  <2>. DEFINE e == [k \in 0..(n + 1) |-> IF k = n + 1 THEN Farther(h, g[n]) ELSE g[k]]
  <2>2. \A k \in 0..n : g[k] = IF k = 0 THEN {h} ELSE Farther(h, g[k - 1])
    BY <2>1 DEF IsWithin
  <2>3. \A k \in 0..(n + 1) : e[k] = IF k = 0 THEN {h} ELSE Farther(h, e[k - 1])
    <3>1. ASSUME NEW k \in 0..n PROVE e[k] = IF k = 0 THEN {h} ELSE Farther(h, e[k - 1])
      <4>1. e[k] = g[k]
        OBVIOUS
      <4>2. k # 0 => e[k - 1] = g[k - 1]
        OBVIOUS
      <4>. HIDE DEF e
      <4>. QED BY <2>2, <4>1, <4>2
    <3>2. e[n + 1] = Farther(h, g[n]) /\ e[(n + 1) - 1] = g[n]
      OBVIOUS
    <3>3. \A k \in 0..(n + 1) : k \in 0..n \/ k = n + 1
      OBVIOUS
    <3>. HIDE DEF e
    <3>. QED BY <3>1, <3>2, <3>3
  <2>4. IsWithin(h, n + 1, e)
    <3>1. e = [k \in 0..(n + 1) |-> e[k]]
      OBVIOUS
    <3>. HIDE DEF e
    <3>. QED BY <2>3, <3>1 DEF IsWithin
  <2>. QED BY <2>4
<1>3. Nat \subseteq S
  BY <1>1, <1>2, SetInduction
<1>. QED BY <1>3

LEMMA WithinSteps ==
  ASSUME NEW h
  PROVE  /\ Cardinality(Node) \in Nat
         /\ Within(h)[0] = {h}
         /\ \A k \in Nat : k + 1 <= Cardinality(Node) =>
              Within(h)[k + 1] = Farther(h, Within(h)[k])
<1>. DEFINE N == Cardinality(Node)
            W == Within(h)
<1>1. N \in Nat
  BY RouteNodes, FS_CardinalityType
<1>2. W = CHOOSE g : IsWithin(h, N, g)
  BY DEF Within, IsWithin, Farther, Through
<1>3. IsWithin(h, N, W)
  BY <1>1, <1>2, WithinExists
<1>. HIDE DEF W, N
<1>4. \A k \in 0..N : W[k] = IF k = 0 THEN {h} ELSE Farther(h, W[k - 1])
  BY <1>3 DEF IsWithin
<1>5. ASSUME NEW k \in Nat, k + 1 <= N PROVE W[k + 1] = Farther(h, W[k])
  <2>1. k + 1 \in 0..N /\ k + 1 # 0 /\ (k + 1) - 1 = k
    BY <1>1, <1>5
  <2>. QED BY <1>4, <2>1
<1>6. W[0] = {h}
  BY <1>1, <1>4
<1>. QED BY <1>1, <1>5, <1>6 DEF W, N

(* Figures that rise by one from a neighbour to the next and no faster over *)
(* any link are the distances. *)
Levels(h, R, d) ==
  /\ h \in R /\ R \subseteq Node /\ d \in [R -> Nat] /\ d[h] = 0
  /\ \A x \in R \ {h} : \E y \in R \cap Through(h) \cap Neighbours(x) : d[x] = d[y] + 1
  /\ \A y \in R \cap Through(h) : \A z \in Neighbours(y) : z \in R /\ d[z] <= d[y] + 1
  /\ \A x \in R : d[x] < Cardinality(Node)

LEMMA NeighboursBothWays ==
  ASSUME NEW x \in Node, NEW y \in Neighbours(x)
  PROVE  y \in Node /\ x \in Neighbours(y)
<1>1. {x, y} = {y, x}
  OBVIOUS
<1>. QED BY <1>1 DEF Neighbours

LEMMA WithinLevels ==
  ASSUME NEW h, NEW R, NEW d, Levels(h, R, d),
         NEW k \in Nat, k <= Cardinality(Node)
  PROVE  Within(h)[k] = {x \in R : d[x] <= k}
<1>. DEFINE N == Cardinality(Node)
            W == Within(h)
            S == {n \in Nat : n <= N => W[n] = {x \in R : d[x] <= n}}
<1>1. /\ h \in R /\ R \subseteq Node /\ d \in [R -> Nat] /\ d[h] = 0
      /\ \A x \in R \ {h} : \E y \in R \cap Through(h) \cap Neighbours(x) : d[x] = d[y] + 1
      /\ \A y \in R \cap Through(h) : \A z \in Neighbours(y) : z \in R /\ d[z] <= d[y] + 1
  BY DEF Levels
<1>2. N \in Nat /\ W[0] = {h} /\ \A n \in Nat : n + 1 <= N => W[n + 1] = Farther(h, W[n])
  BY WithinSteps
<1>. HIDE DEF W, N
<1>3. 0 \in S
  BY <1>1, <1>2
<1>4. ASSUME NEW n \in Nat, n \in S, n + 1 <= N
      PROVE  W[n + 1] = {x \in R : d[x] <= n + 1}
  <2>1. W[n] = {x \in R : d[x] <= n} /\ W[n + 1] = Farther(h, W[n])
    BY <1>2, <1>4
  <2>2. ASSUME NEW x \in W[n + 1] PROVE x \in R /\ d[x] <= n + 1
    <3>1. CASE x \in W[n]
      BY <1>1, <2>1, <3>1
    <3>2. CASE x \in Node /\ Neighbours(x) \cap W[n] \cap Through(h) # {}
      <4>1. PICK y \in Neighbours(x) : y \in R /\ d[y] <= n /\ y \in Through(h)
        BY <2>1, <3>2
      <4>2. x \in Neighbours(y)
        BY <3>2, NeighboursBothWays
      <4>3. x \in R /\ d[x] <= d[y] + 1
        BY <1>1, <4>1, <4>2
      <4>. QED BY <1>1, <4>1, <4>3
    <3>. QED BY <2>1, <2>2, <3>1, <3>2 DEF Farther
  <2>3. ASSUME NEW x \in R, d[x] <= n + 1 PROVE x \in W[n + 1]
    <3>1. CASE d[x] <= n
      BY <2>1, <3>1 DEF Farther
    <3>2. CASE ~(d[x] <= n)
      <4>1. d[x] = n + 1 /\ x # h
        BY <1>1, <2>3, <3>2
      <4>2. PICK y \in R \cap Through(h) \cap Neighbours(x) : d[x] = d[y] + 1
        BY <1>1, <4>1
      <4>3. d[y] <= n
        BY <1>1, <4>1, <4>2
      <4>4. y \in Neighbours(x) \cap W[n] \cap Through(h)
        BY <2>1, <4>2, <4>3
      <4>. QED BY <1>1, <2>1, <4>4 DEF Farther
    <3>. QED BY <3>1, <3>2
  <2>. QED BY <2>2, <2>3
<1>5. \A n \in Nat : n \in S => n + 1 \in S
  BY <1>4
<1>6. Nat \subseteq S
  <2>. HIDE DEF S
  <2>. QED BY <1>3, <1>5, SetInduction
<1>. QED BY <1>6 DEF W, N

LEMMA LevelsAreDistances ==
  ASSUME NEW h, NEW R, NEW d, Levels(h, R, d)
  PROVE  /\ \A x : Reaches(x, h) <=> x \in R
         /\ \A x \in R : Distance(x, h) = d[x]
<1>. DEFINE N == Cardinality(Node)
            W == Within(h)
<1>1. N \in Nat
  BY WithinSteps
<1>2. \A k \in 0..N : W[k] = {x \in R : d[x] <= k}
  BY <1>1, WithinLevels
<1>3. d \in [R -> Nat] /\ \A x \in R : d[x] < N
  BY DEF Levels
<1>4. \A x : Reaches(x, h) <=> x \in R
  <2>1. W[N] = {x \in R : d[x] <= N}
    BY <1>1, <1>2
  <2>2. \A x \in R : d[x] <= N
    BY <1>1, <1>3
  <2>. QED BY <2>1, <2>2 DEF Reaches
<1>5. ASSUME NEW x \in R PROVE Distance(x, h) = d[x]
  <2>. DEFINE P(k) == x \in W[k] /\ (k = 0 \/ x \notin W[k - 1])
  <2>1. d[x] \in 0..N
    BY <1>1, <1>3
  <2>2. \A k \in 0..N : P(k) <=> k = d[x]
    <3>1. ASSUME NEW k \in 0..N PROVE P(k) <=> k = d[x]
      <4>1. x \in W[k] <=> d[x] <= k
        BY <1>2
      <4>2. k # 0 => (x \in W[k - 1] <=> d[x] <= k - 1)
        <5>1. k # 0 => k - 1 \in 0..N
          BY <1>1
        <5>. QED BY <1>2, <5>1
      <4>. QED BY <1>3, <4>1, <4>2
    <3>. QED BY <3>1
  <2>. HIDE DEF P
  <2>3. (CHOOSE k \in 0..N : P(k)) = d[x]
    BY <2>1, <2>2
  <2>. QED BY <2>3 DEF Distance, P
<1>. QED BY <1>4, <1>5

-----------------------------------------------------------------------------
(* The search.  The nodes found so far are those with a next hop.          *)

Found(h) == {h} \cup {x \in Node : nextHop[x][h] # {}}
NodesFound ==
  /\ DOMAIN reach = Found(host) /\ reach[host].dis = 0
  /\ \A x \in DOMAIN reach : reach[x] \in Known /\ reach[x].dis < Cardinality(DOMAIN reach)

(* What is known of a node is known over one of its next hops.             *)
OnePath ==
  \A x \in DOMAIN reach \ {host} :
    \E y \in nextHop[x][host] : reach[x] = Beyond(reach[y], {x, y})

(* The queue goes from near to far, and nothing found is farther than one   *)
(* link beyond its head. *)
InOrder ==
  /\ \A i, j \in DOMAIN q : i <= j => reach[q[i]].dis <= reach[q[j]].dis
  /\ \A x \in DOMAIN reach : reach[x].dis <= reach[Head(q)].dis + 1

(* The search has come to z from y: z is known, at most one link farther,   *)
(* and has y for a next hop if it is. *)
Searched(y, z) ==
  IF y = Head(q) THEN z \notin left ELSE \A i \in DOMAIN q : q[i] # y
AllLooked ==
  \A y \in DOMAIN reach \cap Through(host) : \A z \in Neighbours(y) : Searched(y, z) =>
    /\ z \in DOMAIN reach /\ reach[z].dis <= reach[y].dis + 1
    /\ reach[z].dis = reach[y].dis + 1 => y \in nextHop[z][host]

SearchSound == q # <<>> => NodesFound /\ OnePath /\ InOrder /\ AllLooked

(* What a search leaves behind.                                            *)
Solved(h) ==
  /\ pair[h][h].dis = 0
  /\ \A x \in Node : nextHop[x][h] \subseteq Found(h)
  /\ \A x \in Found(h) : pair[x][h].dis < Cardinality(Node)
  /\ \A x \in Found(h) \ {h} :
       \E y \in nextHop[x][h] : pair[x][h] = Beyond(pair[y][h], {x, y})
  /\ \A y \in Found(h) \cap Through(h) : \A z \in Neighbours(y) :
       /\ z \in Found(h) /\ pair[z][h].dis <= pair[y][h].dis + 1
       /\ pair[z][h].dis = pair[y][h].dis + 1 => y \in nextHop[z][h]

RoutesSound == \A h \in Host \ todo : Solved(h)

(* The figures of links, nodes and packets.                                *)
FiguresInv ==
  /\ up \subseteq AllLinks /\ broken \subseteq AllLinks
  /\ host \in Host \cup {None} /\ maxRtt \in Nat /\ failed \in BOOLEAN
  /\ refused \in 0 .. MaxRefused
  /\ pair \in [Node -> [Host -> Known]] /\ \A x \in DOMAIN reach : reach[x] \in Known
  /\ \A f \in Flow : packet[f] # None => packet[f].to \in {Source[f], Target[f]}

BInv == IInv /\ FiguresInv /\ SearchSound /\ RoutesSound

(* A link farther, the figures are figures.                                *)
LEMMA BeyondKnown ==
  ASSUME NEW s \in Known, NEW link \in AllLinks
  PROVE  Beyond(s, link) \in Known /\ Beyond(s, link).dis = s.dis + 1
<1>1. Delay[link] \in Nat /\ Bandwidth[link] \in Nat /\ Bandwidth[link] > 0 /\ Payload \in Nat
  BY RouteNumbers
<1>2. Payload \div Bandwidth[link] \in Nat
  BY <1>1
<1>. DEFINE t == Payload \div Bandwidth[link]
<1>. HIDE DEF t
<1>. QED BY <1>1, <1>2 DEF Beyond, Known, t

LEMMA SolvedSame ==
  ASSUME NEW h \in Host, Solved(h), up' = up,
         \A x \in Node : nextHop'[x][h] = nextHop[x][h] /\ pair'[x][h] = pair[x][h]
  PROVE  Solved(h)'
<1>1. h \in Node
  BY DEF Node
<1>2. Found(h)' = Found(h) /\ Found(h) \subseteq Node
  BY <1>1 DEF Found
<1>3. \A x \in Node : Neighbours(x)' = Neighbours(x) /\ Neighbours(x) \subseteq Node
  BY DEF Neighbours
<1>4. \A x \in Found(h) : x \in Node
  BY <1>2
<1>5. /\ pair'[h][h].dis = 0
      /\ \A x \in Node : nextHop'[x][h] \subseteq Found(h)
      /\ \A x \in Found(h) : pair'[x][h].dis < Cardinality(Node)
  BY <1>1, <1>4 DEF Solved
<1>6. ASSUME NEW x \in Found(h) \ {h}
      PROVE  \E y \in nextHop'[x][h] : pair'[x][h] = Beyond(pair'[y][h], {x, y})
  <2>1. PICK y \in nextHop[x][h] : pair[x][h] = Beyond(pair[y][h], {x, y})
    BY DEF Solved
  <2>2. y \in Node /\ x \in Node
    BY <1>4 DEF Solved
  <2>. QED BY <2>1, <2>2
<1>7. ASSUME NEW y \in Found(h) \cap Through(h), NEW z \in Neighbours(y)
      PROVE  /\ z \in Found(h) /\ pair'[z][h].dis <= pair'[y][h].dis + 1
             /\ pair'[z][h].dis = pair'[y][h].dis + 1 => y \in nextHop'[z][h]
  <2>1. /\ z \in Found(h) /\ pair[z][h].dis <= pair[y][h].dis + 1
        /\ pair[z][h].dis = pair[y][h].dis + 1 => y \in nextHop[z][h]
    BY DEF Solved
  <2>2. y \in Node /\ z \in Node
    BY <1>4, <2>1
  <2>. QED BY <2>1, <2>2
<1>8. \A y \in Found(h) \cap Through(h) : \A z \in Neighbours(y)' :
        /\ z \in Found(h) /\ pair'[z][h].dis <= pair'[y][h].dis + 1
        /\ pair'[z][h].dis = pair'[y][h].dis + 1 => y \in nextHop'[z][h]
  BY <1>3, <1>4, <1>7
<1>. QED BY <1>2, <1>5, <1>6, <1>8 DEF Solved

LEMMA NodesFinite ==
  ASSUME NEW D, D \subseteq Node
  PROVE  IsFiniteSet(D) /\ Cardinality(D) \in Nat /\ Cardinality(D) <= Cardinality(Node)
<1>1. IsFiniteSet(Node)
  BY RouteNodes
<1>. QED BY <1>1, FS_Subset, FS_CardinalityType

LEMMA StartSearchSound ==
  ASSUME BInv, NEW h \in Host, StartSearch(h)
  PROVE  SearchSound' /\ RoutesSound'
<1>1. /\ q = <<>> /\ h \in todo /\ host' = h /\ q' = <<h>> /\ left' = Neighbours(h)
      /\ reach' = [x \in {h} |-> [dis |-> 0, delay |-> 0, txDelay |-> 0, bw |-> NoLimit]]
      /\ UNCHANGED <<todo, nextHop, pair, up>>
  BY DEF StartSearch
<1>2. \A x \in Node : nextHop[x][h] = {}
  BY <1>1 DEF BInv, IInv, HopsInv, SearchInv, Table
<1>3. NodesFound'
  <2>1. DOMAIN reach' = {h} /\ Found(host)' = {h}
    BY <1>1, <1>2 DEF Found
  <2>2. reach'[h] \in Known /\ reach'[h].dis = 0
    BY <1>1, RouteNumbers DEF Known
  <2>3. Cardinality({h}) = 1
    BY FS_Singleton
  <2>. QED BY <1>1, <2>1, <2>2, <2>3 DEF NodesFound
<1>4. OnePath'
  BY <1>1 DEF OnePath
<1>5. InOrder'
  BY <1>1, <1>3 DEF InOrder, NodesFound, Known
<1>6. AllLooked'
  BY <1>1 DEF AllLooked, Searched, Neighbours
<1>7. RoutesSound'
  BY <1>1, SolvedSame DEF BInv, RoutesSound
<1>. QED BY <1>3, <1>4, <1>5, <1>6, <1>7 DEF SearchSound

LEMMA NextNodeSound ==
  ASSUME BInv, NextNode
  PROVE  SearchSound' /\ RoutesSound'
<1>1. /\ q \in Seq(Switch \cup {host}) /\ q # <<>> /\ Len(q) > 1 /\ q' = Tail(q)
      /\ left = {} /\ left' = Neighbours(q[2])
      /\ UNCHANGED <<todo, host, reach, nextHop, pair, up>>
  BY DEF BInv, IInv, SearchInv, NextNode
<1>2. /\ Len(q') = Len(q) - 1 /\ DOMAIN q = 1..Len(q) /\ DOMAIN q' = 1..(Len(q) - 1)
      /\ Len(q) \in Nat /\ Head(q) = q[1]
      /\ \A i \in DOMAIN q' : i + 1 \in DOMAIN q /\ q'[i] = q[i + 1]
  BY <1>1, HeadTailProperties, LenProperties
<1>3. q' # <<>> /\ Head(q') = q[2] /\ 1 \in DOMAIN q /\ 2 \in DOMAIN q
  <2>1. 1 \in DOMAIN q' /\ 1 \in DOMAIN q /\ 2 \in DOMAIN q
    BY <1>1, <1>2
  <2>2. q'[1] = q[2]
    BY <1>2, <2>1
  <2>3. q' # <<>>
    BY <2>1
  <2>. QED BY <2>1, <2>2, <2>3
<1>4. NodesFound /\ OnePath /\ InOrder /\ AllLooked
  BY <1>1 DEF BInv, SearchSound
<1>5. NodesFound' /\ OnePath'
  BY <1>1, <1>4 DEF NodesFound, OnePath, Found
<1>6. InOrder'
  <2>1. \A i, j \in DOMAIN q' : i <= j => reach[q'[i]].dis <= reach[q'[j]].dis
    <3>1. ASSUME NEW i \in DOMAIN q', NEW j \in DOMAIN q', i <= j
          PROVE  reach[q'[i]].dis <= reach[q'[j]].dis
      <4>1. i + 1 \in DOMAIN q /\ j + 1 \in DOMAIN q /\ i + 1 <= j + 1
        BY <1>2, <3>1
      <4>. QED BY <1>2, <1>4, <4>1 DEF InOrder
    <3>. QED BY <3>1
  <2>2. reach[q[1]].dis <= reach[q[2]].dis
    BY <1>3, <1>4 DEF InOrder
  <2>3. q[1] \in DOMAIN reach /\ q[2] \in DOMAIN reach
    BY <1>3 DEF BInv, IInv, SearchInv
  <2>4. \A x \in DOMAIN reach : reach[x].dis \in Nat
    BY <1>4 DEF NodesFound, Known
  <2>5. \A x \in DOMAIN reach : reach[x].dis <= reach[q[2]].dis + 1
    <3>1. \A x \in DOMAIN reach : reach[x].dis <= reach[q[1]].dis + 1
      BY <1>2, <1>4 DEF InOrder
    <3>. QED BY <2>2, <2>3, <2>4, <3>1
  <2>. QED BY <1>1, <1>3, <2>1, <2>5 DEF InOrder
<1>7. AllLooked'
  <2>. SUFFICES ASSUME NEW y \in DOMAIN reach \cap Through(host), NEW z \in Neighbours(y),
                       Searched(y, z)'
       PROVE  Searched(y, z)
    BY <1>1, <1>4 DEF AllLooked, Through, Neighbours
  <2>1. y # q[2]
    BY <1>1, <1>3 DEF Searched
  <2>2. \A i \in DOMAIN q' : q'[i] # y
    BY <1>3, <2>1 DEF Searched
  <2>3. CASE y = Head(q)
    BY <1>1, <2>3 DEF Searched
  <2>4. CASE y # Head(q)
    <3>1. ASSUME NEW i \in DOMAIN q PROVE q[i] # y
      <4>1. CASE i = 1
        BY <1>2, <2>4, <4>1
      <4>2. CASE i # 1
        <5>1. i - 1 \in DOMAIN q' /\ (i - 1) + 1 = i
          BY <1>2, <4>2
        <5>. QED BY <1>2, <2>2, <5>1
      <4>. QED BY <4>1, <4>2
    <3>. QED BY <2>4, <3>1 DEF Searched
  <2>. QED BY <2>3, <2>4
<1>8. RoutesSound'
  BY <1>1, SolvedSame DEF BInv, RoutesSound
<1>. QED BY <1>5, <1>6, <1>7, <1>8 DEF SearchSound

(* What looking at a neighbour does.                                       *)
Looked(next) ==
  LET now == Head(q)
      new == next \notin DOMAIN reach
      r == IF new THEN Beyond(reach[now], {now, next}) ELSE reach[next]
  IN  /\ q # <<>> /\ now \in DOMAIN reach /\ now \in Through(host)
      /\ next \in Node /\ next # now /\ {now, next} \in AllLinks
      /\ host \in Host /\ host \in todo
      /\ DOMAIN reach' = DOMAIN reach \cup {next}
      /\ \A x \in DOMAIN reach : reach'[x] = reach[x]
      /\ reach'[next] = r
      /\ q' = IF new /\ next \in Switch THEN Append(q, next) ELSE q
      /\ q' # <<>> /\ Head(q') = now
      /\ \A x \in Node, h \in Host : nextHop'[x][h] =
           IF x = next /\ h = host /\ r.dis = reach[now].dis + 1
           THEN nextHop[x][h] \cup {now} ELSE nextHop[x][h]
      /\ left' = left \ {next} /\ UNCHANGED <<todo, host, pair, up>>

LEMMA LookedAt ==
  ASSUME BInv, NEW next \in left, LookAt(next)
  PROVE  Looked(next)
<1>. DEFINE now == Head(q)
            new == next \notin DOMAIN reach
            r == IF new THEN Beyond(reach[now], {now, next}) ELSE reach[next]
<1>1. q # <<>> /\ now \in Switch \cup {host} /\ now \in DOMAIN reach /\ now \in Node
  BY HeadTailProperties DEF BInv, IInv, SearchInv, Node
<1>2. next \in Node /\ next # now /\ {now, next} \in up
  BY <1>1 DEF BInv, IInv, SearchInv, Neighbours
<1>3. host \in todo /\ host \in Host
  BY <1>1 DEF BInv, IInv, SearchInv
<1>4. /\ reach' = [x \in DOMAIN reach \cup {next} |-> IF x = next THEN r ELSE reach[x]]
      /\ q' = IF new /\ next \in Switch THEN Append(q, next) ELSE q
      /\ nextHop' = IF reach[now].dis + 1 = r.dis
                    THEN [nextHop EXCEPT ![next][host] = @ \cup {now}] ELSE nextHop
      /\ left' = left \ {next}
      /\ UNCHANGED <<todo, host, pair, up>>
  BY DEF LookAt
<1>5. nextHop \in Table /\ up \subseteq AllLinks /\ q \in Seq(Switch \cup {host})
  BY DEF BInv, IInv, SearchInv, FiguresInv
<1>6. /\ DOMAIN reach' = DOMAIN reach \cup {next}
      /\ \A x \in DOMAIN reach : reach'[x] = reach[x]
      /\ reach'[next] = r
  BY <1>4
<1>. HIDE DEF r
<1>7. \A x \in Node, h \in Host : nextHop'[x][h] =
        IF x = next /\ h = host /\ r.dis = reach[now].dis + 1
        THEN nextHop[x][h] \cup {now} ELSE nextHop[x][h]
  BY <1>2, <1>3, <1>4, <1>5 DEF Table
<1>8. q' # <<>> /\ Head(q') = now
  <2>1. CASE new /\ next \in Switch
    BY <1>1, <1>4, <1>5, <2>1, AppendProperties
  <2>2. CASE ~(new /\ next \in Switch)
    BY <1>1, <1>4, <2>2
  <2>. QED BY <2>1, <2>2
<1>. QED BY <1>1, <1>2, <1>3, <1>4, <1>5, <1>6, <1>7, <1>8 DEF Looked, r, Through

LEMMA LookAtSound ==
  ASSUME BInv, NEW next \in left, LookAt(next)
  PROVE  SearchSound' /\ RoutesSound'
<1>. DEFINE now == Head(q)
            new == next \notin DOMAIN reach
            r == IF new THEN Beyond(reach[now], {now, next}) ELSE reach[next]
            D == DOMAIN reach
<1>1. /\ q # <<>> /\ now \in D /\ now \in Through(host)
      /\ next \in Node /\ next # now /\ {now, next} \in AllLinks
      /\ host \in Host /\ host \in todo
      /\ DOMAIN reach' = D \cup {next}
      /\ \A x \in D : reach'[x] = reach[x]
      /\ reach'[next] = r
      /\ q' = IF new /\ next \in Switch THEN Append(q, next) ELSE q
      /\ q' # <<>> /\ Head(q') = now
      /\ \A x \in Node, h \in Host : nextHop'[x][h] =
           IF x = next /\ h = host /\ r.dis = reach[now].dis + 1
           THEN nextHop[x][h] \cup {now} ELSE nextHop[x][h]
      /\ left' = left \ {next} /\ UNCHANGED <<todo, host, pair, up>>
  BY LookedAt DEF Looked
<1>2. /\ NodesFound /\ OnePath /\ InOrder /\ AllLooked /\ D \subseteq Node
      /\ q \in Seq(Switch \cup {host}) /\ \A i \in DOMAIN q : q[i] \in D
  BY <1>1 DEF BInv, SearchSound, IInv, SearchInv
<1>3. /\ new => r = Beyond(reach[now], {now, next}) /\ r.dis = reach[now].dis + 1
      /\ ~new => r = reach[next]
      /\ r \in Known /\ \A x \in D : reach[x] \in Known /\ reach[x].dis \in Nat
      /\ r.dis \in Nat /\ r.dis <= reach[now].dis + 1
  <2>1. \A x \in D : reach[x] \in Known /\ reach[x].dis \in Nat
    BY <1>2 DEF NodesFound, Known
  <2>2. CASE new
    <3>1. Beyond(reach[now], {now, next}) \in Known
          /\ Beyond(reach[now], {now, next}).dis = reach[now].dis + 1
      BY <1>1, <2>1, BeyondKnown
    <3>. QED BY <1>1, <2>1, <2>2, <3>1
  <2>3. CASE ~new
    BY <1>2, <2>1, <2>3 DEF InOrder
  <2>. QED BY <2>2, <2>3
<1>. HIDE DEF r
<1>4. \A x \in Node, h \in Host : nextHop[x][h] \subseteq nextHop'[x][h]
  BY <1>1
<1>5. NodesFound'
  <2>1. Found(host)' = Found(host) \cup {next}
    <3>1. \A x \in Node : x # next => nextHop'[x][host] = nextHop[x][host]
      BY <1>1
    <3>2. new => now \in nextHop'[next][host]
      BY <1>1, <1>3
    <3>3. ~new => next \in Found(host)
      BY <1>2 DEF NodesFound
    <3>4. ~new /\ next # host => nextHop'[next][host] # {}
      BY <1>1, <1>4, <3>3 DEF Found
    <3>. QED BY <1>1, <3>1, <3>2, <3>4 DEF Found
  <2>2. DOMAIN reach' = Found(host)'
    BY <1>1, <1>2, <2>1 DEF NodesFound
  <2>3. host \in D
    BY <1>2 DEF NodesFound, Found
  <2>4. /\ Cardinality(D) \in Nat
        /\ Cardinality(D \cup {next}) = IF new THEN Cardinality(D) + 1 ELSE Cardinality(D)
    BY <1>2, NodesFinite, FS_AddElement
  <2>5. \A x \in D : reach[x].dis < Cardinality(D)
    BY <1>2 DEF NodesFound
  <2>6. \A x \in D \cup {next} : reach'[x] \in Known /\ reach'[x].dis < Cardinality(D \cup {next})
    <3>1. ASSUME NEW x \in D PROVE reach'[x] \in Known /\ reach'[x].dis < Cardinality(D \cup {next})
      BY <1>1, <1>3, <2>4, <2>5
    <3>2. CASE new
      BY <1>1, <1>3, <2>4, <2>5, <3>1, <3>2
    <3>. QED BY <3>1, <3>2
  <2>. QED BY <1>1, <1>2, <2>2, <2>3, <2>6 DEF NodesFound
<1>6. OnePath'
  <2>. SUFFICES ASSUME NEW x \in (D \cup {next}) \ {host}
       PROVE  \E y \in nextHop'[x][host] : reach'[x] = Beyond(reach'[y], {x, y})
    BY <1>1 DEF OnePath
  <2>1. CASE x \in D
    <3>1. PICK y \in nextHop[x][host] : reach[x] = Beyond(reach[y], {x, y})
      BY <1>2, <2>1 DEF OnePath
    <3>2. y \in D
      BY <1>1, <1>2, <2>1 DEF BInv, IInv, HopsInv
    <3>3. y \in nextHop'[x][host]
      BY <1>1, <1>2, <1>4, <2>1
    <3>. QED BY <1>1, <2>1, <3>1, <3>2, <3>3
  <2>2. CASE x \notin D
    <3>1. x = next /\ new /\ {x, now} = {now, next}
      BY <2>2
    <3>2. now \in nextHop'[x][host]
      BY <1>1, <1>3, <3>1
    <3>3. reach'[x] = Beyond(reach'[now], {x, now})
      BY <1>1, <1>3, <3>1
    <3>. QED BY <3>2, <3>3
  <2>. QED BY <2>1, <2>2
<1>7. InOrder'
  <2>1. \A x \in D \cup {next} : reach'[x].dis <= reach'[now].dis + 1
    BY <1>1, <1>2, <1>3 DEF InOrder
  <2>2. CASE new /\ next \in Switch
    <3>. DEFINE n == Len(q)
    <3>1. /\ n \in Nat /\ DOMAIN q = 1..n /\ DOMAIN q' = 1..(n + 1)
          /\ (\A i \in 1..n : q'[i] = q[i]) /\ q'[n + 1] = next
      BY <1>1, <1>2, <2>2, AppendProperties, LenProperties
    <3>. HIDE DEF n
    <3>2. ASSUME NEW i \in DOMAIN q', NEW j \in DOMAIN q', i <= j
          PROVE  reach'[q'[i]].dis <= reach'[q'[j]].dis
      <4>1. CASE j \in 1..n
        <5>1. i \in 1..n
          BY <3>1, <3>2, <4>1
        <5>2. q'[i] = q[i] /\ q'[j] = q[j] /\ q[i] \in D /\ q[j] \in D
          BY <1>2, <3>1, <4>1, <5>1
        <5>3. reach[q[i]].dis <= reach[q[j]].dis
          BY <1>2, <3>1, <3>2, <4>1, <5>1 DEF InOrder
        <5>. QED BY <1>1, <5>2, <5>3
      <4>2. CASE j \notin 1..n
        <5>1. j = n + 1 /\ q'[j] = next
          BY <3>1, <4>2
        <5>2. reach'[next].dis = reach[now].dis + 1
          BY <1>1, <1>3, <2>2
        <5>3. i \in 1..n \/ i = n + 1
          BY <3>1
        <5>4. q'[i] \in D \/ q'[i] = next
          BY <1>2, <3>1, <5>3
        <5>5. reach'[q'[i]].dis <= reach'[now].dis + 1
          BY <2>1, <5>4
        <5>. QED BY <1>1, <5>1, <5>2, <5>5
      <4>. QED BY <4>1, <4>2
    <3>. QED BY <1>1, <2>1, <3>2 DEF InOrder
  <2>3. CASE ~(new /\ next \in Switch)
    <3>1. q' = q
      BY <1>1, <2>3
    <3>2. \A i, j \in DOMAIN q : i <= j => reach'[q[i]].dis <= reach'[q[j]].dis
      BY <1>1, <1>2 DEF InOrder
    <3>. QED BY <1>1, <2>1, <3>1, <3>2 DEF InOrder
  <2>. QED BY <2>2, <2>3
<1>8. AllLooked'
  <2>. SUFFICES ASSUME NEW y \in D \cup {next}, y \in Through(host), NEW z \in Neighbours(y),
                       Searched(y, z)'
       PROVE  /\ z \in D \cup {next} /\ reach'[z].dis <= reach'[y].dis + 1
              /\ reach'[z].dis = reach'[y].dis + 1 => y \in nextHop'[z][host]
    BY <1>1 DEF AllLooked, Through, Neighbours
  <2>1. ASSUME y \in D, Searched(y, z)
        PROVE  /\ z \in D \cup {next} /\ reach'[z].dis <= reach'[y].dis + 1
               /\ reach'[z].dis = reach'[y].dis + 1 => y \in nextHop'[z][host]
    <3>1. /\ z \in D /\ reach[z].dis <= reach[y].dis + 1
          /\ reach[z].dis = reach[y].dis + 1 => y \in nextHop[z][host]
      BY <1>2, <2>1 DEF AllLooked
    <3>. QED BY <1>1, <1>2, <1>4, <2>1, <3>1
  <2>2. CASE y = now /\ z = next
    BY <1>1, <1>3, <2>2
  <2>3. CASE y = now /\ z # next
    <3>1. z \notin left
      BY <1>1, <2>3 DEF Searched
    <3>. QED BY <1>1, <2>1, <2>3, <3>1 DEF Searched
  <2>4. CASE y # now
    <3>1. \A i \in DOMAIN q' : q'[i] # y
      BY <1>1, <2>4 DEF Searched
    <3>2. CASE new /\ next \in Switch
      <4>1. /\ Len(q) \in Nat /\ DOMAIN q = 1..Len(q) /\ DOMAIN q' = 1..(Len(q) + 1)
            /\ (\A i \in 1..Len(q) : q'[i] = q[i]) /\ q'[Len(q) + 1] = next
        BY <1>1, <1>2, <3>2, AppendProperties, LenProperties
      <4>2. y # next /\ \A i \in DOMAIN q : q[i] # y
        BY <3>1, <4>1
      <4>. QED BY <2>1, <2>4, <4>2 DEF Searched
    <3>3. CASE ~(new /\ next \in Switch)
      <4>1. y \in D
        BY <1>2, <3>3 DEF NodesFound, Found, Through
      <4>2. \A i \in DOMAIN q : q[i] # y
        BY <1>1, <3>1, <3>3
      <4>. QED BY <2>1, <2>4, <4>1, <4>2 DEF Searched
    <3>. QED BY <3>2, <3>3
  <2>. QED BY <2>2, <2>3, <2>4
<1>9. RoutesSound'
  <2>. SUFFICES ASSUME NEW h \in Host \ todo PROVE Solved(h)'
    BY <1>1 DEF RoutesSound
  <2>1. h # host /\ \A x \in Node : nextHop'[x][h] = nextHop[x][h] /\ pair'[x][h] = pair[x][h]
    BY <1>1
  <2>. QED BY <1>1, <2>1, SolvedSame DEF BInv, RoutesSound
<1>. QED BY <1>5, <1>6, <1>7, <1>8, <1>9 DEF SearchSound

LEMMA EndSearchSound ==
  ASSUME BInv, EndSearch
  PROVE  SearchSound' /\ RoutesSound'
<1>. DEFINE D == DOMAIN reach
<1>1. /\ left = {} /\ Len(q) = 1 /\ q' = <<>> /\ todo' = todo \ {host}
      /\ pair' = [x \in Node |-> [pair[x] EXCEPT ![host] = IF x \in D THEN reach[x] ELSE @]]
      /\ UNCHANGED <<host, reach, nextHop, up>>
  BY DEF EndSearch
<1>2. q # <<>>
  BY <1>1
<1>3. /\ NodesFound /\ OnePath /\ InOrder /\ AllLooked /\ D \subseteq Node
      /\ host \in todo /\ todo \subseteq Host
  BY <1>2 DEF BInv, SearchSound, IInv, SearchInv
<1>4. D = Found(host) /\ host \in Node /\ host \in Host /\ host \in D
  BY <1>3 DEF NodesFound, Found, Node
<1>5. /\ \A x \in D : pair'[x][host] = reach[x]
      /\ \A x \in Node, h \in Host \ {host} : pair'[x][h] = pair[x][h]
  <2>1. pair \in [Node -> [Host -> Known]]
    BY DEF BInv, FiguresInv
  <2>. QED BY <1>1, <1>3, <1>4, <2>1
<1>6. \A y, z : Searched(y, z)
  <2>1. Head(q) = q[1] /\ DOMAIN q = {1}
    <3>1. q \in Seq(Switch \cup {host})
      BY DEF BInv, IInv, SearchInv
    <3>. QED BY <1>1, <1>2, <3>1, LenProperties
  <2>. QED BY <1>1, <2>1 DEF Searched
<1>7. \A x \in Node : nextHop[x][host] \subseteq D
  BY <1>2, <1>4 DEF BInv, IInv, HopsInv
<1>8. ASSUME NEW h \in Host, h = host PROVE Solved(h)'
  <2>1. Found(h)' = D /\ \A x \in Node : Neighbours(x)' = Neighbours(x)
    BY <1>1, <1>4, <1>8 DEF Found, Neighbours
  <2>2. pair'[host][host].dis = 0
    BY <1>3, <1>4, <1>5 DEF NodesFound
  <2>3. \A x \in D : pair'[x][host].dis < Cardinality(Node)
    <3>1. /\ Cardinality(D) \in Nat /\ Cardinality(Node) \in Nat
          /\ Cardinality(D) <= Cardinality(Node)
      BY <1>3, NodesFinite
    <3>2. \A x \in D : reach[x].dis \in Nat /\ reach[x].dis < Cardinality(D)
      BY <1>3 DEF NodesFound, Known
    <3>. QED BY <1>5, <3>1, <3>2
  <2>4. \A x \in D \ {host} : \E y \in nextHop[x][host] : pair'[x][host] = Beyond(pair'[y][host], {x, y})
    <3>1. ASSUME NEW x \in D \ {host}
          PROVE  \E y \in nextHop[x][host] : pair'[x][host] = Beyond(pair'[y][host], {x, y})
      <4>1. PICK y \in nextHop[x][host] : reach[x] = Beyond(reach[y], {x, y})
        BY <1>3 DEF OnePath
      <4>2. y \in D
        BY <1>3, <1>7
      <4>. QED BY <1>5, <4>1, <4>2
    <3>. QED BY <3>1
  <2>5. \A y \in D \cap Through(host) : \A z \in Neighbours(y) :
          /\ z \in D /\ pair'[z][host].dis <= pair'[y][host].dis + 1
          /\ pair'[z][host].dis = pair'[y][host].dis + 1 => y \in nextHop[z][host]
    BY <1>3, <1>5, <1>6 DEF AllLooked
  <2>6. \A y \in D \cap Through(h) : \A z \in Neighbours(y)' :
          /\ z \in D /\ pair'[z][h].dis <= pair'[y][h].dis + 1
          /\ pair'[z][h].dis = pair'[y][h].dis + 1 => y \in nextHop'[z][h]
    BY <1>1, <1>3, <1>8, <2>1, <2>5
  <2>7. /\ pair'[h][h].dis = 0
        /\ \A x \in Node : nextHop'[x][h] \subseteq D
        /\ \A x \in D : pair'[x][h].dis < Cardinality(Node)
        /\ \A x \in D \ {h} : \E y \in nextHop'[x][h] : pair'[x][h] = Beyond(pair'[y][h], {x, y})
    <3>1. nextHop' = nextHop
      BY <1>1
    <3>. QED BY <1>7, <1>8, <2>2, <2>3, <2>4, <3>1, Zenon
  <2>. QED BY <2>1, <2>6, <2>7 DEF Solved
<1>9. ASSUME NEW h \in Host \ todo PROVE Solved(h)'
  <2>1. h # host
    BY <1>3
  <2>. QED BY <1>1, <1>5, <2>1, SolvedSame DEF BInv, RoutesSound
<1>10. RoutesSound'
  BY <1>1, <1>8, <1>9 DEF RoutesSound
<1>. QED BY <1>1, <1>10 DEF SearchSound

(* Steps of the traffic leave the routes alone.                            *)
LEMMA TrafficSound ==
  ASSUME BInv, UNCHANGED <<up, search>>
  PROVE  SearchSound' /\ RoutesSound'
<1>1. UNCHANGED <<todo, host, q, left, reach, nextHop, pair, up>>
  BY DEF search
<1>2. SearchSound'
  BY <1>1 DEF BInv, SearchSound, NodesFound, Found, OnePath, InOrder, AllLooked, Searched,
              Through, Neighbours
<1>3. RoutesSound'
  BY <1>1, SolvedSame DEF BInv, RoutesSound
<1>. QED BY <1>2, <1>3

LEMMA TakeDownLinkSound ==
  ASSUME BInv, NEW link \in up, TakeDownLink(link)
  PROVE  SearchSound' /\ RoutesSound'
<1>1. q' = <<>> /\ todo' = Host
  BY DEF TakeDownLink, BInv, IInv, SearchInv
<1>. QED BY <1>1 DEF SearchSound, RoutesSound

-----------------------------------------------------------------------------
(* The figures.                                                            *)

(* A finite set of numbers has a largest one.                              *)
LEMMA LargestNat ==
  ASSUME NEW T \in SUBSET Nat, IsFiniteSet(T), T # {}
  PROVE  \E m \in T : \A n \in T : n <= m
<1>. DEFINE Good(S) == S # {} => \E m \in S : \A n \in S : n <= m
            I == {n \in Nat : \A S \in SUBSET Nat :
                    IsFiniteSet(S) /\ Cardinality(S) = n => Good(S)}
<1>1. 0 \in I
  <2>1. ASSUME NEW S \in SUBSET Nat, IsFiniteSet(S), Cardinality(S) = 0 PROVE S = {}
    BY <2>1, FS_EmptySet
  <2>. QED BY <2>1
<1>2. ASSUME NEW k \in Nat, k \in I, NEW S \in SUBSET Nat, IsFiniteSet(S),
             Cardinality(S) = k + 1, NEW x \in S
      PROVE  \E m \in S : \A n \in S : n <= m
  <2>. DEFINE R == S \ {x}
  <2>1. IsFiniteSet(R) /\ Cardinality(R) = k
    <3>1. IsFiniteSet(R) /\ Cardinality(R) = Cardinality(S) - 1
      BY <1>2, FS_RemoveElement
    <3>. QED BY <1>2, <3>1
  <2>2. Good(R)
    BY <1>2, <2>1
  <2>3. CASE R = {}
    BY <2>3
  <2>4. ASSUME NEW m \in R, \A n \in R : n <= m PROVE \E l \in S : \A n \in S : n <= l
    <3>1. CASE x <= m
      BY <2>4, <3>1
    <3>2. CASE ~(x <= m)
      <4>1. \A n \in S : n <= x
        BY <2>4, <3>2
      <4>. QED BY <4>1
    <3>. QED BY <3>1, <3>2
  <2>. QED BY <2>2, <2>3, <2>4
<1>3. \A n \in Nat : n \in I => n + 1 \in I
  <2>. SUFFICES ASSUME NEW n \in Nat, n \in I PROVE n + 1 \in I
    OBVIOUS
  <2>1. ASSUME NEW S \in SUBSET Nat, IsFiniteSet(S), Cardinality(S) = n + 1 PROVE Good(S)
    <3>1. \A x \in S : \E m \in S : \A k \in S : k <= m
      BY <1>2, <2>1
    <3>. QED BY <3>1
  <2>. QED BY <2>1
<1>4. Nat \subseteq I
  <2>. HIDE DEF I
  <2>. QED BY <1>1, <1>3, SetInduction
<1>5. Cardinality(T) \in Nat
  BY FS_CardinalityType
<1>. QED BY <1>4, <1>5

LEMMA MaxRttTyped ==
  ASSUME pair \in [Node -> [Host -> Known]]
  PROVE  Largest({Rtt(i, j) : i, j \in Host}) \in Nat
<1>. DEFINE S == {Rtt(i, j) : i, j \in Host}
            P == Host \X Host
            f == [p \in P |-> Rtt(p[1], p[2])]
<1>1. \A i, j \in Host : Rtt(i, j) \in Nat
  <2>1. ASSUME NEW i \in Host, NEW j \in Host PROVE pair[i][j] \in Known
    BY DEF Node
  <2>2. ASSUME NEW k \in Known PROVE k.delay * 2 + k.txDelay \in Nat
    BY DEF Known
  <2>. QED BY <2>1, <2>2 DEF Rtt
<1>2. IsFiniteSet(P)
  <2>1. IsFiniteSet(Host)
    BY RouteNodes, NodesFinite DEF Node
  <2>. QED BY <2>1, FS_Product
<1>3. f \in Surjection(P, S)
  <2>1. f \in [P -> S]
    OBVIOUS
  <2>2. ASSUME NEW n \in S PROVE \E p \in P : f[p] = n
    <3>1. PICK i \in Host, j \in Host : n = Rtt(i, j)
      OBVIOUS
    <3>2. <<i, j>> \in P /\ f[<<i, j>>] = n
      BY <3>1
    <3>. QED BY <3>2
  <2>. HIDE DEF f, S, P
  <2>. QED BY <2>1, <2>2 DEF Surjection
<1>4. IsFiniteSet(S \cup {0}) /\ S \cup {0} \in SUBSET Nat
  <2>1. IsFiniteSet(S)
    <3>. HIDE DEF f, S, P
    <3>. QED BY <1>2, <1>3, FS_Surjection
  <2>2. S \subseteq Nat
    BY <1>1
  <2>. HIDE DEF S
  <2>. QED BY <2>1, <2>2, FS_AddElement
<1>. HIDE DEF S
<1>5. \E m \in S \cup {0} : \A n \in S \cup {0} : n <= m
  BY <1>4, LargestNat
<1>6. \E m \in S \cup {0} : \A n \in S : n <= m
  BY <1>5
<1>7. Largest(S) \in S \cup {0}
  BY <1>6 DEF Largest
<1>. QED BY <1>4, <1>7 DEF S

LEMMA InitSound == Init => BInv
<1>. SUFFICES ASSUME Init PROVE BInv
  OBVIOUS
<1>1. q = <<>> /\ todo = Host
  BY DEF Init
<1>2. SearchSound /\ RoutesSound
  BY <1>1 DEF SearchSound, RoutesSound
<1>3. up \subseteq AllLinks
  BY RouteNodes DEF Init
<1>4. pair \in [Node -> [Host -> Known]]
  BY DEF Init, Unknown, Known
<1>5. 0 \in 0 .. MaxRefused
  BY RouteNumbers
<1>6. FiguresInv
  BY <1>3, <1>4, <1>5 DEF FiguresInv, Init
<1>. QED BY <1>2, <1>6, InitInv DEF BInv

LEMMA CalculateFigures ==
  ASSUME BInv, Calculate
  PROVE  FiguresInv'
<1>1. UNCHANGED <<up, broken, maxRtt, packet, refused, failed>>
  BY DEF Calculate, StartSearch, LookAt, NextNode, EndSearch, traffic
<1>2. /\ host' \in Host \cup {None} /\ pair' \in [Node -> [Host -> Known]]
      /\ \A x \in DOMAIN reach' : reach'[x] \in Known
  <2>1. ASSUME NEW h \in Host, StartSearch(h)
        PROVE  /\ host' = h /\ pair' = pair /\ \A x \in DOMAIN reach' : reach'[x] \in Known
    BY <2>1, RouteNumbers DEF StartSearch, Known
  <2>2. ASSUME NEW next \in left, LookAt(next)
        PROVE  /\ host' = host /\ pair' = pair /\ \A x \in DOMAIN reach' : reach'[x] \in Known
    <3>. DEFINE now == Head(q)
    <3>1. /\ now \in DOMAIN reach /\ {now, next} \in AllLinks
          /\ DOMAIN reach' = DOMAIN reach \cup {next}
          /\ \A x \in DOMAIN reach : reach'[x] = reach[x]
          /\ reach'[next] = IF next \notin DOMAIN reach THEN Beyond(reach[now], {now, next})
                            ELSE reach[next]
      BY <2>2, LookedAt DEF Looked
    <3>2. \A x \in DOMAIN reach : reach[x] \in Known
      BY DEF BInv, FiguresInv
    <3>3. Beyond(reach[now], {now, next}) \in Known
      BY <3>1, <3>2, BeyondKnown
    <3>4. host' = host /\ pair' = pair
      BY <2>2 DEF LookAt
    <3>. QED BY <3>1, <3>2, <3>3, <3>4
  <2>3. CASE NextNode
    BY <2>3 DEF NextNode, BInv, FiguresInv
  <2>4. CASE EndSearch
    <3>1. pair \in [Node -> [Host -> Known]] /\ \A x \in DOMAIN reach : reach[x] \in Known
      BY DEF BInv, FiguresInv
    <3>2. pair' \in [Node -> [Host -> Known]]
      BY <2>4, <3>1 DEF EndSearch
    <3>. QED BY <2>4, <3>1, <3>2 DEF EndSearch, BInv, FiguresInv
  <2>. QED BY <2>1, <2>2, <2>3, <2>4 DEF Calculate, BInv, FiguresInv
<1>. QED BY <1>1, <1>2 DEF BInv, FiguresInv

(* A packet goes to one of the two hosts of its flow.                      *)
LEMMA SentFigures ==
  ASSUME BInv, NEW f \in Flow, UNCHANGED <<up, search, maxRtt, broken>>,
         failed' \in BOOLEAN, refused' \in 0 .. MaxRefused,
         \A g \in Flow \ {f} : packet'[g] = packet[g],
         packet'[f] # None => packet'[f].to \in {Source[f], Target[f]}
  PROVE  FiguresInv'
BY DEF BInv, FiguresInv, search

LEMMA FlowFigures ==
  ASSUME BInv, NEW f \in Flow, NewQp(f) \/ SendData(f) \/ Forward(f) \/ Deliver(f)
  PROVE  FiguresInv'
<1>1. packet \in [Flow -> Packet \cup {None}] /\ failed \in BOOLEAN
      /\ refused \in 0 .. MaxRefused
      /\ (packet[f] # None => packet[f].to \in {Source[f], Target[f]})
  BY DEF BInv, FiguresInv, IInv, TrafficInv
<1>2. UNCHANGED <<up, search, maxRtt, broken>>
  BY DEF NewQp, SendData, Forward, Deliver
<1>3. CASE NewQp(f)
  BY <1>1, <1>2, <1>3, SentFigures DEF NewQp
<1>4. CASE SendData(f)
  BY <1>1, <1>2, <1>4, SentFigures DEF SendData
<1>5. CASE Forward(f)
  <2>1. refused' \in 0 .. MaxRefused
    <3>1. refused' = refused \/ (refused < MaxRefused /\ refused' = refused + 1)
      BY <1>5 DEF Forward
    <3>. QED BY <1>1, <3>1, RouteNumbers
  <2>2. \A g \in Flow \ {f} : packet'[g] = packet[g]
    BY <1>1, <1>5 DEF Forward
  <2>3. packet'[f] # None => packet'[f].to \in {Source[f], Target[f]}
    BY <1>1, <1>5 DEF Forward
  <2>. QED BY <1>1, <1>2, <1>5, <2>1, <2>2, <2>3, SentFigures DEF Forward
<1>6. CASE Deliver(f)
  <2>1. failed' \in BOOLEAN
    <3>. DEFINE nics == table[packet[f].next][IF IsData(f, packet[f]) THEN Source[f] ELSE Target[f]]
    <3>1. failed' = (~IsData(f, packet[f]) /\ nics = {}) \/ failed' = TRUE \/ failed' = failed
      BY <1>6 DEF Deliver
    <3>. HIDE DEF nics
    <3>. QED BY <1>1, <3>1, Zenon
  <2>2. /\ \A g \in Flow \ {f} : packet'[g] = packet[g]
        /\ packet'[f] # None => packet'[f].to \in {Source[f], Target[f]}
    <3>1. \/ packet' = [packet EXCEPT ![f] = None]
          \/ packet' = packet
          \/ \E n : packet' = [packet EXCEPT ![f] =
                              [to |-> Source[f], from |-> packet[f].next, next |-> n]]
      BY <1>6 DEF Deliver
    <3>. QED BY <1>1, <3>1
  <2>. QED BY <1>1, <1>2, <1>6, <2>1, <2>2, SentFigures DEF Deliver
<1>. QED BY <1>3, <1>4, <1>5, <1>6

LEMMA NextFigures ==
  ASSUME BInv, [Next]_vars
  PROVE  FiguresInv'
<1>1. CASE Calculate
  BY <1>1, CalculateFigures
<1>2. CASE SetUp
  <2>1. maxRtt' \in Nat
    BY <1>2, MaxRttTyped DEF SetUp, BInv, FiguresInv
  <2>. QED BY <1>2, <2>1 DEF SetUp, BInv, FiguresInv, search, traffic
<1>3. CASE Redo
  <2>1. \A f \in Flow : packet'[f] # None => packet'[f] = packet[f]
    BY <1>3 DEF Redo, TakeDown
  <2>2. failed' \in BOOLEAN
    BY <1>3 DEF Redo, RedistributeQp, BInv, FiguresInv
  <2>. QED BY <1>3, <2>1, <2>2 DEF Redo, BInv, FiguresInv, search
<1>4. ASSUME NEW f \in Flow, NewQp(f) \/ SendData(f) \/ Forward(f) \/ Deliver(f)
      PROVE  FiguresInv'
  BY <1>4, FlowFigures
<1>5. ASSUME NEW link \in up, TakeDownLink(link) PROVE FiguresInv'
  BY <1>5 DEF TakeDownLink, BInv, FiguresInv, traffic
<1>6. CASE UNCHANGED vars
  BY <1>6 DEF BInv, FiguresInv, vars, search, traffic
<1>. QED BY <1>1, <1>2, <1>3, <1>4, <1>5, <1>6 DEF Next

LEMMA NextSound == BInv /\ [Next]_vars => BInv'
<1>. SUFFICES ASSUME BInv, [Next]_vars PROVE BInv'
  OBVIOUS
<1>1. IInv'
  BY NextInv DEF BInv
<1>2. FiguresInv'
  BY NextFigures
<1>3. SearchSound' /\ RoutesSound'
  <2>1. CASE Calculate
    BY <2>1, StartSearchSound, LookAtSound, NextNodeSound, EndSearchSound DEF Calculate
  <2>2. CASE SetUp \/ Redo
    BY <2>2, TrafficSound DEF SetUp, Redo
  <2>3. ASSUME NEW f \in Flow, NewQp(f) \/ SendData(f) \/ Forward(f) \/ Deliver(f)
        PROVE  UNCHANGED <<up, search>>
    BY <2>3 DEF NewQp, SendData, Forward, Deliver
  <2>4. CASE \E link \in up : TakeDownLink(link)
    BY <2>4, TakeDownLinkSound
  <2>5. CASE UNCHANGED vars
    BY <2>5, TrafficSound DEF vars
  <2>. QED BY <2>1, <2>2, <2>3, <2>4, <2>5, TrafficSound DEF Next
<1>. QED BY <1>1, <1>2, <1>3 DEF BInv

-----------------------------------------------------------------------------
(* What a search leaves behind are distances, and the hops of shortest     *)
(* paths.                                                                  *)

LEMMA HopsLead ==
  ASSUME BInv, NEW h \in Host \ todo, NEW x \in Node, NEW y \in nextHop[x][h]
  PROVE  /\ x \in Found(h) \ {h} /\ y \in Found(h) \cap Through(h) \cap Neighbours(x)
         /\ pair[x][h].dis = pair[y][h].dis + 1
<1>1. Solved(h) /\ h \in Node
  BY DEF BInv, RoutesSound, Node
<1>2. y \in Found(h) /\ Found(h) \subseteq Node
  BY <1>1 DEF Solved, Found
<1>3. Leads(x, y, h) /\ pair[x][h].dis = pair[y][h].dis + 1
  BY DEF BInv, IInv, HopsInv
<1>4. pair[x][h].dis \in Nat /\ pair[y][h].dis \in Nat
  BY <1>2 DEF BInv, FiguresInv, Known
<1>5. x # y /\ x # h
  <2>1. pair[h][h].dis = 0
    BY <1>1 DEF Solved
  <2>. QED BY <1>3, <1>4, <2>1
<1>6. y \in Through(h) \cap Neighbours(x)
  BY <1>2, <1>3, <1>5 DEF Leads, Through, Neighbours
<1>7. x \in Found(h)
  BY DEF Found
<1>. QED BY <1>2, <1>3, <1>5, <1>6, <1>7

LEMMA SolvedDistances ==
  ASSUME BInv, NEW h \in Host \ todo
  PROVE  /\ \A x : Reaches(x, h) <=> x \in Found(h)
         /\ \A x \in Found(h) : Distance(x, h) = pair[x][h].dis
<1>. DEFINE R == Found(h)
            d == [x \in R |-> pair[x][h].dis]
<1>1. Solved(h) /\ h \in R /\ R \subseteq Node
  BY DEF BInv, RoutesSound, Found, Node
<1>2. d \in [R -> Nat]
  BY <1>1 DEF BInv, FiguresInv, Known
<1>3. \A x \in R \ {h} : \E y \in R \cap Through(h) \cap Neighbours(x) : d[x] = d[y] + 1
  <2>1. ASSUME NEW x \in R \ {h}
        PROVE  \E y \in R \cap Through(h) \cap Neighbours(x) : d[x] = d[y] + 1
    <3>1. PICK y \in nextHop[x][h] : TRUE
      BY <1>1 DEF Solved
    <3>2. y \in R \cap Through(h) \cap Neighbours(x) /\ pair[x][h].dis = pair[y][h].dis + 1
      BY <1>1, HopsLead
    <3>. QED BY <3>2
  <2>. QED BY <2>1
<1>4. \A y \in R \cap Through(h) : \A z \in Neighbours(y) : z \in R /\ d[z] <= d[y] + 1
  BY <1>1 DEF Solved
<1>5. d[h] = 0 /\ \A x \in R : d[x] < Cardinality(Node)
  BY <1>1 DEF Solved
<1>6. \A x \in R : d[x] = pair[x][h].dis
  OBVIOUS
<1>. HIDE DEF R, d
<1>7. Levels(h, R, d)
  BY <1>1, <1>2, <1>3, <1>4, <1>5 DEF Levels
<1>8. (\A x : Reaches(x, h) <=> x \in R) /\ \A x \in R : Distance(x, h) = d[x]
  BY <1>7, LevelsAreDistances
<1>. QED BY <1>6, <1>8 DEF R

LEMMA HopsShortest ==
  ASSUME BInv, NEW h \in Host \ todo, NEW x \in Node
  PROVE  nextHop[x][h] =
           {y \in Neighbours(x) \cap (Switch \cup {h}) :
              x # h /\ Reaches(y, h) /\ Reaches(x, h) /\ Distance(x, h) = Distance(y, h) + 1}
<1>1. /\ \A y : Reaches(y, h) <=> y \in Found(h)
      /\ \A y \in Found(h) : Distance(y, h) = pair[y][h].dis
  BY SolvedDistances
<1>2. ASSUME NEW y \in nextHop[x][h]
      PROVE  /\ y \in Neighbours(x) \cap (Switch \cup {h}) /\ x # h /\ Reaches(y, h)
             /\ Reaches(x, h) /\ Distance(x, h) = Distance(y, h) + 1
  <2>1. /\ x \in Found(h) \ {h} /\ y \in Found(h) \cap Through(h) \cap Neighbours(x)
        /\ pair[x][h].dis = pair[y][h].dis + 1
    BY HopsLead
  <2>. QED BY <1>1, <2>1 DEF Through
<1>3. ASSUME NEW y \in Neighbours(x) \cap Through(h), y \in Found(h), x \in Found(h),
             Distance(x, h) = Distance(y, h) + 1
      PROVE  y \in nextHop[x][h]
  <2>1. x \in Neighbours(y)
    BY NeighboursBothWays
  <2>2. pair[x][h].dis = pair[y][h].dis + 1
    BY <1>1, <1>3
  <2>3. Solved(h)
    BY DEF BInv, RoutesSound
  <2>. QED BY <1>3, <2>1, <2>2, <2>3 DEF Solved
<1>4. nextHop[x][h] \subseteq Neighbours(x) \cap (Switch \cup {h})
  BY <1>2
<1>. QED BY <1>1, <1>2, <1>3, <1>4 DEF Through

(* The types of the variables, for any network and any number of links     *)
(* taken down.                                                             *)
THEOREM RoutesTyped == Spec => []TypeOK
<1>1. BInv => TypeOK
  <2>. SUFFICES ASSUME BInv PROVE TypeOK
    OBVIOUS
  <2>1. q \in Seq(Node)
    <3>1. CASE q = <<>>
      BY <3>1
    <3>2. CASE q # <<>>
      <4>1. Switch \cup {host} \subseteq Node /\ q \in Seq(Switch \cup {host})
        BY <3>2 DEF BInv, IInv, SearchInv, Node
      <4>. QED BY <4>1
    <3>. QED BY <3>1, <3>2
  <2>2. \A f \in Flow : packet[f] # None =>
          /\ packet[f].to \in {Source[f], Target[f]}
          /\ packet[f].from \in Node /\ packet[f].next \in Node
    BY DEF BInv, FiguresInv, IInv, TrafficInv, Packet
  <2>. QED BY <2>1, <2>2 DEF TypeOK, BInv, FiguresInv, IInv, SearchInv, TrafficInv, Table
<1>. QED BY <1>1, InitSound, NextSound, PTL DEF Spec

(* Whatever the network, and after any links that went down: the tables    *)
(* have the next hops of shortest paths and no other, and the figures of a *)
(* pair are those of one of these paths.                                   *)
THEOREM RoutesShortest == Spec => []ShortestRoutes
<1>1. BInv => ShortestRoutes
  <2>. SUFFICES ASSUME BInv, phase = "run" PROVE NextHopsShortest /\ PairsOfOnePath
    BY DEF ShortestRoutes
  <2>1. table = nextHop /\ todo = {}
    BY DEF BInv, IInv, TrafficInv
  <2>2. NextHopsShortest
    BY <2>1, HopsShortest DEF NextHopsShortest
  <2>3. PairsOfOnePath
    <3>1. ASSUME NEW x \in Node, NEW h \in Host, x # h, Reaches(x, h)
          PROVE  \E y \in nextHop[x][h] : pair[x][h] = Beyond(pair[y][h], {x, y})
      <4>1. x \in Found(h) /\ Solved(h)
        BY <2>1, <3>1, SolvedDistances DEF BInv, RoutesSound
      <4>. QED BY <3>1, <4>1 DEF Solved
    <3>. QED BY <2>1, <3>1 DEF PairsOfOnePath
  <2>. QED BY <2>2, <2>3
<1>. QED BY <1>1, InitSound, NextSound, PTL DEF Spec

-----------------------------------------------------------------------------
(* Where a table has no entry there is no way.                             *)
LEMMA NoEntryNoWay ==
  ASSUME BInv, todo = {}, NEW x \in Node, NEW h \in Host, x # h, nextHop[x][h] = {}
  PROVE  ~Reaches(x, h)
<1>1. x \notin Found(h)
  BY DEF Found
<1>. QED BY <1>1, SolvedDistances

LEMMA NoNicCutOff ==
  ASSUME BInv, todo = {}, NEW f \in Flow,
         nextHop[Source[f]][Target[f]] = {} \/ nextHop[Target[f]][Source[f]] = {}
  PROVE  CutOff(f)
<1>1. Source[f] \in Host /\ Target[f] \in Host /\ Source[f] # Target[f]
  BY RouteNodes
<1>. QED BY <1>1, NoEntryNoWay DEF CutOff, Node

LEMMA DeliverReason ==
  ASSUME BInv, NEW f \in Flow, Deliver(f)
  PROVE  HadAReason
<1>. DEFINE p == packet[f]
            nics == table[p.next][IF IsData(f, p) THEN Source[f] ELSE Target[f]]
<1>1. /\ phase = "run" /\ ~failed /\ p # None /\ p.next \in Host /\ OnRoutes
      /\ table = nextHop /\ todo = {} /\ p.to \in {Source[f], Target[f]}
  BY DEF Deliver, BInv, FiguresInv, IInv, TrafficInv
<1>2. p.next = p.to
  <2>1. p.next \in Switch \cup {p.to}
    BY <1>1 DEF OnRoutes, Leads
  <2>. QED BY <1>1, <2>1, RouteNodes
<1>3. \A g \in Flow \ {f} : packet'[g] = packet[g]
  BY DEF Deliver, BInv, IInv, TrafficInv
<1>4. failed' => nics = {}
  BY <1>1 DEF Deliver
<1>5. failed' => CutOff(f)
  <2>1. failed' => nextHop[p.next][IF IsData(f, p) THEN Source[f] ELSE Target[f]] = {}
    BY <1>1, <1>4
  <2>. QED BY <1>1, <1>2, <2>1, NoNicCutOff DEF IsData
<1>. QED BY <1>2, <1>3, <1>5 DEF HadAReason

LEMMA ForwardReason ==
  ASSUME BInv, NEW f \in Flow, Forward(f)
  PROVE  HadAReason
<1>. DEFINE p == packet[f]
<1>1. /\ phase = "run" /\ p # None /\ p.next \in Switch /\ UNCHANGED failed
      /\ table = nextHop /\ todo = {} /\ p \in Packet
  BY DEF Forward, BInv, IInv, TrafficInv
<1>2. \A g \in Flow \ {f} : packet'[g] = packet[g]
  BY DEF Forward, BInv, IInv, TrafficInv
<1>. DEFINE refuse == refused' > refused /\ ~HighPriority(f, p)
<1>3. packet'[f] = None => nextHop[p.next][p.to] = {} \/ refuse
  <2>1. CASE table[p.next][p.to] = {}
    BY <1>1, <2>1
  <2>3. CASE ~HighPriority(f, p) /\ refused' = refused + 1
    <3>1. refused \in Int
      BY RouteNumbers DEF BInv, FiguresInv
    <3>2. refused + 1 > refused
      BY <3>1
    <3>. QED BY <2>3, <3>2
  <2>2. ASSUME NEW n \in table[p.next][p.to],
               packet' = [packet EXCEPT ![f] = [to |-> p.to, from |-> p.next, next |-> n]]
        PROVE  packet'[f] # None
    <3>1. packet'[f] = [to |-> p.to, from |-> p.next, next |-> n]
      BY <2>2 DEF BInv, IInv, TrafficInv
    <3>2. p.to \in Host /\ p.next \in Node /\ n \in Node
      BY <1>1 DEF Packet, BInv, IInv, TrafficInv, Table
    <3>3. packet'[f] \in Packet
      BY <3>1, <3>2 DEF Packet
    <3>. QED BY <3>3, RouteNodes DEF Packet
  <2>. QED BY <2>1, <2>2, <2>3 DEF Forward
<1>4. p.next \in Node /\ p.to \in Host /\ p.next # p.to
  BY <1>1, RouteNodes DEF Packet
<1>5. packet'[f] = None => ~Reaches(p.next, p.to) \/ refuse
  BY <1>1, <1>3, <1>4, NoEntryNoWay
<1>. QED BY <1>1, <1>2, <1>5 DEF HadAReason

LEMMA RedoReason ==
  ASSUME BInv, Redo
  PROVE  HadAReason
<1>1. /\ todo = {} /\ packet' = TakeDown /\ RedistributeQp(WithEntries(Nothing))
      /\ nextHop \in Table
  BY DEF Redo, Calculated, BInv, IInv, SearchInv
<1>2. \A f \in Flow : packet[f] # None /\ packet'[f] = None =>
        {packet[f].from, packet[f].next} \in broken
  BY <1>1 DEF TakeDown
<1>3. RedistributeQp(nextHop)
  BY <1>1, EntriesAreHops
<1>4. ~failed /\ failed' => \E f \in Flow : nextHop[Source[f]][Target[f]] = {}
  BY <1>3 DEF RedistributeQp
<1>. QED BY <1>1, <1>2, <1>4, NoNicCutOff DEF HadAReason

(* No packet is lost without a reason, and no host is without a NIC unless *)
(* it is cut off, however many links go down.                              *)
THEOREM LossHasReason == Spec => LostForAReason
<1>1. BInv /\ [Next]_vars => [HadAReason]_vars
  <2>. SUFFICES ASSUME BInv, Next PROVE HadAReason
    BY DEF HadAReason
  <2>1. CASE Calculate \/ SetUp \/ (\E link \in up : TakeDownLink(link))
    <3>1. UNCHANGED <<packet, failed>>
      <4>1. CASE Calculate
        BY <4>1 DEF Calculate, StartSearch, LookAt, NextNode, EndSearch, traffic
      <4>2. CASE SetUp
        BY <4>2 DEF SetUp, traffic
      <4>3. CASE \E link \in up : TakeDownLink(link)
        BY <4>3 DEF TakeDownLink, traffic
      <4>. QED BY <2>1, <4>1, <4>2, <4>3
    <3>. QED BY <3>1 DEF HadAReason
  <2>2. CASE Redo
    BY <2>2, RedoReason
  <2>3. ASSUME NEW f \in Flow, NewQp(f) PROVE HadAReason
    <3>1. packet' = packet /\ table = nextHop /\ todo = {}
      BY <2>3 DEF NewQp, BInv, IInv, TrafficInv
    <3>2. ~failed /\ failed' => nextHop[Source[f]][Target[f]] = {}
      BY <2>3, <3>1 DEF NewQp
    <3>. QED BY <3>1, <3>2, NoNicCutOff DEF HadAReason
  <2>4. ASSUME NEW f \in Flow, SendData(f) PROVE HadAReason
    <3>1. packet[f] = None /\ \A g \in Flow \ {f} : packet'[g] = packet[g]
      BY <2>4 DEF SendData, BInv, IInv, TrafficInv
    <3>. QED BY <2>4, <3>1 DEF HadAReason, SendData
  <2>. QED BY <2>1, <2>2, <2>3, <2>4, ForwardReason, DeliverReason DEF Next
<1>. QED BY <1>1, InitSound, NextSound, PTL DEF Spec, LostForAReason

=============================================================================
