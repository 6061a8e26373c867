------------------------------- MODULE Routing -------------------------------
(***************************************************************************)
(* Routes of the simulated network (scratch/third.cc): a breadth-first     *)
(* search from every host, which also takes the delay and the bandwidth of *)
(* a path; the tables of switches and hosts; a link taken down while       *)
(* packets are under way, and new routes for all.  A link is the set of    *)
(* its ends.  Neighbours are looked at in the order of their addresses in  *)
(* memory, which is left open, as is what a hash makes of a flow.  A flow  *)
(* has one packet, or the ACK for it, on the way.                          *)
(***************************************************************************)
EXTENDS Naturals, Sequences, FiniteSets

CONSTANTS
  Host, Switch,      \* nodes of type 0 and 1, by their numbers
  Networks,          \* the sets of links of the networks looked at
  Delay, Bandwidth,  \* of each link
  Payload,           \* packet_payload_size, times 8 * 10^9
  NoLimit,           \* 0xfffffffffffffffflu, the bandwidth to oneself
  Flow, Source, Target,  \* Source[f], Target[f]: the hosts of f
  None,
  AckHighPrio,       \* m_ackHighPrio: ACKs are of queue 0
  MaxDown,           \* bound: links taken down (the script takes one)
  MaxRefused         \* bound: packets a full buffer makes a switch drop

Node == Host \cup Switch
AllLinks == {{x, y} : x, y \in Node} \ {{x} : x \in Node}

ASSUME RouteNodes ==
  /\ Node \subseteq Nat /\ IsFiniteSet(Node) /\ Host \cap Switch = {}
  /\ None \notin Node \cup [to : Host, from : Node, next : Node]
  /\ Networks \subseteq SUBSET AllLinks
  /\ Source \in [Flow -> Host] /\ Target \in [Flow -> Host]
  /\ \A f \in Flow : Source[f] # Target[f]
ASSUME RouteNumbers ==
  /\ Delay \in [AllLinks -> Nat] /\ Bandwidth \in [AllLinks -> Nat \ {0}]
  /\ Payload \in Nat /\ NoLimit \in Nat /\ MaxDown \in Nat
  /\ AckHighPrio \in BOOLEAN /\ MaxRefused \in Nat
  /\ \A l \in AllLinks : Bandwidth[l] <= NoLimit

VARIABLES
  up,       \* nbr2if[x][y].up
  phase,    \* "start" and "redo": routes are calculated; "run"
  todo,     \* hosts CalculateRoutes has not come to
  host,     \* the host CalculateRoute searches from
  q,        \* nodes of q from now on
  left,     \* neighbours of now not looked at yet
  reach,    \* dis, delay, txDelay, bw of the nodes found
  nextHop,  \* nextHop[x][h]: where x may send what is for h
  pair,     \* pairDelay, pairTxDelay, pairBw, and dis, by node and host
  maxRtt,
  table,    \* m_rtTable[x][h], the interface named by where it leads
  broken,   \* links taken down
  nic,      \* nic[f]: the interface that has the queue pair of f
  packet,   \* packet[f]: a packet of f, data or ACK, on the way
  refused,  \* how many packets CheckIngressAdmission has refused
  failed    \* an assertion of RdmaHw failed

search == <<todo, host, q, left, reach, nextHop, pair>>
traffic == <<nic, packet, refused, failed>>
vars == <<up, phase, search, maxRtt, table, broken, traffic>>

Neighbours(x) == {y \in Node : {x, y} \in up /\ x # y}
Nothing == [x \in Node |-> [h \in Host |-> {}]]
Unknown == [dis |-> 0, delay |-> 0, txDelay |-> 0, bw |-> 0]

Init ==
  /\ up \in Networks /\ phase = "start"
  /\ todo = Host /\ host = None /\ q = <<>> /\ left = {} /\ reach = [x \in {} |-> Unknown]
  /\ nextHop = Nothing /\ pair = [x \in Node |-> [h \in Host |-> Unknown]]
  /\ maxRtt = 0 /\ table = Nothing /\ broken = {}
  /\ nic = [f \in Flow |-> None] /\ packet = [f \in Flow |-> None]
  /\ refused = 0 /\ failed = FALSE

-----------------------------------------------------------------------------
(* Mutant: the bandwidth to oneself is -1. *)
Mut_StartSearch(h) ==
  /\ phase # "run" /\ q = <<>> /\ h \in todo /\ \A i \in todo : h <= i
  /\ host' = h /\ q' = <<h>> /\ left' = Neighbours(h)
  /\ reach' = [x \in {h} |-> [dis |-> 0, delay |-> 0, txDelay |-> 0, bw |-> 0 - 1]]
  /\ UNCHANGED <<todo, nextHop, pair, up, phase, maxRtt, table, broken, traffic>>

(* CalculateRoutes goes by the numbers of the hosts.                       *)
StartSearch(h) ==
  /\ phase # "run" /\ q = <<>> /\ h \in todo /\ \A i \in todo : h <= i
  /\ host' = h /\ q' = <<h>> /\ left' = Neighbours(h)
  /\ reach' = [x \in {h} |-> [dis |-> 0, delay |-> 0, txDelay |-> 0, bw |-> NoLimit]]
  /\ UNCHANGED <<todo, nextHop, pair, up, phase, maxRtt, table, broken, traffic>>

Beyond(r, link) ==
  [dis     |-> r.dis + 1,
   delay   |-> r.delay + Delay[link],
   txDelay |-> r.txDelay + Payload \div Bandwidth[link],
   bw      |-> IF r.bw <= Bandwidth[link] THEN r.bw ELSE Bandwidth[link]]

(* Mutants: the least delay of all shortest paths is kept; a neighbour     *)
(* that is as near as now may send over it.                                *)
MutLeast_LookAt(next) ==
  /\ phase # "run" /\ next \in left
  /\ LET now == Head(q)
         new == next \notin DOMAIN reach
         b == Beyond(reach[now], {now, next})
         r == IF new THEN b ELSE IF reach[next].dis = b.dis /\ b.delay < reach[next].delay
              THEN [reach[next] EXCEPT !.delay = b.delay] ELSE reach[next]
     IN  /\ reach' = [x \in DOMAIN reach \cup {next} |-> IF x = next THEN r ELSE reach[x]]
         /\ q' = IF new /\ next \in Switch THEN Append(q, next) ELSE q
         /\ nextHop' = IF reach[now].dis + 1 = r.dis
                       THEN [nextHop EXCEPT ![next][host] = @ \cup {now}] ELSE nextHop
  /\ left' = left \ {next}
  /\ UNCHANGED <<todo, host, pair, up, phase, maxRtt, table, broken, traffic>>
MutTie_LookAt(next) ==
  /\ phase # "run" /\ next \in left
  /\ LET now == Head(q)
         new == next \notin DOMAIN reach
         r == IF new THEN Beyond(reach[now], {now, next}) ELSE reach[next]
     IN  /\ reach' = [x \in DOMAIN reach \cup {next} |-> IF x = next THEN r ELSE reach[x]]
         /\ q' = IF new /\ next \in Switch THEN Append(q, next) ELSE q
         /\ nextHop' = IF reach[now].dis <= r.dis
                       THEN [nextHop EXCEPT ![next][host] = @ \cup {now}] ELSE nextHop
  /\ left' = left \ {next}
  /\ UNCHANGED <<todo, host, pair, up, phase, maxRtt, table, broken, traffic>>

(* The loop over the neighbours of now: a host is found, but not searched  *)
(* from; any neighbour that is one farther may send over now.              *)
LookAt(next) ==
  /\ phase # "run" /\ next \in left
  /\ LET now == Head(q)
         new == next \notin DOMAIN reach
         r == IF new THEN Beyond(reach[now], {now, next}) ELSE reach[next]
     IN  /\ reach' = [x \in DOMAIN reach \cup {next} |-> IF x = next THEN r ELSE reach[x]]
         /\ q' = IF new /\ next \in Switch THEN Append(q, next) ELSE q
         /\ nextHop' = IF reach[now].dis + 1 = r.dis
                       THEN [nextHop EXCEPT ![next][host] = @ \cup {now}] ELSE nextHop
  /\ left' = left \ {next}
  /\ UNCHANGED <<todo, host, pair, up, phase, maxRtt, table, broken, traffic>>

NextNode ==
  /\ phase # "run" /\ q # <<>> /\ left = {} /\ Len(q) > 1
  /\ q' = Tail(q) /\ left' = Neighbours(q[2])
  /\ UNCHANGED <<todo, host, reach, nextHop, pair, up, phase, maxRtt, table, broken, traffic>>

EndSearch ==
  /\ phase # "run" /\ left = {} /\ Len(q) = 1
  /\ q' = <<>> /\ todo' = todo \ {host}
  /\ pair' = [x \in Node |-> [pair[x] EXCEPT ![host] = IF x \in DOMAIN reach THEN reach[x] ELSE @]]
  /\ UNCHANGED <<host, left, reach, nextHop, up, phase, maxRtt, table, broken, traffic>>

Calculated == phase # "run" /\ q = <<>> /\ todo = {}

(* SetRoutingEntries adds to what a table has.                             *)
WithEntries(t) == [x \in Node |-> [h \in Host |-> t[x][h] \cup nextHop[x][h]]]

Rtt(i, j) == pair[i][j].delay * 2 + pair[i][j].txDelay
Largest(S) == CHOOSE m \in S \cup {0} : \A n \in S : n <= m

(* main, after the routes: tables and the largest round trip.              *)
SetUp ==
  /\ Calculated /\ phase = "start"
  /\ table' = WithEntries(table)
  /\ maxRtt' = Largest({Rtt(i, j) : i, j \in Host})
  /\ phase' = "run"
  /\ UNCHANGED <<up, search, broken, traffic>>

-----------------------------------------------------------------------------
(* Queue pairs and packets. *)

(* AddQueuePair; GetNicIdxOfQp asserts that there is a NIC. *)
NewQp(f) ==
  /\ phase = "run" /\ ~failed /\ nic[f] = None
  /\ LET nics == table[Source[f]][Target[f]]
     IN  IF nics = {} THEN failed' = TRUE /\ UNCHANGED nic
         ELSE /\ \E n \in nics : nic' = [nic EXCEPT ![f] = n]
              /\ UNCHANGED failed
  /\ UNCHANGED <<up, phase, search, maxRtt, table, broken, packet, refused>>

SendData(f) ==
  /\ phase = "run" /\ ~failed /\ nic[f] # None /\ packet[f] = None
  /\ packet' = [packet EXCEPT ![f] = [to |-> Target[f], from |-> Source[f], next |-> nic[f]]]
  /\ UNCHANGED <<up, phase, search, maxRtt, table, broken, nic, refused, failed>>

IsData(f, p) == p.to = Target[f]

(* What the switches put into queue 0, which no admission control is for.  *)
HighPriority(f, p) == AckHighPrio /\ ~IsData(f, p)

(* Mutant: admission control for packets of queue 0 too.                   *)
Mut_Forward(f) ==
  LET p == packet[f]
      nexts == table[p.next][p.to]
  IN  /\ phase = "run" /\ ~failed /\ p # None /\ p.next \in Switch
      /\ \/ /\ nexts = {}
            /\ packet' = [packet EXCEPT ![f] = None] /\ UNCHANGED refused
         \/ /\ \E n \in nexts :
                 packet' = [packet EXCEPT ![f] = [to |-> p.to, from |-> p.next, next |-> n]]
            /\ UNCHANGED refused
         \/ /\ nexts # {} /\ refused < MaxRefused
            /\ packet' = [packet EXCEPT ![f] = None] /\ refused' = refused + 1
      /\ UNCHANGED <<up, phase, search, maxRtt, table, broken, nic, failed>>

(* SendToDev of the switch the packet comes to: without an entry, drop; it *)
(* is also dropped when the MMU does not admit it.  What is in the buffers *)
(* is left open (SwitchMmu), so that any packet of a data queue may be     *)
(* refused.                                                                *)
Forward(f) ==
  LET p == packet[f]
      nexts == table[p.next][p.to]
  IN  /\ phase = "run" /\ ~failed /\ p # None /\ p.next \in Switch
      /\ \/ /\ nexts = {}
            /\ packet' = [packet EXCEPT ![f] = None] /\ UNCHANGED refused
         \/ /\ \E n \in nexts :
                 packet' = [packet EXCEPT ![f] = [to |-> p.to, from |-> p.next, next |-> n]]
            /\ UNCHANGED refused
         \/ /\ nexts # {} /\ ~HighPriority(f, p) /\ refused < MaxRefused
            /\ packet' = [packet EXCEPT ![f] = None] /\ refused' = refused + 1
      /\ UNCHANGED <<up, phase, search, maxRtt, table, broken, nic, failed>>

(* RdmaHw::Receive, of whatever comes: data is answered, or not, over a    *)
(* NIC for the host it is from; the NIC of the queue pair is looked up     *)
(* for an ACK.                                                             *)
Deliver(f) ==
  LET p == packet[f]
      nics == table[p.next][IF IsData(f, p) THEN Source[f] ELSE Target[f]]
  IN  /\ phase = "run" /\ ~failed /\ p # None /\ p.next \in Host
      /\ \/ /\ packet' = [packet EXCEPT ![f] = None]
            /\ failed' = (~IsData(f, p) /\ nics = {})
         \/ /\ IsData(f, p)
            /\ IF nics = {} THEN failed' = TRUE /\ UNCHANGED packet
               ELSE /\ \E n \in nics : packet' =
                         [packet EXCEPT ![f] = [to |-> Source[f], from |-> p.next, next |-> n]]
                    /\ UNCHANGED failed
      /\ UNCHANGED <<up, phase, search, maxRtt, table, broken, nic, refused>>

-----------------------------------------------------------------------------
(* Mutant: next hops are not cleared. *)
Mut_TakeDownLink(link) ==
  /\ phase = "run" /\ ~failed /\ link \in up
  /\ Cardinality(broken) < MaxDown
  /\ up' = up \ {link} /\ broken' = broken \cup {link}
  /\ nextHop' = nextHop /\ todo' = Host
  /\ phase' = "redo"
  /\ UNCHANGED <<host, q, left, reach, pair, maxRtt, table, traffic>>

(* TakeDownLink: new routes before the old tables are cleared.             *)
TakeDownLink(link) ==
  /\ phase = "run" /\ ~failed /\ link \in up
  /\ Cardinality(broken) < MaxDown
  /\ up' = up \ {link} /\ broken' = broken \cup {link}
  /\ nextHop' = Nothing /\ todo' = Host
  /\ phase' = "redo"
  /\ UNCHANGED <<host, q, left, reach, pair, maxRtt, table, traffic>>

(* TakeDown of both devices: what is in their queues or on the wire.       *)
(* Mutant: the queues of all ports of the two are cleared. *)
Mut_TakeDown == [f \in Flow |->
  IF packet[f] # None /\ packet[f].from \in UNION broken THEN None ELSE packet[f]]
TakeDown == [f \in Flow |->
  IF packet[f] # None /\ {packet[f].from, packet[f].next} \in broken THEN None ELSE packet[f]]

(* RedistributeQp of every host, with tables t.                            *)
(* Mutants: the hosts keep their NICs; the tables are still cleared. *)
MutKeep_RedistributeQp(t) == UNCHANGED <<nic, failed>>
MutCleared_RedistributeQp(t) ==
  /\ failed' = (\E f \in Flow : nic[f] # None)
  /\ nic' = nic
RedistributeQp(t) ==
  LET open == {f \in Flow : nic[f] # None}
      Nics(f) == t[Source[f]][Target[f]]
  IN  IF \E f \in open : Nics(f) = {} THEN failed' = TRUE /\ UNCHANGED nic
      ELSE /\ nic' \in {n \in [Flow -> Node \cup {None}] :
                \A f \in Flow : IF f \in open THEN n[f] \in Nics(f) ELSE n[f] = None}
           /\ UNCHANGED failed

(* The rest of TakeDownLink: ClearTable, TakeDown, SetRoutingEntries and   *)
(* RedistributeQp.                                                         *)
Redo ==
  /\ Calculated /\ phase = "redo"
  /\ packet' = TakeDown
  /\ table' = WithEntries(Nothing)
  /\ RedistributeQp(WithEntries(Nothing))
  /\ phase' = "run"
  /\ UNCHANGED <<up, search, maxRtt, broken, refused>>

-----------------------------------------------------------------------------
Calculate ==
  (\E h \in Host : StartSearch(h)) \/ (\E next \in left : LookAt(next)) \/ NextNode \/ EndSearch

Next ==
  \/ Calculate \/ SetUp \/ Redo
  \/ \E f \in Flow : NewQp(f) \/ SendData(f) \/ Forward(f) \/ Deliver(f)
  \/ \E link \in up : TakeDownLink(link)

Spec == Init /\ [][Next]_vars

(* The program calculates, and the devices send what is in their queues    *)
(* (EveryQueueServed of SwitchNode).                                       *)
FairSpec ==
  /\ Spec /\ WF_vars(Calculate \/ SetUp \/ Redo)
  /\ \A f \in Flow : WF_vars(Forward(f)) /\ WF_vars(Deliver(f))

-----------------------------------------------------------------------------
Known == [dis : Nat, delay : Nat, txDelay : Nat, bw : Nat]

(* The types of the variables.                                             *)
TypeOK ==
  /\ up \subseteq AllLinks /\ broken \subseteq AllLinks /\ phase \in {"start", "redo", "run"}
  /\ todo \subseteq Host /\ host \in Host \cup {None}
  /\ q \in Seq(Node) /\ left \subseteq Node /\ DOMAIN reach \subseteq Node
  /\ \A x \in DOMAIN reach : reach[x] \in Known
  /\ pair \in [Node -> [Host -> Known]]
  /\ nextHop \in [Node -> [Host -> SUBSET Node]]
  /\ table \in [Node -> [Host -> SUBSET Node]]
  /\ maxRtt \in Nat /\ failed \in BOOLEAN /\ refused \in 0 .. MaxRefused
  /\ nic \in [Flow -> Node \cup {None}]
  /\ \A f \in Flow : packet[f] # None =>
       /\ packet[f].to \in {Source[f], Target[f]}
       /\ packet[f].from \in Node /\ packet[f].next \in Node

(* The nodes that reach h over k links and switches in between.            *)
Within(h) ==
  LET within[k \in 0 .. Cardinality(Node)] ==
        IF k = 0 THEN {h}
        ELSE LET nearer == within[k - 1]
             IN  nearer \cup {x \in Node : Neighbours(x) \cap nearer \cap (Switch \cup {h}) # {}}
  IN  within
Reaches(x, h) == x \in Within(h)[Cardinality(Node)]
Distance(x, h) == CHOOSE k \in 0 .. Cardinality(Node) :
  x \in Within(h)[k] /\ (k = 0 \/ x \notin Within(h)[k - 1])

NextHopsShortest ==
  \A x \in Node, h \in Host : table[x][h] =
    {y \in Neighbours(x) \cap (Switch \cup {h}) :
       x # h /\ Reaches(y, h) /\ Reaches(x, h) /\ Distance(x, h) = Distance(y, h) + 1}
PairsOfOnePath ==
  \A x \in Node, h \in Host : x # h /\ Reaches(x, h) =>
    \E y \in table[x][h] : pair[x][h] = Beyond(pair[y][h], {x, y})

(* After every calculation the tables have all the next hops of shortest   *)
(* paths over switches and no other, none of an older calculation; and     *)
(* delay, transmission time and bandwidth of a pair are of one and the     *)
(* same of these paths, as they are now (third.cc:236-262, 299-316).       *)
ShortestRoutes == phase = "run" => NextHopsShortest /\ PairsOfOnePath

(* y is a hop from x towards h. *)
Leads(x, y, h) == {x, y} \in up /\ y \in Switch \cup {h}
Nearer == \A x \in Node, h \in Host : \A y \in table[x][h] :
  Leads(x, y, h) /\ pair[x][h].dis = pair[y][h].dis + 1
OnRoutes ==
  \A f \in Flow :
    /\ nic[f] # None => nic[f] \in table[Source[f]][Target[f]]
    /\ packet[f] # None => Leads(packet[f].from, packet[f].next, packet[f].to)

(* Every entry of a table leads one hop nearer, so that packets go in no   *)
(* circle (third.cc:252); and packets and queue pairs are only where the   *)
(* tables of now lead: on links that are up, as SendToDev asserts          *)
(* (switch-node.cc:154), and at no host but the one they are for, as a     *)
(* host takes what comes for its own (rdma-hw.cc:431).                     *)
OnlyLiveRoutes ==
  phase = "run" => Nearer /\ (~failed => OnRoutes)

CutOff(f) == ~Reaches(Source[f], Target[f]) \/ ~Reaches(Target[f], Source[f])

HadAReason ==
  /\ \A f \in Flow : packet[f] # None /\ packet'[f] = None =>
       \/ packet[f].next = packet[f].to
       \/ {packet[f].from, packet[f].next} \in broken
       \/ ~Reaches(packet[f].next, packet[f].to)
       \/ refused' > refused /\ packet[f].next \in Switch /\ ~HighPriority(f, packet[f])
  /\ ~failed /\ failed' => \E f \in Flow : CutOff(f)

(* A change of routes costs no packet more than it must: one is lost only  *)
(* on a link taken down, because no way is left (switch-node.cc:179), or   *)
(* to a switch whose buffer has no room for it (switch-node.cc:173), which *)
(* ACKs of high priority are not; and "We assume at least one NIC is       *)
(* alive" (rdma-hw.cc:211, 285) fails only when two hosts are cut off.     *)
LostForAReason == [][HadAReason]_vars

(* Every packet arrives, or is lost: routes that change under way lead it  *)
(* in no circle.                                                           *)
PacketsEnd == \A f \in Flow : packet[f] # None ~> packet[f] = None \/ failed

(* "Max Rtt of the network" (switch-node.cc:72), which the switches scale   *)
(* utilisations with: no pair of hosts has a longer round trip.  It does   *)
(* not hold: maxRtt stays what it was when a link goes down                *)
(* (third.cc:299-324, 934).                                                *)
MaxRttOfNetwork ==
  phase = "run" => \A i, j \in Host : Reaches(i, j) => Rtt(i, j) <= maxRtt

=============================================================================
