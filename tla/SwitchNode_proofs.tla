-------------------------- MODULE SwitchNode_proofs --------------------------
(***************************************************************************)
(* The invariants of SwitchNode, for every number of ports and queues,     *)
(* every set of flows, every routing that leads over links that are up and *)
(* every bound.                                                            *)
(*                                                                         *)
(* An event of the switch is a chain of calls on the record of its state.  *)
(* So each call is reasoned about once, as a relation of the state before  *)
(* it and the state after it, and the actions only put the calls together. *)
(***************************************************************************)
EXTENDS SwitchNode, NatSums_proofs, SequenceTheorems

-----------------------------------------------------------------------------
(* The types of the fields of the switch.                                  *)

InFrame == PacketIn \cup PfcFrame
OutFrame == [kind : {"data"}] \cup PfcFrame
Arrival == [kind : {"data"}, flow : Flow, size : PktSize]
WireFrame == Arrival \cup PfcFrame

QIndex == 0..NQueue
Table == [Port -> [Queue -> Int]]
Flags == [Port -> [Queue -> BOOLEAN]]
Matrix == [Port -> [Port -> [QIndex -> Int]]]
Queues == {f \in [Port -> [QIndex -> Seq(InFrame)]] :
             \A d \in Port, q \in Queue : f[d][q] \in Seq(PacketIn)}
Turns == [Port -> QIndex]
States == [Port -> {"READY", "BUSY"}]
Links == [Port -> BOOLEAN]
Wires == [Port -> Seq(OutFrame)]
NotReady == "Must be READY to transmit"
NotPaused == "Must be PAUSEd"
NotUp == "The routing table look up should return link that is up"
Failures == SUBSET {NotReady, NotPaused, NotUp}

Switch ==
  [shared_used_bytes : Int, hdrm_bytes : Table, ingress_bytes : Table,
   egress_bytes : Table, paused : Flags, m_bytes : Matrix, m_queues : Queues,
   m_rrlast : Turns, m_txMachineState : States, m_linkUp : Links,
   m_paused : Flags, wire_out : Wires, failed : Failures]

(* The fields of a switch have their types. *)
LEMMA SwitchFields ==
  ASSUME NEW s \in Switch
  PROVE  /\ s.shared_used_bytes \in Int /\ s.hdrm_bytes \in Table
         /\ s.ingress_bytes \in Table /\ s.egress_bytes \in Table
         /\ s.paused \in Flags /\ s.m_bytes \in Matrix /\ s.m_queues \in Queues
         /\ s.m_rrlast \in Turns /\ s.m_txMachineState \in States
         /\ s.m_linkUp \in Links /\ s.m_paused \in Flags
         /\ s.wire_out \in Wires /\ s.failed \in Failures
BY DEF Switch

LEMMA Indices ==
  /\ NPort \in Nat /\ NQueue \in Nat /\ 0 \in QIndex
  /\ Port = 1..NPort /\ Queue = 1..NQueue /\ QIndex = 0..NQueue
  /\ Queue \subseteq QIndex /\ \A q \in QIndex : q # 0 => q \in Queue
  /\ 0 \notin Queue
BY SwitchConfig DEF Port, Queue, QIndex

(* The queue a device serves is one it may serve. *)
LEMMA ServedServable ==
  ASSUME NEW s \in Switch, NEW d \in Port,
         E!Servable(s.m_queues[d], s.m_paused[d]) # {}
  PROVE  LET q == E!Served(s.m_queues[d], s.m_rrlast[d], s.m_paused[d])
         IN  /\ q \in QIndex /\ s.m_queues[d][q] # <<>>
             /\ q # 0 => s.m_queues[d][0] = <<>>
<1> DEFINE Srv == E!Servable(s.m_queues[d], s.m_paused[d])
           turn(q) == E!Turn(q, s.m_rrlast[d])
           T == {turn(q) : q \in Srv}
<1>1. Srv \subseteq QIndex /\ \A q \in Srv : s.m_queues[d][q] # <<>>
  BY DEF E!Servable, E!CanServe, E!QIndex, QIndex
<1>2. CASE s.m_queues[d][0] # <<>>
  BY <1>2, Indices DEF E!Served
<1>3. CASE s.m_queues[d][0] = <<>>
  <2>1. s.m_rrlast[d] \in 0..NQueue
    BY SwitchFields DEF Turns, QIndex
  <2>2. \A q \in QIndex : turn(q) \in Nat
    <3>1. ASSUME NEW q \in QIndex, NEW r \in 0..NQueue PROVE E!Turn(q, r) \in Nat
      <4>1. q + NQueue - r \in Nat /\ NQueue + 1 \in Nat \ {0}
        BY Indices
      <4> QED BY <4>1 DEF E!Turn
    <3> QED BY <2>1, <3>1
  <2>3. T \subseteq Nat /\ T # {}
    BY <1>1, <2>2
  <2>4. PICK x \in T : \A y \in T : x <= y
    BY <2>3, LeastNat
  <2>5. \E q \in Srv : \A r \in Srv : turn(q) <= turn(r)
    BY <2>4
  <2>6. E!Served(s.m_queues[d], s.m_rrlast[d], s.m_paused[d]) \in Srv
    BY <1>3, <2>5 DEF E!Served
  <2> QED BY <1>1, <1>3, <2>6
<1> QED BY <1>2, <1>3

-----------------------------------------------------------------------------
(* A function that takes another value at one place.                       *)

Put(f, d, v) == [f EXCEPT ![d] = v]
Put2(f, d, q, v) == [f EXCEPT ![d] = [f[d] EXCEPT ![q] = v]]

LEMMA PutAt ==
  ASSUME NEW D, NEW V, NEW f \in [D -> V], NEW d \in D, NEW v \in V
  PROVE  /\ Put(f, d, v) \in [D -> V] /\ Put(f, d, v)[d] = v
         /\ \A e \in D : e # d => Put(f, d, v)[e] = f[e]
BY DEF Put

LEMMA Put2At ==
  ASSUME NEW D, NEW R, NEW V, NEW f \in [D -> [R -> V]], NEW d \in D, NEW q \in R,
         NEW v \in V
  PROVE  /\ Put2(f, d, q, v) \in [D -> [R -> V]] /\ Put2(f, d, q, v)[d][q] = v
         /\ \A e \in D, r \in R : e # d \/ r # q => Put2(f, d, q, v)[e][r] = f[e][r]
         /\ \A e \in D : e # d => Put2(f, d, q, v)[e] = f[e]
BY DEF Put2

-----------------------------------------------------------------------------
(* Frames that enter and leave a queue keep the types.                     *)

LEMMA QueuesGrow ==
  ASSUME NEW f \in Queues, NEW d \in Port, NEW q \in QIndex, NEW p \in InFrame,
         q # 0 => p \in PacketIn
  PROVE  Put2(f, d, q, Append(f[d][q], p)) \in Queues
<1> DEFINE g == Put2(f, d, q, Append(f[d][q], p))
<1>1. Append(f[d][q], p) \in Seq(InFrame)
  BY AppendProperties DEF Queues
<1>2. q \in Queue => Append(f[d][q], p) \in Seq(PacketIn)
  BY AppendProperties, Indices DEF Queues
<1>3. g \in [Port -> [QIndex -> Seq(InFrame)]]
  BY <1>1 DEF Queues, Put2
<1>4. \A e \in Port, r \in Queue : g[e][r] \in Seq(PacketIn)
  BY <1>2, Indices DEF Queues, Put2
<1> QED BY <1>3, <1>4 DEF Queues

LEMMA QueuePut ==
  ASSUME NEW f \in Queues, NEW d \in Port, NEW q \in QIndex, NEW v \in Seq(InFrame)
  PROVE  /\ Put2(f, d, q, v)[d][q] = v
         /\ \A e \in Port, r \in QIndex : e # d \/ r # q => Put2(f, d, q, v)[e][r] = f[e][r]
         /\ \A e \in Port : e # d => Put2(f, d, q, v)[e] = f[e]
<1>1. f \in [Port -> [QIndex -> Seq(InFrame)]]
  BY DEF Queues
<1> QED BY <1>1 DEF Put2

LEMMA QueuesShrink ==
  ASSUME NEW f \in Queues, NEW d \in Port, NEW q \in QIndex, f[d][q] # <<>>
  PROVE  /\ Put2(f, d, q, Tail(f[d][q])) \in Queues
         /\ Head(f[d][q]) \in InFrame
         /\ q # 0 => Head(f[d][q]) \in PacketIn
<1> DEFINE g == Put2(f, d, q, Tail(f[d][q]))
<1>1. Tail(f[d][q]) \in Seq(InFrame) /\ Head(f[d][q]) \in InFrame
  BY HeadTailProperties DEF Queues
<1>2. q \in Queue => Tail(f[d][q]) \in Seq(PacketIn) /\ Head(f[d][q]) \in PacketIn
  BY HeadTailProperties DEF Queues
<1>3. g \in [Port -> [QIndex -> Seq(InFrame)]]
  BY <1>1 DEF Queues, Put2
<1>4. \A e \in Port, r \in Queue : g[e][r] \in Seq(PacketIn)
  BY <1>2, Indices DEF Queues, Put2
<1> QED BY <1>1, <1>2, <1>3, <1>4, Indices DEF Queues

-----------------------------------------------------------------------------
(* What a call leaves alone.                                               *)

SameBooks(s, t) ==
  /\ t.shared_used_bytes = s.shared_used_bytes
  /\ t.hdrm_bytes = s.hdrm_bytes /\ t.ingress_bytes = s.ingress_bytes
  /\ t.egress_bytes = s.egress_bytes /\ t.m_bytes = s.m_bytes

(* What the links and the neighbours have to say. *)
SameOrders(s, t) == t.m_linkUp = s.m_linkUp /\ t.m_paused = s.m_paused

SameTransmission(s, t) ==
  /\ t.m_queues = s.m_queues /\ t.m_rrlast = s.m_rrlast /\ t.wire_out = s.wire_out
  /\ t.m_txMachineState = s.m_txMachineState /\ t.failed = s.failed

(* The same of one device. *)
SameDevice(s, t, d) ==
  /\ t.m_queues[d] = s.m_queues[d]
  /\ t.m_txMachineState[d] = s.m_txMachineState[d]
  /\ t.wire_out[d] = s.wire_out[d]

(* A frame joins a queue. *)
LEMMA EnqueuedDoes ==
  ASSUME NEW s \in Switch, NEW d \in Port, NEW q \in QIndex, NEW p \in InFrame,
         q # 0 => p \in PacketIn
  PROVE  LET t == Enqueued(s, d, q, p)
         IN  /\ t \in Switch
             /\ t.m_queues = Put2(s.m_queues, d, q, Append(s.m_queues[d][q], p))
             /\ SameBooks(s, t) /\ SameOrders(s, t) /\ t.paused = s.paused
             /\ t.m_rrlast = s.m_rrlast /\ t.wire_out = s.wire_out
             /\ t.m_txMachineState = s.m_txMachineState /\ t.failed = s.failed
<1> DEFINE g == Put2(s.m_queues, d, q, Append(s.m_queues[d][q], p))
<1>1. g \in Queues
  BY SwitchFields, QueuesGrow
<1>2. Enqueued(s, d, q, p) = [s EXCEPT !.m_queues = g]
  BY SwitchFields DEF Enqueued, E!DoEnqueue, Switch, Queues, Put2
<1> HIDE DEF g
<1>3. Enqueued(s, d, q, p) \in Switch /\ Enqueued(s, d, q, p).m_queues = g
  BY <1>1, <1>2 DEF Switch
<1> QED BY <1>2, <1>3 DEF g, Switch, SameBooks, SameOrders

(* The head of a queue leaves it. *)
LEMMA DequeuedDoes ==
  ASSUME NEW s \in Switch, NEW d \in Port, NEW q \in QIndex, s.m_queues[d][q] # <<>>
  PROVE  LET t == Dequeued(s, d, q)
         IN  /\ t \in Switch
             /\ t.m_queues = Put2(s.m_queues, d, q, Tail(s.m_queues[d][q]))
             /\ SameBooks(s, t) /\ SameOrders(s, t) /\ t.paused = s.paused
             /\ t.wire_out = s.wire_out
             /\ t.m_txMachineState = s.m_txMachineState /\ t.failed = s.failed
<1> DEFINE g == Put2(s.m_queues, d, q, Tail(s.m_queues[d][q]))
           r == Put(s.m_rrlast, d, E!NextRRLast(s.m_rrlast[d], q))
<1>1. g \in Queues
  BY SwitchFields, QueuesShrink
<1>2. r \in Turns
  BY SwitchFields DEF Turns, E!NextRRLast, Put
<1>3. Dequeued(s, d, q) = [s EXCEPT !.m_queues = g, !.m_rrlast = r]
  BY SwitchFields DEF Dequeued, Switch, Queues, Turns, Put, Put2
<1> HIDE DEF g, r
<1>4. Dequeued(s, d, q) \in Switch /\ Dequeued(s, d, q).m_queues = g
  BY <1>1, <1>2, <1>3 DEF Switch
<1> QED BY <1>3, <1>4 DEF g, Switch, SameBooks, SameOrders

(* A frame goes on the wire if the device is free, and an assertion fails   *)
(* if it is not. *)
LEMMA TransmitStartDoes ==
  ASSUME NEW s \in Switch, NEW d \in Port, NEW p \in InFrame
  PROVE  LET t == TransmitStart(s, d, p)
         IN  /\ t \in Switch
             /\ SameBooks(s, t) /\ SameOrders(s, t) /\ t.paused = s.paused
             /\ t.m_queues = s.m_queues
             /\ s.m_txMachineState[d] = "READY" =>
                  /\ t.m_txMachineState = Put(s.m_txMachineState, d, "BUSY")
                  /\ t.wire_out = Put(s.wire_out, d, Append(s.wire_out[d], OnWire(p)))
                  /\ t.failed = s.failed
             /\ s.m_txMachineState[d] # "READY" =>
                  /\ t.m_txMachineState = s.m_txMachineState
                  /\ t.wire_out = s.wire_out
                  /\ t.failed = s.failed \cup {NotReady}
             /\ OnWire(p) \in OutFrame
<1> DEFINE w == Put(s.wire_out, d, Append(s.wire_out[d], OnWire(p)))
           x == Put(s.m_txMachineState, d, "BUSY")
           n == s.failed \cup {NotReady}
<1>1. OnWire(p) \in OutFrame
  BY DEF OnWire, OutFrame, InFrame, PacketIn, PfcFrame, PfcKind
<1>2. w \in Wires
  <2>1. Append(s.wire_out[d], OnWire(p)) \in Seq(OutFrame)
    BY <1>1, SwitchFields, AppendProperties DEF Wires
  <2> QED BY <2>1, SwitchFields DEF Wires, Put
<1>3. x \in States /\ n \in Failures
  BY SwitchFields DEF States, Failures, Put
<1>4. CASE s.m_txMachineState[d] = "READY"
  <2>1. TransmitStart(s, d, p) = [s EXCEPT !.m_txMachineState = x, !.wire_out = w]
    BY <1>4, SwitchFields DEF TransmitStart, Switch, States, Wires, Put
  <2> HIDE DEF x, w
  <2>2. TransmitStart(s, d, p) \in Switch
    BY <1>2, <1>3, <2>1 DEF Switch
  <2> QED BY <1>1, <1>4, <2>1, <2>2 DEF x, w, Switch, SameBooks, SameOrders
<1>5. CASE s.m_txMachineState[d] # "READY"
  <2>1. TransmitStart(s, d, p) = [s EXCEPT !.failed = n]
    BY <1>5, SwitchFields DEF TransmitStart, Failing, Switch, NotReady
  <2> HIDE DEF n
  <2>2. TransmitStart(s, d, p) \in Switch
    BY <1>3, <2>1 DEF Switch
  <2> QED BY <1>1, <1>5, <2>1, <2>2 DEF n, Switch, SameBooks, SameOrders
<1> QED BY <1>4, <1>5

-----------------------------------------------------------------------------
(* PFC frames on their way.  What a receiver that holds back queue q, or    *)
(* not (b), does after frame p, and that p changes it if it is for q.       *)

After(p, q, b) == IF p.kind \in PfcKind /\ p.q = q THEN p.kind = "pause" ELSE b
Changes(p, q, b) == p.kind \in PfcKind /\ p.q = q => b # (p.kind = "pause")

(* Nothing on its way changes nothing. *)
LEMMA LeadsNowhere ==
  ASSUME NEW q, NEW b \in BOOLEAN
  PROVE  Leads(<<>>, q, b, b)
<1> DEFINE told == [k \in 0..0 |-> b]
<1>1. told \in [0..Len(<<>>) -> BOOLEAN] /\ told[0] = b /\ told[Len(<<>>)] = b
  OBVIOUS
<1>2. DOMAIN <<>> = {}
  OBVIOUS
<1> QED BY <1>1, <1>2 DEF Leads

(* One more frame takes the receiver one step further. *)
LEMMA LeadsAppend ==
  ASSUME NEW S, NEW F \in Seq(S), NEW p \in S, NEW q, NEW a \in BOOLEAN,
         NEW b \in BOOLEAN, Leads(F, q, a, b), Changes(p, q, b)
  PROVE  Leads(Append(F, p), q, a, After(p, q, b))
<1> DEFINE n == Len(F)
           G == Append(F, p)
           c == After(p, q, b)
<1>1. PICK told \in [0..n -> BOOLEAN] :
        /\ told[0] = a /\ told[n] = b
        /\ \A k \in DOMAIN F :
             IF F[k].kind \in PfcKind /\ F[k].q = q
             THEN told[k] = (F[k].kind = "pause") /\ told[k - 1] # told[k]
             ELSE told[k] = told[k - 1]
  BY DEF Leads
<1> DEFINE more == [k \in 0..(n + 1) |-> IF k = n + 1 THEN c ELSE told[k]]
<1>2. n \in Nat /\ Len(G) = n + 1 /\ DOMAIN F = 1..n /\ DOMAIN G = 1..(n + 1)
      /\ (\A k \in 1..n : G[k] = F[k]) /\ G[n + 1] = p
  BY AppendProperties, LenProperties
<1>3. c \in BOOLEAN
  BY DEF After
<1>4. more \in [0..(n + 1) -> BOOLEAN]
  BY <1>2, <1>3
<1>5. more[0] = a /\ more[n + 1] = c /\ more[n] = b
      /\ \A k \in 1..n : more[k] = told[k] /\ more[k - 1] = told[k - 1]
  <2> HIDE DEF n, c
  <2>1. 0 \in 0..(n + 1) /\ n \in 0..(n + 1) /\ n + 1 \in 0..(n + 1) /\ n # n + 1 /\ 0 # n + 1
    BY <1>2
  <2>2. \A k \in 1..n : k \in 0..(n + 1) /\ k - 1 \in 0..(n + 1) /\ k # n + 1 /\ k - 1 # n + 1
    BY <1>2
  <2> QED BY <1>1, <2>1, <2>2
<1>6. ASSUME NEW k \in 1..n
      PROVE  IF G[k].kind \in PfcKind /\ G[k].q = q
             THEN more[k] = (G[k].kind = "pause") /\ more[k - 1] # more[k]
             ELSE more[k] = more[k - 1]
  <2> HIDE DEF more, n
  <2>1. G[k] = F[k] /\ more[k] = told[k] /\ more[k - 1] = told[k - 1] /\ k \in DOMAIN F
    BY <1>2, <1>5
  <2> HIDE DEF G
  <2> QED BY <1>1, <2>1, Zenon
<1>7. IF G[n + 1].kind \in PfcKind /\ G[n + 1].q = q
      THEN more[n + 1] = (G[n + 1].kind = "pause") /\ more[(n + 1) - 1] # more[n + 1]
      ELSE more[n + 1] = more[(n + 1) - 1]
  <2>1. (n + 1) - 1 = n
    BY <1>2
  <2>2. G[n + 1] = p /\ more[n + 1] = c /\ more[(n + 1) - 1] = b
    BY <1>2, <1>5, <2>1
  <2> HIDE DEF more, n, G
  <2>3. IF p.kind \in PfcKind /\ p.q = q
        THEN c = (p.kind = "pause") /\ b # c
        ELSE c = b
    BY Zenon DEF Changes, After
  <2> QED BY <2>2, <2>3, Zenon
<1>8. \A k \in DOMAIN G :
        IF G[k].kind \in PfcKind /\ G[k].q = q
        THEN more[k] = (G[k].kind = "pause") /\ more[k - 1] # more[k]
        ELSE more[k] = more[k - 1]
  <2>1. \A k \in 1..(n + 1) : k \in 1..n \/ k = n + 1
    BY <1>2
  <2> HIDE DEF more, n, G
  <2> QED BY <1>2, <1>6, <1>7, <2>1, Zenon
<1>9. more \in [0..Len(G) -> BOOLEAN] /\ more[0] = a /\ more[Len(G)] = c
  BY <1>2, <1>4, <1>5
<1> HIDE DEF more, n, G, c
<1>10. Leads(G, q, a, c)
  BY <1>8, <1>9, Zenon DEF Leads
<1> QED BY <1>10 DEF G, c

(* The first frame is the first step. *)
LEMMA LeadsTail ==
  ASSUME NEW S, NEW F \in Seq(S), F # <<>>, NEW q, NEW a \in BOOLEAN,
         NEW b \in BOOLEAN, Leads(F, q, a, b)
  PROVE  Changes(Head(F), q, a) /\ Leads(Tail(F), q, After(Head(F), q, a), b)
<1> DEFINE n == Len(F) - 1
           G == Tail(F)
           p == Head(F)
           c == After(p, q, a)
<1>1. PICK told \in [0..Len(F) -> BOOLEAN] :
        /\ told[0] = a /\ told[Len(F)] = b
        /\ \A k \in DOMAIN F :
             IF F[k].kind \in PfcKind /\ F[k].q = q
             THEN told[k] = (F[k].kind = "pause") /\ told[k - 1] # told[k]
             ELSE told[k] = told[k - 1]
  BY DEF Leads
<1> DEFINE rest == [k \in 0..n |-> told[k + 1]]
<1>2. n \in Nat /\ Len(F) = n + 1 /\ Len(G) = n /\ DOMAIN F = 1..(n + 1) /\ DOMAIN G = 1..n
      /\ \A k \in 1..n : G[k] = F[k + 1]
  BY HeadTailProperties, LenProperties, EmptySeq
<1>3. p = F[1]
  OBVIOUS
<1>4. 1 \in DOMAIN F /\ 1 - 1 = 0
  BY <1>2
<1>5. told[1] \in BOOLEAN
  BY <1>2
<1>6. told[1] = c /\ Changes(p, q, a)
  <2>1. IF F[1].kind \in PfcKind /\ F[1].q = q
        THEN told[1] = (F[1].kind = "pause") /\ told[1 - 1] # told[1]
        ELSE told[1] = told[1 - 1]
    BY <1>1, <1>4, Zenon
  <2>2. IF p.kind \in PfcKind /\ p.q = q
        THEN told[1] = (p.kind = "pause") /\ a # told[1]
        ELSE told[1] = a
    <3> HIDE DEF p
    <3> QED BY <1>1, <1>3, <1>4, <2>1
  <2> HIDE DEF p
  <2> QED BY <2>2, Zenon DEF After, Changes
<1>7. rest \in [0..n -> BOOLEAN] /\ rest[0] = told[1] /\ rest[n] = b
      /\ \A k \in 1..n : rest[k] = told[k + 1] /\ rest[k - 1] = told[(k + 1) - 1]
  BY <1>1, <1>2
<1>8. ASSUME NEW k \in 1..n
      PROVE  IF G[k].kind \in PfcKind /\ G[k].q = q
             THEN rest[k] = (G[k].kind = "pause") /\ rest[k - 1] # rest[k]
             ELSE rest[k] = rest[k - 1]
  <2>1. k + 1 \in DOMAIN F
    BY <1>2
  <2>2. G[k] = F[k + 1] /\ rest[k] = told[k + 1] /\ rest[k - 1] = told[(k + 1) - 1]
    BY <1>2, <1>7
  <2> HIDE DEF rest, n, G
  <2> QED BY <1>1, <2>1, <2>2, Zenon
<1>9. rest \in [0..Len(G) -> BOOLEAN] /\ rest[0] = c /\ rest[Len(G)] = b
  BY <1>2, <1>6, <1>7
<1> HIDE DEF rest, n, G, c, p
<1>10. Leads(G, q, c, b)
  BY <1>2, <1>8, <1>9, Zenon DEF Leads
<1> QED BY <1>6, <1>10 DEF G, c, p

(* What a frame is besides PFC does not matter. *)
Alike(p, r) == r = p \/ (p.kind = "data" /\ r.kind = "data")

LEMMA LeadsSame ==
  ASSUME NEW S, NEW F \in Seq(S), NEW G \in Seq(S), Len(G) = Len(F),
         \A k \in 1..Len(F) : Alike(F[k], G[k]),
         NEW q, NEW a, NEW b, Leads(F, q, a, b)
  PROVE  Leads(G, q, a, b)
<1>1. PICK told \in [0..Len(F) -> BOOLEAN] :
        /\ told[0] = a /\ told[Len(F)] = b
        /\ \A k \in DOMAIN F :
             IF F[k].kind \in PfcKind /\ F[k].q = q
             THEN told[k] = (F[k].kind = "pause") /\ told[k - 1] # told[k]
             ELSE told[k] = told[k - 1]
  BY DEF Leads
<1>2. DOMAIN F = 1..Len(F) /\ DOMAIN G = 1..Len(F)
  BY LenProperties
<1>3. ASSUME NEW k \in DOMAIN G
      PROVE  IF G[k].kind \in PfcKind /\ G[k].q = q
             THEN told[k] = (G[k].kind = "pause") /\ told[k - 1] # told[k]
             ELSE told[k] = told[k - 1]
  <2>1. CASE G[k] = F[k]
    BY <1>1, <1>2, <2>1, Zenon
  <2>2. CASE F[k].kind = "data" /\ G[k].kind = "data"
    <3>1. F[k].kind \notin PfcKind /\ G[k].kind \notin PfcKind
      BY <2>2 DEF PfcKind
    <3> QED BY <1>1, <1>2, <3>1, Zenon
  <2> QED BY <1>2, <2>1, <2>2 DEF Alike
<1> QED BY <1>1, <1>2, <1>3, Zenon DEF Leads

-----------------------------------------------------------------------------
(* The bytes of one ingress port in a data queue.                          *)

Share(p, i) == IF p.kind = "data" /\ p.in = i THEN p.size ELSE 0
Shares(queue, i) == [k \in 1..Len(queue) |-> Share(queue[k], i)]

LEMMA SharesTyped ==
  ASSUME NEW queue \in Seq(PacketIn), NEW i
  PROVE  /\ Len(queue) \in Nat /\ Shares(queue, i) \in [1..Len(queue) -> Int]
         /\ BytesIn(queue, i) = SumTo(Shares(queue, i), Len(queue))
         /\ BytesIn(queue, i) \in Nat
<1>1. Len(queue) \in Nat /\ \A k \in 1..Len(queue) : queue[k] \in PacketIn
  BY ElementOfSeq, LenProperties
<1>2. \A p \in PacketIn : Share(p, i) \in Nat
  BY SwitchConfig DEF Share, PacketIn
<1>3. Shares(queue, i) \in [1..Len(queue) -> Nat]
  BY <1>1, <1>2 DEF Shares
<1>4. BytesIn(queue, i) = SumTo(Shares(queue, i), Len(queue))
  BY DEF BytesIn, Shares, Share
<1> QED BY <1>1, <1>3, <1>4, SumToNat

LEMMA BytesInEmpty ==
  ASSUME NEW i
  PROVE  BytesIn(<<>>, i) = 0
<1>1. <<>> \in Seq(PacketIn) /\ Len(<<>>) = 0
  OBVIOUS
<1> DEFINE none == <<>>
<1> HIDE DEF none
<1>2. Shares(<<>>, i) \in [1..0 -> Int]
  <2>1. none \in Seq(PacketIn) /\ Len(none) = 0
    BY <1>1 DEF none
  <2>2. Shares(none, i) \in [1..0 -> Int]
    BY <2>1, SharesTyped
  <2> QED BY <2>2 DEF none
<1>3. SumTo(Shares(<<>>, i), 0) = 0
  BY <1>2, SumToZero
<1> QED BY <1>1, <1>3, SharesTyped

LEMMA BytesInAppend ==
  ASSUME NEW queue \in Seq(PacketIn), NEW p \in PacketIn, NEW i
  PROVE  BytesIn(Append(queue, p), i) = BytesIn(queue, i) + Share(p, i)
<1> DEFINE n == Len(queue)
           more == Append(queue, p)
<1>1. n \in Nat /\ more \in Seq(PacketIn) /\ Len(more) = n + 1
      /\ (\A k \in 1..n : more[k] = queue[k]) /\ more[n + 1] = p
  BY AppendProperties, LenProperties
<1>2. Shares(queue, i) \in [1..n -> Int] /\ Shares(more, i) \in [1..(n + 1) -> Int]
  <2>1. Shares(more, i) \in [1..Len(more) -> Int]
    BY <1>1, SharesTyped
  <2> QED BY <1>1, <2>1, SharesTyped
<1>3. /\ \A k \in 1..n : Shares(more, i)[k] = Shares(queue, i)[k]
      /\ Shares(more, i)[n + 1] = Share(p, i)
  <2> HIDE DEF more, n
  <2>1. \A k \in 1..n : k \in 1..(n + 1)
    BY <1>1
  <2>2. Shares(queue, i) = [k \in 1..n |-> Share(queue[k], i)]
    BY DEF Shares, n
  <2>3. Shares(more, i) = [k \in 1..(n + 1) |-> Share(more[k], i)]
    BY <1>1 DEF Shares
  <2> QED BY <1>1, <2>1, <2>2, <2>3
<1>4. SumTo(Shares(more, i), n + 1) = SumTo(Shares(queue, i), n) + Shares(more, i)[n + 1]
  <2> HIDE DEF more, n
  <2> QED BY <1>1, <1>2, <1>3, SumToLast
<1> QED BY <1>1, <1>3, <1>4, SharesTyped

LEMMA BytesInTail ==
  ASSUME NEW queue \in Seq(PacketIn), queue # <<>>, NEW i
  PROVE  BytesIn(queue, i) = Share(Head(queue), i) + BytesIn(Tail(queue), i)
<1> DEFINE n == Len(queue) - 1
           rest == Tail(queue)
<1>1. n \in Nat /\ Len(queue) = n + 1 /\ rest \in Seq(PacketIn) /\ Len(rest) = n
      /\ (\A k \in 1..n : rest[k] = queue[k + 1]) /\ Head(queue) = queue[1]
  BY HeadTailProperties, LenProperties, EmptySeq
<1>2. Shares(rest, i) \in [1..n -> Int] /\ Shares(queue, i) \in [1..(n + 1) -> Int]
  <2>1. Shares(rest, i) \in [1..Len(rest) -> Int] /\ Shares(queue, i) \in [1..Len(queue) -> Int]
    BY <1>1, SharesTyped
  <2> QED BY <1>1, <2>1
<1>3. /\ \A k \in 1..n : Shares(rest, i)[k] = Shares(queue, i)[k + 1]
      /\ Shares(queue, i)[1] = Share(Head(queue), i)
  <2> HIDE DEF rest, n
  <2>1. 1 \in 1..(n + 1) /\ \A k \in 1..n : k + 1 \in 1..(n + 1)
    BY <1>1
  <2>2. Shares(rest, i) = [k \in 1..n |-> Share(rest[k], i)]
    BY <1>1 DEF Shares
  <2>3. Shares(queue, i) = [k \in 1..(n + 1) |-> Share(queue[k], i)]
    BY <1>1 DEF Shares
  <2> QED BY <1>1, <2>1, <2>2, <2>3
<1>4. SumTo(Shares(queue, i), n + 1) = Shares(queue, i)[1] + SumTo(Shares(rest, i), n)
  <2> HIDE DEF rest, n
  <2> QED BY <1>1, <1>2, <1>3, SumToFirst
<1> QED BY <1>1, <1>3, <1>4, SharesTyped

-----------------------------------------------------------------------------
(* What is on its way from the switch to the neighbour at d.               *)

Pipe(s, d) == s.wire_out[d] \o s.m_queues[d][0]

AnyFrame == InFrame \cup OutFrame

LEMMA PipeTyped ==
  ASSUME NEW s \in Switch, NEW d \in Port
  PROVE  /\ s.wire_out[d] \in Seq(AnyFrame) /\ s.m_queues[d][0] \in Seq(AnyFrame)
         /\ Pipe(s, d) \in Seq(AnyFrame)
         /\ Len(Pipe(s, d)) = Len(s.wire_out[d]) + Len(s.m_queues[d][0])
         /\ \A k \in 1..(Len(s.wire_out[d]) + Len(s.m_queues[d][0])) :
              Pipe(s, d)[k] = IF k <= Len(s.wire_out[d]) THEN s.wire_out[d][k]
                              ELSE s.m_queues[d][0][k - Len(s.wire_out[d])]
<1>1. s.wire_out[d] \in Seq(OutFrame) /\ s.m_queues[d][0] \in Seq(InFrame)
  <2>1. s.wire_out \in Wires /\ s.m_queues \in Queues
    BY SwitchFields
  <2> QED BY <2>1, Indices DEF Wires, Queues
<1>2. s.wire_out[d] \in Seq(AnyFrame) /\ s.m_queues[d][0] \in Seq(AnyFrame)
  BY <1>1, SeqMonotonic DEF AnyFrame
<1> QED BY <1>2, ConcatProperties DEF Pipe

(* The head of queue 0 moves to the wire.                                  *)
LEMMA PipeMoved ==
  ASSUME NEW s \in Switch, NEW t \in Switch, NEW d \in Port, s.m_queues[d][0] # <<>>,
         t.m_queues[d][0] = Tail(s.m_queues[d][0]),
         t.wire_out[d] = Append(s.wire_out[d], OnWire(Head(s.m_queues[d][0]))),
         NEW q, NEW a, NEW b, Leads(Pipe(s, d), q, a, b)
  PROVE  Leads(Pipe(t, d), q, a, b)
<1> DEFINE w == s.wire_out[d]
           v == s.m_queues[d][0]
           m == Len(w)
           n == Len(v)
<1>1. w \in Seq(AnyFrame) /\ v \in Seq(AnyFrame) /\ m \in Nat /\ n \in Nat /\ n >= 1
  <2>1. w \in Seq(AnyFrame) /\ v \in Seq(AnyFrame)
    BY PipeTyped
  <2> QED BY <2>1, LenProperties, EmptySeq
<1>2. Head(v) \in InFrame
  BY SwitchFields, QueuesShrink, Indices
<1>3. OnWire(Head(v)) \in AnyFrame /\ Alike(Head(v), OnWire(Head(v)))
  BY <1>2 DEF OnWire, AnyFrame, InFrame, OutFrame, PacketIn, PfcFrame, PfcKind, Alike
<1>4. /\ Len(t.wire_out[d]) = m + 1
      /\ \A k \in 1..m : t.wire_out[d][k] = w[k]
      /\ t.wire_out[d][m + 1] = OnWire(Head(v))
  BY <1>1, <1>3, AppendProperties
<1>5. /\ Len(t.m_queues[d][0]) = n - 1 /\ Head(v) = v[1]
      /\ \A k \in 1..(n - 1) : t.m_queues[d][0][k] = v[k + 1]
  BY <1>1, HeadTailProperties
<1>6. /\ Len(Pipe(s, d)) = m + n /\ Len(Pipe(t, d)) = m + n
      /\ Pipe(s, d) \in Seq(AnyFrame) /\ Pipe(t, d) \in Seq(AnyFrame)
  <2>1. Len(Pipe(s, d)) = m + n /\ Len(Pipe(t, d)) = (m + 1) + (n - 1)
    BY <1>4, <1>5, PipeTyped
  <2> HIDE DEF m, n
  <2>2. (m + 1) + (n - 1) = m + n
    BY <1>1
  <2> QED BY <2>1, <2>2, PipeTyped
<1>7. ASSUME NEW k \in 1..(m + n) PROVE Alike(Pipe(s, d)[k], Pipe(t, d)[k])
  <2>1. Pipe(s, d)[k] = IF k <= m THEN w[k] ELSE v[k - m]
    BY PipeTyped
  <2>2. Pipe(t, d)[k] = IF k <= m + 1 THEN t.wire_out[d][k] ELSE t.m_queues[d][0][k - (m + 1)]
    <3>1. (m + 1) + (n - 1) = m + n
      <4> HIDE DEF m, n
      <4> QED BY <1>1
    <3>2. \A j \in 1..((m + 1) + (n - 1)) :
            Pipe(t, d)[j] = IF j <= m + 1 THEN t.wire_out[d][j]
                            ELSE t.m_queues[d][0][j - (m + 1)]
      <4>1. \A j \in 1..(Len(t.wire_out[d]) + Len(t.m_queues[d][0])) :
              Pipe(t, d)[j] = IF j <= Len(t.wire_out[d]) THEN t.wire_out[d][j]
                              ELSE t.m_queues[d][0][j - Len(t.wire_out[d])]
        BY PipeTyped
      <4>2. Len(t.wire_out[d]) = m + 1 /\ Len(t.m_queues[d][0]) = n - 1
        BY <1>4, <1>5
      <4> HIDE DEF m, n
      <4> QED BY <4>1, <4>2
    <3> HIDE DEF m, n
    <3> QED BY <3>1, <3>2
  <2> HIDE DEF w, v, m, n
  <2>3. CASE k <= m
    <3>1. k \in 1..m /\ k <= m + 1
      BY <1>1, <2>3
    <3> QED BY <1>4, <2>1, <2>2, <2>3, <3>1 DEF Alike
  <2>4. CASE k = m + 1
    <3>1. ~(k <= m) /\ k - m = 1 /\ k <= m + 1
      BY <1>1, <2>4
    <3> QED BY <1>3, <1>4, <1>5, <2>1, <2>2, <2>4, <3>1
  <2>5. CASE k > m + 1
    <3>1. ~(k <= m) /\ ~(k <= m + 1) /\ k - (m + 1) \in 1..(n - 1) /\ (k - (m + 1)) + 1 = k - m
      BY <1>1, <2>5
    <3> QED BY <1>5, <2>1, <2>2, <3>1 DEF Alike
  <2> QED BY <1>1, <2>3, <2>4, <2>5
<1> HIDE DEF m, n
<1> QED BY <1>6, <1>7, LeadsSame

(* A frame joins the end of queue 0.                                       *)
LEMMA PipeJoined ==
  ASSUME NEW s \in Switch, NEW t \in Switch, NEW d \in Port, NEW p \in InFrame,
         t.m_queues[d][0] = Append(s.m_queues[d][0], p), t.wire_out[d] = s.wire_out[d],
         NEW q, NEW a \in BOOLEAN, NEW b \in BOOLEAN, Leads(Pipe(s, d), q, a, b),
         Changes(p, q, b)
  PROVE  Leads(Pipe(t, d), q, a, After(p, q, b))
<1>1. s.wire_out[d] \in Seq(AnyFrame) /\ s.m_queues[d][0] \in Seq(AnyFrame) /\ p \in AnyFrame
  BY PipeTyped DEF AnyFrame
<1>2. Pipe(t, d) = Append(Pipe(s, d), p)
  <2>1. \A u, v \in Seq(AnyFrame) : u \o Append(v, p) = Append(u \o v, p)
    BY <1>1, AppendIsConcat, ConcatAssociative, ConcatProperties
  <2> QED BY <1>1, <2>1 DEF Pipe
<1>3. Pipe(s, d) \in Seq(AnyFrame)
  BY PipeTyped
<1> QED BY <1>1, <1>2, <1>3, LeadsAppend

(* A data packet goes on the wire while queue 0 is empty.                  *)
LEMMA PipeSent ==
  ASSUME NEW s \in Switch, NEW t \in Switch, NEW d \in Port, NEW p \in PacketIn,
         s.m_queues[d][0] = <<>>, t.m_queues[d][0] = <<>>,
         t.wire_out[d] = Append(s.wire_out[d], OnWire(p)),
         NEW q, NEW a \in BOOLEAN, NEW b \in BOOLEAN, Leads(Pipe(s, d), q, a, b)
  PROVE  Leads(Pipe(t, d), q, a, b)
<1>1. s.wire_out[d] \in Seq(AnyFrame) /\ t.wire_out[d] \in Seq(AnyFrame)
  BY PipeTyped
<1>2. Pipe(s, d) = s.wire_out[d] /\ Pipe(t, d) = t.wire_out[d]
  BY <1>1, ConcatEmptySeq DEF Pipe
<1>3. OnWire(p) \in AnyFrame /\ OnWire(p).kind \notin PfcKind
  BY DEF OnWire, AnyFrame, OutFrame, PacketIn, PfcKind
<1>4. Changes(OnWire(p), q, b) /\ After(OnWire(p), q, b) = b
  BY <1>3 DEF Changes, After
<1> QED BY <1>1, <1>2, <1>3, <1>4, LeadsAppend

-----------------------------------------------------------------------------
(* PFC frames that the switch sends.                                       *)

(* Only device d changed, and of it only what is on its way to a neighbour. *)
OnlyControl(s, t, d) ==
  /\ t \in Switch
  /\ SameBooks(s, t) /\ SameOrders(s, t) /\ t.failed = s.failed
  /\ \A e \in Port, q \in Queue : t.m_queues[e][q] = s.m_queues[e][q]
  /\ \A e \in Port : e # d => SameDevice(s, t, e)

(* A free device starts the head of its queue 0. *)
LEMMA HeadSent ==
  ASSUME NEW s \in Switch, NEW d \in Port, s.m_txMachineState[d] = "READY",
         s.m_queues[d][0] # <<>>
  PROVE  LET t == TransmitStart(Dequeued(s, d, 0), d, Head(s.m_queues[d][0]))
         IN  /\ OnlyControl(s, t, d) /\ t.paused = s.paused
             /\ t.m_txMachineState[d] = "BUSY"
             /\ \A q, a, b : Leads(Pipe(s, d), q, a, b) => Leads(Pipe(t, d), q, a, b)
<1> DEFINE p == Head(s.m_queues[d][0])
           r == Dequeued(s, d, 0)
           t == TransmitStart(r, d, p)
<1>1. /\ r \in Switch
      /\ r.m_queues = Put2(s.m_queues, d, 0, Tail(s.m_queues[d][0]))
      /\ SameBooks(s, r) /\ SameOrders(s, r) /\ r.paused = s.paused
      /\ r.wire_out = s.wire_out
      /\ r.m_txMachineState = s.m_txMachineState /\ r.failed = s.failed
  BY DequeuedDoes, Indices
<1>2. p \in InFrame
  BY SwitchFields, QueuesShrink, Indices
<1> HIDE DEF r, p
<1>3. /\ t \in Switch
      /\ SameBooks(r, t) /\ SameOrders(r, t) /\ t.paused = r.paused
      /\ t.m_queues = r.m_queues
      /\ t.m_txMachineState = Put(r.m_txMachineState, d, "BUSY")
      /\ t.wire_out = Put(r.wire_out, d, Append(r.wire_out[d], OnWire(p)))
      /\ t.failed = r.failed
  <2>1. r.m_txMachineState[d] = "READY"
    BY <1>1
  <2> QED BY <1>1, <1>2, <2>1, TransmitStartDoes
<1> HIDE DEF t
<1>4. s.m_queues \in Queues /\ s.m_txMachineState \in States /\ s.wire_out \in Wires
  BY SwitchFields
<1>5. /\ SameBooks(s, t) /\ SameOrders(s, t) /\ t.failed = s.failed /\ t.paused = s.paused
  BY <1>1, <1>3 DEF SameBooks, SameOrders
<1>6. /\ \A e \in Port, q \in Queue : t.m_queues[e][q] = s.m_queues[e][q]
      /\ t.m_queues[d][0] = Tail(s.m_queues[d][0])
      /\ \A e \in Port : e # d => t.m_queues[e] = s.m_queues[e]
  <2>1. s.m_queues \in [Port -> [QIndex -> Seq(InFrame)]]
    BY <1>4 DEF Queues
  <2>2. t.m_queues = Put2(s.m_queues, d, 0, Tail(s.m_queues[d][0]))
    BY <1>1, <1>3
  <2>3. Tail(s.m_queues[d][0]) \in Seq(InFrame)
    BY <2>1, HeadTailProperties, Indices
  <2>4. \A e \in Port, q \in Queue : q \in QIndex /\ q # 0
    BY Indices
  <2>5. /\ t.m_queues[d][0] = Tail(s.m_queues[d][0])
        /\ \A e \in Port, q \in QIndex : e # d \/ q # 0 => t.m_queues[e][q] = s.m_queues[e][q]
        /\ \A e \in Port : e # d => t.m_queues[e] = s.m_queues[e]
    <3>1. 0 \in QIndex /\ s.m_queues \in Queues
      BY <1>4, Indices
    <3> DEFINE v == Tail(s.m_queues[d][0])
    <3>2. v \in Seq(InFrame) /\ t.m_queues = Put2(s.m_queues, d, 0, v)
      BY <2>2, <2>3
    <3> HIDE DEF v
    <3>3. /\ t.m_queues[d][0] = v
          /\ \A e \in Port, q \in QIndex : e # d \/ q # 0 => t.m_queues[e][q] = s.m_queues[e][q]
          /\ \A e \in Port : e # d => t.m_queues[e] = s.m_queues[e]
      BY <3>1, <3>2, QueuePut
    <3> QED BY <3>3 DEF v
  <2> QED BY <2>4, <2>5
<1>7. /\ \A e \in Port : e # d => /\ t.m_txMachineState[e] = s.m_txMachineState[e]
                                  /\ t.wire_out[e] = s.wire_out[e]
      /\ t.m_txMachineState[d] = "BUSY"
      /\ t.wire_out[d] = Append(s.wire_out[d], OnWire(p))
  BY <1>1, <1>3, <1>4 DEF States, Wires, Put
<1>8. \A q, a, b : Leads(Pipe(s, d), q, a, b) => Leads(Pipe(t, d), q, a, b)
  BY <1>3, <1>6, <1>7, PipeMoved DEF p
<1>9. OnlyControl(s, t, d)
  BY <1>3, <1>5, <1>6, <1>7 DEF OnlyControl, SameDevice
<1> QED BY <1>5, <1>7, <1>8, <1>9 DEF t, r, p

LEMMA SendPfcDoes ==
  ASSUME NEW s \in Switch, NEW d \in Port, NEW kind \in PfcKind, NEW q \in Queue
  PROVE  LET t == SendPfc(s, d, kind, q)
         IN  /\ OnlyControl(s, t, d) /\ t.paused = s.paused
             /\ ~s.m_linkUp[d] \/ t.m_txMachineState[d] = "BUSY"
             /\ \A r \in Queue, a \in BOOLEAN, b \in BOOLEAN :
                  Leads(Pipe(s, d), r, a, b) /\ Changes(Pfc(kind, q), r, b)
                    => Leads(Pipe(t, d), r, a, After(Pfc(kind, q), r, b))
<1> DEFINE p == Pfc(kind, q)
           e == Enqueued(s, d, 0, p)
           t == SendPfc(s, d, kind, q)
<1>1. p \in InFrame
  BY DEF Pfc, InFrame, PfcFrame
<1> HIDE DEF p
<1>2. /\ e \in Switch
      /\ e.m_queues = Put2(s.m_queues, d, 0, Append(s.m_queues[d][0], p))
      /\ SameBooks(s, e) /\ SameOrders(s, e) /\ e.paused = s.paused
      /\ e.wire_out = s.wire_out
      /\ e.m_txMachineState = s.m_txMachineState /\ e.failed = s.failed
  BY <1>1, EnqueuedDoes, Indices
<1>3. t = IF ~s.m_linkUp[d] \/ e.m_txMachineState[d] = "BUSY" THEN e
          ELSE TransmitStart(Dequeued(e, d, 0), d, Head(e.m_queues[d][0]))
  BY DEF SendPfc, p
<1> HIDE DEF e, t
<1>4. s.m_queues \in Queues /\ e.m_txMachineState \in States
  BY <1>2, SwitchFields
<1>5. /\ \A x \in Port, r \in Queue : e.m_queues[x][r] = s.m_queues[x][r]
      /\ e.m_queues[d][0] = Append(s.m_queues[d][0], p)
      /\ \A x \in Port : x # d => e.m_queues[x] = s.m_queues[x]
  <2>1. s.m_queues \in [Port -> [QIndex -> Seq(InFrame)]]
    BY <1>4 DEF Queues
  <2>2. Append(s.m_queues[d][0], p) \in Seq(InFrame)
    <3>1. s.m_queues[d][0] \in Seq(InFrame)
      BY <2>1, Indices
    <3> QED BY <1>1, <3>1, AppendProperties
  <2>3. \A x \in Port, r \in Queue : r \in QIndex /\ r # 0
    BY Indices
  <2>4. /\ e.m_queues[d][0] = Append(s.m_queues[d][0], p)
        /\ \A x \in Port, r \in QIndex : x # d \/ r # 0 => e.m_queues[x][r] = s.m_queues[x][r]
        /\ \A x \in Port : x # d => e.m_queues[x] = s.m_queues[x]
    <3>1. 0 \in QIndex /\ s.m_queues \in Queues
      BY <1>4, Indices
    <3> DEFINE v == Append(s.m_queues[d][0], p)
    <3>2. v \in Seq(InFrame) /\ e.m_queues = Put2(s.m_queues, d, 0, v)
      BY <1>2, <2>2
    <3> HIDE DEF v
    <3>3. /\ e.m_queues[d][0] = v
          /\ \A x \in Port, r \in QIndex : x # d \/ r # 0 => e.m_queues[x][r] = s.m_queues[x][r]
          /\ \A x \in Port : x # d => e.m_queues[x] = s.m_queues[x]
      BY <3>1, <3>2, QueuePut
    <3> QED BY <3>3 DEF v
  <2> QED BY <2>3, <2>4
<1>6. OnlyControl(s, e, d)
  BY <1>2, <1>5 DEF OnlyControl, SameDevice
<1>7. \A r \in Queue, a \in BOOLEAN, b \in BOOLEAN :
        Leads(Pipe(s, d), r, a, b) /\ Changes(p, r, b)
          => Leads(Pipe(e, d), r, a, After(p, r, b))
  BY <1>1, <1>2, <1>5, PipeJoined
<1>8. CASE ~s.m_linkUp[d] \/ e.m_txMachineState[d] = "BUSY"
  BY <1>2, <1>3, <1>6, <1>7, <1>8 DEF t, p
<1>9. CASE ~(~s.m_linkUp[d] \/ e.m_txMachineState[d] = "BUSY")
  <2>1. e.m_txMachineState[d] = "READY"
    BY <1>4, <1>9 DEF States
  <2>2. e.m_queues[d][0] # <<>>
    <3>1. s.m_queues[d][0] \in Seq(InFrame)
      BY <1>4, Indices DEF Queues
    <3> QED BY <1>1, <1>5, <3>1, AppendProperties
  <2>3. t = TransmitStart(Dequeued(e, d, 0), d, Head(e.m_queues[d][0]))
    BY <1>3, <1>9
  <2>4. /\ OnlyControl(e, t, d) /\ t.paused = e.paused
        /\ t.m_txMachineState[d] = "BUSY"
        /\ \A r, a, b : Leads(Pipe(e, d), r, a, b) => Leads(Pipe(t, d), r, a, b)
    BY <1>2, <2>1, <2>2, <2>3, HeadSent
  <2>5. OnlyControl(s, t, d)
    BY <1>6, <2>4 DEF OnlyControl, SameBooks, SameOrders, SameDevice
  <2> QED BY <1>2, <1>7, <2>4, <2>5 DEF t, p
<1> QED BY <1>8, <1>9

(* A decision of the MMU reaches the neighbour of port i on the way that    *)
(* leads from what the neighbour does to what the MMU decided.             *)
Signalled(s, t, i) ==
  /\ OnlyControl(s, t, i)
  /\ SameDevice(s, t, i) \/ ~s.m_linkUp[i] \/ t.m_txMachineState[i] = "BUSY"
  /\ \A d \in Port, q \in Queue, a \in BOOLEAN :
       Leads(Pipe(s, d), q, a, s.paused[d][q]) => Leads(Pipe(t, d), q, a, t.paused[d][q])

LEMMA PfcSignals ==
  ASSUME NEW s \in Switch, NEW i \in Port, NEW kind \in PfcKind, NEW q \in Queue,
         s.paused[i][q] # (kind = "pause")
  PROVE  Signalled(s, [SendPfc(s, i, kind, q) EXCEPT !.paused[i][q] = (kind = "pause")], i)
<1> DEFINE r == SendPfc(s, i, kind, q)
           v == (kind = "pause")
           g == [s.paused EXCEPT ![i] = [s.paused[i] EXCEPT ![q] = v]]
           t == [r EXCEPT !.paused[i][q] = v]
           p == Pfc(kind, q)
<1>1. /\ OnlyControl(s, r, i) /\ r.paused = s.paused
      /\ ~s.m_linkUp[i] \/ r.m_txMachineState[i] = "BUSY"
      /\ \A x \in Queue, a \in BOOLEAN, b \in BOOLEAN :
           Leads(Pipe(s, i), x, a, b) /\ Changes(p, x, b)
             => Leads(Pipe(r, i), x, a, After(p, x, b))
  BY SendPfcDoes
<1> HIDE DEF r
<1>2. r \in Switch /\ s.paused \in Flags /\ g \in Flags
  <2>1. s.paused \in Flags
    BY SwitchFields
  <2> QED BY <1>1, <2>1 DEF OnlyControl, Flags
<1>3. t = [r EXCEPT !.paused = g]
  BY <1>1, <1>2 DEF Switch, Flags
<1> HIDE DEF t, g
<1>4. t \in Switch /\ t.paused = g
  BY <1>2, <1>3 DEF Switch
<1>5. SameBooks(r, t) /\ SameOrders(r, t) /\ SameTransmission(r, t)
  BY <1>2, <1>3 DEF Switch, SameBooks, SameOrders, SameTransmission
<1>6. OnlyControl(s, t, i)
  BY <1>1, <1>4, <1>5
     DEF OnlyControl, SameBooks, SameOrders, SameTransmission, SameDevice
<1>7. \A d \in Port : Pipe(t, d) = Pipe(r, d)
  BY <1>5 DEF SameTransmission, Pipe
<1>8. \A d \in Port : d # i => Pipe(r, d) = Pipe(s, d)
  BY <1>1 DEF OnlyControl, SameDevice, Pipe
<1>9. /\ \A d \in Port, x \in Queue : s.paused[d][x] \in BOOLEAN
      /\ \A d \in Port, x \in Queue : d # i \/ x # q => t.paused[d][x] = s.paused[d][x]
      /\ t.paused[i][q] = v
  BY <1>2, <1>4 DEF g, Flags
<1>10. \A x \in Queue : /\ Changes(p, x, s.paused[i][x])
                        /\ t.paused[i][x] = After(p, x, s.paused[i][x])
  <2>1. p.kind = kind /\ p.q = q
    BY DEF Pfc
  <2> HIDE DEF p
  <2>2. ASSUME NEW x \in Queue, x # q
        PROVE  Changes(p, x, s.paused[i][x]) /\ t.paused[i][x] = After(p, x, s.paused[i][x])
    BY <1>9, <2>1, <2>2, Zenon DEF Changes, After
  <2>3. Changes(p, q, s.paused[i][q]) /\ t.paused[i][q] = After(p, q, s.paused[i][q])
    BY <1>9, <2>1, Zenon DEF Changes, After
  <2> QED BY <2>2, <2>3
<1>11. ASSUME NEW d \in Port, NEW x \in Queue, NEW a \in BOOLEAN,
              Leads(Pipe(s, d), x, a, s.paused[d][x])
       PROVE  Leads(Pipe(t, d), x, a, t.paused[d][x])
  <2> HIDE DEF p, v
  <2>1. CASE d = i
    <3>1. /\ Leads(Pipe(s, i), x, a, s.paused[i][x]) /\ s.paused[i][x] \in BOOLEAN
          /\ Changes(p, x, s.paused[i][x])
      BY <1>9, <1>10, <1>11, <2>1
    <3>2. Leads(Pipe(r, i), x, a, After(p, x, s.paused[i][x]))
      BY <1>1, <3>1, SMTT(30)
    <3> QED BY <1>7, <1>10, <2>1, <3>2, Zenon
  <2>2. CASE d # i
    BY <1>7, <1>8, <1>9, <1>11, <2>2, Zenon
  <2> QED BY <2>1, <2>2
<1>12. ~s.m_linkUp[i] \/ t.m_txMachineState[i] = "BUSY"
  BY <1>1, <1>5 DEF SameTransmission
<1> QED BY <1>6, <1>11, <1>12 DEF Signalled, t, r

LEMMA NothingSignalled ==
  ASSUME NEW s \in Switch, NEW i \in Port
  PROVE  Signalled(s, s, i)
BY DEF Signalled, OnlyControl, SameBooks, SameOrders, SameDevice

LEMMA PauseSignals ==
  ASSUME NEW s \in Switch, NEW i \in Port, NEW q \in Queue
  PROVE  Signalled(s, CheckAndSendPfc(s, i, q), i)
<1>1. M(s)!CheckShouldPause(i, s.paused[i][q], s.hdrm_bytes[i][q],
                            s.ingress_bytes[i][q], s.shared_used_bytes)
        => s.paused[i][q] = FALSE
  <2>1. s.paused[i][q] \in BOOLEAN
    BY SwitchFields DEF Flags
  <2> QED BY <2>1 DEF M!CheckShouldPause
<1>2. s.paused[i][q] = FALSE
        => Signalled(s, [SendPfc(s, i, "pause", q) EXCEPT !.paused[i][q] = TRUE], i)
  <2>1. "pause" \in PfcKind /\ ("pause" = "pause") = TRUE
    BY DEF PfcKind
  <2> QED BY <2>1, PfcSignals
<1> QED BY <1>1, <1>2, NothingSignalled DEF CheckAndSendPfc

LEMMA ResumeSignals ==
  ASSUME NEW s \in Switch, NEW i \in Port, NEW q \in Queue
  PROVE  Signalled(s, CheckAndSendResume(s, i, q), i)
<1>1. M(s)!CheckShouldResume(i, s.paused[i][q], s.hdrm_bytes[i][q],
                             s.ingress_bytes[i][q], s.shared_used_bytes)
        => s.paused[i][q] = TRUE
  <2>1. s.paused[i][q] \in BOOLEAN
    BY SwitchFields DEF Flags
  <2> QED BY <2>1 DEF M!CheckShouldResume
<1>2. s.paused[i][q] = TRUE
        => Signalled(s, [SendPfc(s, i, "resume", q) EXCEPT !.paused[i][q] = FALSE], i)
  <2>1. "resume" \in PfcKind /\ ("resume" = "pause") = FALSE
    BY DEF PfcKind
  <2> QED BY <2>1, PfcSignals
<1> QED BY <1>1, <1>2, NothingSignalled DEF CheckAndSendResume

-----------------------------------------------------------------------------
(* The books: what the MMU and the byte matrix charge to ports and queues. *)

Beyond(n) == IF n > Reserve THEN n - Reserve ELSE 0
Pool(ingress) == [i \in Port |-> [q \in Queue |-> Beyond(ingress[i][q])]]
FromPort(bytes, i, q) == SumTo([o \in Port |-> bytes[i][o][q]], NPort)
ForPort(bytes, o, q) == SumTo([i \in Port |-> bytes[i][o][q]], NPort)

(* The counters of the MMU are natural and say the same as the byte matrix. *)
Books(s) ==
  /\ \A i \in Port, q \in Queue :
       /\ s.hdrm_bytes[i][q] >= 0 /\ s.ingress_bytes[i][q] >= 0
       /\ s.hdrm_bytes[i][q] + s.ingress_bytes[i][q] = FromPort(s.m_bytes, i, q)
  /\ \A o \in Port, q \in Queue : s.egress_bytes[o][q] = ForPort(s.m_bytes, o, q)
  /\ s.shared_used_bytes = TableSum(Pool(s.ingress_bytes), NPort, NQueue)
  /\ \A i, o \in Port, q \in QIndex : s.m_bytes[i][o][q] >= 0

LEMMA SharedUsedIs ==
  ASSUME NEW s, NEW n
  PROVE  M(s)!SharedUsed(n) = Beyond(n)
BY DEF M!SharedUsed, Beyond

LEMMA BeyondTyped ==
  ASSUME NEW n \in Int
  PROVE  Beyond(n) \in Nat
BY SwitchConfig DEF Beyond

(* The cell of i, o and q changes by n bytes. *)
Shifted(old, new, i, o, q, n) ==
  \A j, p \in Port, r \in QIndex :
    new[j][p][r] = old[j][p][r] + (IF j = i /\ p = o /\ r = q THEN n ELSE 0)

(* Changing the term of one port changes a sum over the ports by as much.  *)
LEMMA PortSum ==
  ASSUME NEW f \in [Port -> Int]
  PROVE  /\ SumTo(f, NPort) \in Int
         /\ \A h \in [Port -> Int], k \in Port :
              (\A j \in Port : j # k => h[j] = f[j])
                => SumTo(h, NPort) = SumTo(f, NPort) + h[k] - f[k]
BY SumToType, SumToUpdate, SwitchConfig DEF Port

LEMMA SumsShifted ==
  ASSUME NEW old \in Matrix, NEW new \in Matrix, NEW i \in Port, NEW o \in Port,
         NEW q \in QIndex, NEW n \in Int, Shifted(old, new, i, o, q, n)
  PROVE  /\ \A j \in Port, r \in QIndex :
              /\ FromPort(old, j, r) \in Int
              /\ FromPort(new, j, r) = FromPort(old, j, r) + (IF j = i /\ r = q THEN n ELSE 0)
         /\ \A p \in Port, r \in QIndex :
              /\ ForPort(old, p, r) \in Int
              /\ ForPort(new, p, r) = ForPort(old, p, r) + (IF p = o /\ r = q THEN n ELSE 0)
<1>1. ASSUME NEW j \in Port, NEW r \in QIndex
      PROVE  /\ FromPort(old, j, r) \in Int
             /\ FromPort(new, j, r) = FromPort(old, j, r) + (IF j = i /\ r = q THEN n ELSE 0)
  <2> DEFINE f == [p \in Port |-> old[j][p][r]]
             h == [p \in Port |-> new[j][p][r]]
  <2>1. \A p \in Port : old[j][p][r] \in Int /\ new[j][p][r] \in Int
    BY DEF Matrix
  <2>2. f \in [Port -> Int] /\ h \in [Port -> Int]
    BY <2>1
  <2>3. FromPort(old, j, r) = SumTo(f, NPort) /\ FromPort(new, j, r) = SumTo(h, NPort)
    BY DEF FromPort
  <2>4. CASE j = i /\ r = q
    <3>1. \A p \in Port : p # o => h[p] = f[p]
      BY <2>1, <2>4 DEF Shifted
    <3>2. h[o] = f[o] + n /\ f[o] \in Int
      BY <2>1, <2>4 DEF Shifted
    <3> HIDE DEF f, h
    <3>3. SumTo(h, NPort) = SumTo(f, NPort) + h[o] - f[o] /\ SumTo(f, NPort) \in Int
      BY <2>2, <3>1, PortSum
    <3> QED BY <2>3, <2>4, <3>2, <3>3
  <2>5. CASE ~(j = i /\ r = q)
    <3>1. \A p \in Port : new[j][p][r] = old[j][p][r]
      BY <2>1, <2>5 DEF Shifted
    <3>2. h = f
      BY <3>1
    <3> HIDE DEF f, h
    <3>3. SumTo(f, NPort) \in Int
      BY <2>2, PortSum
    <3> QED BY <2>3, <2>5, <3>2, <3>3
  <2> QED BY <2>4, <2>5
<1>2. ASSUME NEW p \in Port, NEW r \in QIndex
      PROVE  /\ ForPort(old, p, r) \in Int
             /\ ForPort(new, p, r) = ForPort(old, p, r) + (IF p = o /\ r = q THEN n ELSE 0)
  <2> DEFINE f == [j \in Port |-> old[j][p][r]]
             h == [j \in Port |-> new[j][p][r]]
  <2>1. \A j \in Port : old[j][p][r] \in Int /\ new[j][p][r] \in Int
    BY DEF Matrix
  <2>2. f \in [Port -> Int] /\ h \in [Port -> Int]
    BY <2>1
  <2>3. ForPort(old, p, r) = SumTo(f, NPort) /\ ForPort(new, p, r) = SumTo(h, NPort)
    BY DEF ForPort
  <2>4. CASE p = o /\ r = q
    <3>1. \A j \in Port : j # i => h[j] = f[j]
      BY <2>1, <2>4 DEF Shifted
    <3>2. h[i] = f[i] + n /\ f[i] \in Int
      BY <2>1, <2>4 DEF Shifted
    <3> HIDE DEF f, h
    <3>3. SumTo(h, NPort) = SumTo(f, NPort) + h[i] - f[i] /\ SumTo(f, NPort) \in Int
      BY <2>2, <3>1, PortSum
    <3> QED BY <2>3, <2>4, <3>2, <3>3
  <2>5. CASE ~(p = o /\ r = q)
    <3>1. \A j \in Port : new[j][p][r] = old[j][p][r]
      BY <2>1, <2>5 DEF Shifted
    <3>2. h = f
      BY <3>1
    <3> HIDE DEF f, h
    <3>3. SumTo(f, NPort) \in Int
      BY <2>2, PortSum
    <3> QED BY <2>3, <2>5, <3>2, <3>3
  <2> QED BY <2>4, <2>5
<1> QED BY <1>1, <1>2

(* The counters of port i in queue q change by n bytes together. *)
Counted(s, t, i, q, n) ==
  /\ t.hdrm_bytes[i][q] >= 0 /\ t.ingress_bytes[i][q] >= 0
  /\ t.hdrm_bytes[i][q] + t.ingress_bytes[i][q]
       = s.hdrm_bytes[i][q] + s.ingress_bytes[i][q] + n
  /\ t.shared_used_bytes
       = s.shared_used_bytes + Beyond(t.ingress_bytes[i][q]) - Beyond(s.ingress_bytes[i][q])
  /\ \A j \in Port, r \in Queue : j # i \/ r # q =>
       /\ t.hdrm_bytes[j][r] = s.hdrm_bytes[j][r]
       /\ t.ingress_bytes[j][r] = s.ingress_bytes[j][r]

(* The books stay in balance when the counters, the egress counter and the  *)
(* byte matrix move by the same number of bytes.                           *)
LEMMA BooksMove ==
  ASSUME NEW s \in Switch, NEW t \in Switch, NEW i \in Port, NEW o \in Port,
         NEW q \in Queue, NEW n \in Int, Books(s), Counted(s, t, i, q, n),
         \A p \in Port, r \in Queue :
           t.egress_bytes[p][r] = s.egress_bytes[p][r] + (IF p = o /\ r = q THEN n ELSE 0),
         Shifted(s.m_bytes, t.m_bytes, i, o, q, n), s.m_bytes[i][o][q] + n >= 0
  PROVE  Books(t)
<1>1. /\ s.hdrm_bytes \in Table /\ s.ingress_bytes \in Table /\ s.egress_bytes \in Table
      /\ t.hdrm_bytes \in Table /\ t.ingress_bytes \in Table /\ t.egress_bytes \in Table
      /\ s.m_bytes \in Matrix /\ t.m_bytes \in Matrix /\ s.shared_used_bytes \in Int
  BY SwitchFields
<1>2. /\ \A j \in Port, r \in Queue :
           /\ FromPort(s.m_bytes, j, r) \in Int
           /\ FromPort(t.m_bytes, j, r)
                = FromPort(s.m_bytes, j, r) + (IF j = i /\ r = q THEN n ELSE 0)
      /\ \A p \in Port, r \in Queue :
           /\ ForPort(s.m_bytes, p, r) \in Int
           /\ ForPort(t.m_bytes, p, r)
                = ForPort(s.m_bytes, p, r) + (IF p = o /\ r = q THEN n ELSE 0)
  <2>1. q \in QIndex /\ \A r \in Queue : r \in QIndex
    BY Indices
  <2> QED BY <1>1, <2>1, SumsShifted
<1>3. ASSUME NEW j \in Port, NEW r \in Queue
      PROVE  /\ t.hdrm_bytes[j][r] >= 0 /\ t.ingress_bytes[j][r] >= 0
             /\ t.hdrm_bytes[j][r] + t.ingress_bytes[j][r] = FromPort(t.m_bytes, j, r)
  <2>1. /\ s.hdrm_bytes[j][r] >= 0 /\ s.ingress_bytes[j][r] >= 0
        /\ s.hdrm_bytes[j][r] + s.ingress_bytes[j][r] = FromPort(s.m_bytes, j, r)
    BY DEF Books
  <2>2. CASE j = i /\ r = q
    BY <1>2, <2>1, <2>2 DEF Counted
  <2>3. CASE j # i \/ r # q
    <3>1. FromPort(t.m_bytes, j, r) = FromPort(s.m_bytes, j, r) + 0 /\ FromPort(s.m_bytes, j, r) \in Int
      BY <1>2, <2>3
    <3> QED BY <2>1, <2>3, <3>1 DEF Counted
  <2> QED BY <2>2, <2>3
<1>4. \A p \in Port, r \in Queue : t.egress_bytes[p][r] = ForPort(t.m_bytes, p, r)
  BY <1>2 DEF Books
<1>5. t.shared_used_bytes = TableSum(Pool(t.ingress_bytes), NPort, NQueue)
  <2> DEFINE ps == Pool(s.ingress_bytes)
             pt == Pool(t.ingress_bytes)
  <2>1. \A j \in Port, r \in Queue :
          Beyond(s.ingress_bytes[j][r]) \in Int /\ Beyond(t.ingress_bytes[j][r]) \in Int
    BY <1>1, BeyondTyped DEF Table
  <2>2. /\ ps \in [1..NPort -> [1..NQueue -> Int]] /\ pt \in [1..NPort -> [1..NQueue -> Int]]
    BY <2>1, Indices DEF Pool
  <2>3. /\ \A j \in 1..NPort, r \in 1..NQueue : j # i \/ r # q => pt[j][r] = ps[j][r]
        /\ pt[i][q] = Beyond(t.ingress_bytes[i][q])
        /\ ps[i][q] = Beyond(s.ingress_bytes[i][q])
    BY Indices DEF Pool, Counted
  <2>4. i \in 1..NPort /\ q \in 1..NQueue
    BY Indices
  <2> HIDE DEF ps, pt
  <2>5. TableSum(pt, NPort, NQueue) = TableSum(ps, NPort, NQueue) + pt[i][q] - ps[i][q]
    <3>1. NPort \in Nat /\ NQueue \in Nat
      BY Indices
    <3> QED BY <2>2, <2>3, <2>4, <3>1, TableUpdate
  <2>6. s.shared_used_bytes = TableSum(ps, NPort, NQueue)
    BY DEF Books, ps
  <2> QED BY <2>3, <2>5, <2>6 DEF Counted, pt
<1>6. \A j, p \in Port, r \in QIndex : t.m_bytes[j][p][r] >= 0
  <2>1. \A j, p \in Port, r \in QIndex : s.m_bytes[j][p][r] \in Int /\ s.m_bytes[j][p][r] >= 0
    BY <1>1 DEF Books, Matrix
  <2> QED BY <2>1 DEF Shifted
<1> QED BY <1>3, <1>4, <1>5, <1>6 DEF Books

(* Only the books change. *)
OnlyBooks(s, t) ==
  /\ t \in Switch
  /\ SameOrders(s, t) /\ SameTransmission(s, t) /\ t.paused = s.paused

SameStore(s, t) == t.egress_bytes = s.egress_bytes /\ t.m_bytes = s.m_bytes

(* A packet is charged to the headroom, or to reserve and pool. *)
LEMMA UpdateDoes ==
  ASSUME NEW s \in Switch, NEW i \in Port, NEW q \in Queue, NEW n \in Nat, Books(s)
  PROVE  LET t == UpdateIngressAdmission(s, i, q, n)
         IN  OnlyBooks(s, t) /\ SameStore(s, t) /\ Counted(s, t, i, q, n)
<1> DEFINE t == UpdateIngressAdmission(s, i, q, n)
           hdrm == s.hdrm_bytes[i][q]
           ing == s.ingress_bytes[i][q]
           more == Smaller(n, Beyond(ing + n))
<1>1. /\ s.hdrm_bytes \in Table /\ s.ingress_bytes \in Table /\ s.shared_used_bytes \in Int
      /\ hdrm \in Int /\ ing \in Int /\ hdrm >= 0 /\ ing >= 0
  <2>1. s.hdrm_bytes \in Table /\ s.ingress_bytes \in Table /\ s.shared_used_bytes \in Int
    BY SwitchFields
  <2> QED BY <2>1 DEF Table, Books
<1>2. more \in Int /\ more = Beyond(ing + n) - Beyond(ing)
  BY <1>1, SwitchConfig DEF Smaller, Beyond
<1>3. CASE M(s)!ToHeadroom(i, q, n)
  <2> DEFINE h == Put2(s.hdrm_bytes, i, q, hdrm + n)
  <2>1. t = [s EXCEPT !.hdrm_bytes = h]
    BY <1>1, <1>3 DEF UpdateIngressAdmission, Switch, Table, Put2
  <2>2. /\ h \in Table /\ h[i][q] = hdrm + n
        /\ \A j \in Port, r \in Queue : j # i \/ r # q => h[j][r] = s.hdrm_bytes[j][r]
    <3> DEFINE v == hdrm + n
    <3>1. v \in Int
      BY <1>1
    <3> HIDE DEF v
    <3>2. h = Put2(s.hdrm_bytes, i, q, v)
      BY DEF v
    <3> HIDE DEF h
    <3>3. /\ h \in Table /\ h[i][q] = v
          /\ \A j \in Port, r \in Queue : j # i \/ r # q => h[j][r] = s.hdrm_bytes[j][r]
      BY <1>1, <3>1, <3>2 DEF Put2, Table
    <3> QED BY <3>3 DEF v
  <2> HIDE DEF h, t
  <2>3. t \in Switch /\ t.hdrm_bytes = h /\ t.ingress_bytes = s.ingress_bytes
        /\ t.shared_used_bytes = s.shared_used_bytes
    BY <2>1, <2>2 DEF Switch
  <2>4. OnlyBooks(s, t) /\ SameStore(s, t)
    BY <2>1, <2>3 DEF Switch, OnlyBooks, SameOrders, SameTransmission, SameStore
  <2>5. Beyond(ing) \in Int
    BY <1>1, BeyondTyped
  <2>6. Counted(s, t, i, q, n)
    <3> HIDE DEF more
    <3> QED BY <1>1, <2>2, <2>3, <2>5 DEF Counted
  <2> QED BY <2>4, <2>6 DEF t
<1>4. CASE ~M(s)!ToHeadroom(i, q, n)
  <2> DEFINE g == Put2(s.ingress_bytes, i, q, ing + n)
             u == s.shared_used_bytes + more
  <2>1. t = [s EXCEPT !.ingress_bytes = g, !.shared_used_bytes = u]
    BY <1>1, <1>4, SharedUsedIs DEF UpdateIngressAdmission, Switch, Table, Put2
  <2>2. /\ g \in Table /\ g[i][q] = ing + n
        /\ \A j \in Port, r \in Queue : j # i \/ r # q => g[j][r] = s.ingress_bytes[j][r]
    <3> DEFINE v == ing + n
    <3>1. v \in Int
      BY <1>1
    <3> HIDE DEF v
    <3>2. g = Put2(s.ingress_bytes, i, q, v)
      BY DEF v
    <3> HIDE DEF g
    <3>3. /\ g \in Table /\ g[i][q] = v
          /\ \A j \in Port, r \in Queue : j # i \/ r # q => g[j][r] = s.ingress_bytes[j][r]
      BY <1>1, <3>1, <3>2 DEF Put2, Table
    <3> QED BY <3>3 DEF v
  <2>3. u \in Int /\ u = s.shared_used_bytes + Beyond(ing + n) - Beyond(ing)
    <3>1. Beyond(ing + n) \in Int /\ Beyond(ing) \in Int
      BY <1>1, BeyondTyped
    <3> HIDE DEF more
    <3> QED BY <1>1, <1>2, <3>1
  <2> HIDE DEF g, t, u
  <2>4. t \in Switch /\ t.hdrm_bytes = s.hdrm_bytes /\ t.ingress_bytes = g
        /\ t.shared_used_bytes = u
    BY <2>1, <2>2, <2>3 DEF Switch
  <2>5. OnlyBooks(s, t) /\ SameStore(s, t)
    BY <2>1, <2>4 DEF Switch, OnlyBooks, SameOrders, SameTransmission, SameStore
  <2>6. Counted(s, t, i, q, n)
    <3> HIDE DEF more
    <3> QED BY <1>1, <2>2, <2>3, <2>4 DEF Counted
  <2> QED BY <2>5, <2>6 DEF t
<1> QED BY <1>3, <1>4

(* A packet is discharged from the headroom first, and from pool and        *)
(* reserve for the rest. *)
LEMMA RemoveDoes ==
  ASSUME NEW s \in Switch, NEW i \in Port, NEW q \in Queue, NEW n \in Nat, Books(s),
         n <= s.hdrm_bytes[i][q] + s.ingress_bytes[i][q]
  PROVE  LET t == RemoveFromIngressAdmission(s, i, q, n)
         IN  OnlyBooks(s, t) /\ SameStore(s, t) /\ Counted(s, t, i, q, -n)
<1> DEFINE t == RemoveFromIngressAdmission(s, i, q, n)
           hdrm == s.hdrm_bytes[i][q]
           ing == s.ingress_bytes[i][q]
           from_hdrm == Smaller(hdrm, n)
           less == Smaller(n - from_hdrm, Beyond(ing))
<1>1. /\ s.hdrm_bytes \in Table /\ s.ingress_bytes \in Table /\ s.shared_used_bytes \in Int
      /\ hdrm \in Int /\ ing \in Int /\ hdrm >= 0 /\ ing >= 0
  <2>1. s.hdrm_bytes \in Table /\ s.ingress_bytes \in Table /\ s.shared_used_bytes \in Int
    BY SwitchFields
  <2> QED BY <2>1 DEF Table, Books
<1>2. /\ from_hdrm \in Nat /\ from_hdrm <= hdrm /\ from_hdrm <= n
      /\ n - from_hdrm <= ing
  BY <1>1 DEF Smaller
<1>3. less \in Int /\ less = Beyond(ing) - Beyond(ing - (n - from_hdrm))
  <2> HIDE DEF hdrm, ing, from_hdrm
  <2> QED BY <1>1, <1>2, SwitchConfig DEF Smaller, Beyond
<1> DEFINE h == Put2(s.hdrm_bytes, i, q, hdrm - from_hdrm)
           g == Put2(s.ingress_bytes, i, q, ing - (n - from_hdrm))
           u == s.shared_used_bytes - less
<1>4. t = [s EXCEPT !.hdrm_bytes = h, !.ingress_bytes = g, !.shared_used_bytes = u]
  <2>1. M(s)!FromHeadroom(i, q, n) = from_hdrm
    BY DEF M!FromHeadroom, M!Smaller, Smaller
  <2>2. M(s)!SharedUsed(ing) = Beyond(ing)
    BY SharedUsedIs
  <2> HIDE DEF from_hdrm
  <2> QED BY <1>1, <2>1, <2>2 DEF RemoveFromIngressAdmission, Switch, Table, Put2
<1>5. /\ h \in Table /\ h[i][q] = hdrm - from_hdrm
      /\ \A j \in Port, r \in Queue : j # i \/ r # q => h[j][r] = s.hdrm_bytes[j][r]
      /\ g \in Table /\ g[i][q] = ing - (n - from_hdrm)
      /\ \A j \in Port, r \in Queue : j # i \/ r # q => g[j][r] = s.ingress_bytes[j][r]
  <2>1. hdrm - from_hdrm \in Int /\ ing - (n - from_hdrm) \in Int
    BY <1>1, <1>2
  <2> DEFINE v == hdrm - from_hdrm
             w == ing - (n - from_hdrm)
  <2>2. h = Put2(s.hdrm_bytes, i, q, v) /\ g = Put2(s.ingress_bytes, i, q, w)
        /\ v \in Int /\ w \in Int
    BY <2>1
  <2> HIDE DEF v, w, h, g
  <2>3. /\ h \in Table /\ h[i][q] = v
        /\ \A j \in Port, r \in Queue : j # i \/ r # q => h[j][r] = s.hdrm_bytes[j][r]
        /\ g \in Table /\ g[i][q] = w
        /\ \A j \in Port, r \in Queue : j # i \/ r # q => g[j][r] = s.ingress_bytes[j][r]
    BY <1>1, <2>2 DEF Put2, Table
  <2> QED BY <2>3 DEF v, w
<1>6. u \in Int /\ u = s.shared_used_bytes + Beyond(ing - (n - from_hdrm)) - Beyond(ing)
  <2>1. Beyond(ing - (n - from_hdrm)) \in Int /\ Beyond(ing) \in Int
    BY <1>1, <1>2, BeyondTyped
  <2> HIDE DEF less, from_hdrm, ing
  <2> QED BY <1>1, <1>3, <2>1
<1> HIDE DEF h, g, u, t
<1>7. t \in Switch /\ t.hdrm_bytes = h /\ t.ingress_bytes = g /\ t.shared_used_bytes = u
  BY <1>4, <1>5, <1>6 DEF Switch
<1>8. OnlyBooks(s, t) /\ SameStore(s, t)
  BY <1>4, <1>7 DEF Switch, OnlyBooks, SameOrders, SameTransmission, SameStore
<1>9. Counted(s, t, i, q, -n)
  <2> HIDE DEF less, from_hdrm, hdrm, ing
  <2>1. hdrm - from_hdrm >= 0 /\ ing - (n - from_hdrm) >= 0
        /\ (hdrm - from_hdrm) + (ing - (n - from_hdrm)) = hdrm + ing + (-n)
    BY <1>1, <1>2
  <2> QED BY <1>5, <1>6, <1>7, <2>1 DEF Counted, hdrm, ing
<1> QED BY <1>8, <1>9 DEF t

LEMMA MatrixPut ==
  ASSUME NEW f \in Matrix, NEW i \in Port, NEW o \in Port, NEW q \in QIndex, NEW n \in Int
  PROVE  LET g == [f EXCEPT ![i] = [f[i] EXCEPT ![o] = [f[i][o] EXCEPT ![q] = f[i][o][q] + n]]]
         IN  g \in Matrix /\ Shifted(f, g, i, o, q, n)
<1> DEFINE g == [f EXCEPT ![i] = [f[i] EXCEPT ![o] = [f[i][o] EXCEPT ![q] = f[i][o][q] + n]]]
<1>1. \A j, p \in Port, r \in QIndex : f[j][p][r] \in Int
  BY DEF Matrix
<1>2. g \in Matrix
  BY <1>1 DEF Matrix
<1>3. \A j, p \in Port, r \in QIndex :
        g[j][p][r] = IF j = i /\ p = o /\ r = q THEN f[j][p][r] + n ELSE f[j][p][r]
  BY DEF Matrix
<1> QED BY <1>1, <1>2, <1>3 DEF Shifted

-----------------------------------------------------------------------------
(* What every call of an event keeps.                                      *)

(* What the byte matrix charges beyond what the queue holds.               *)
Excess(s, i, o, q) == s.m_bytes[i][o][q] - BytesIn(s.m_queues[o][q], i)

(* The books stay in balance, the excess stays, and what is on its way to   *)
(* a neighbour leads to what the MMU decided last. *)
Kept(s, t) ==
  /\ t \in Switch /\ Books(t) /\ SameOrders(s, t)
  /\ \A i, o \in Port, q \in Queue : Excess(t, i, o, q) = Excess(s, i, o, q)
  /\ \A d \in Port, q \in Queue, a \in BOOLEAN :
       Leads(Pipe(s, d), q, a, s.paused[d][q]) => Leads(Pipe(t, d), q, a, t.paused[d][q])

(* The byte matrix covers the queues. *)
Covered(s) == \A i, o \in Port, q \in Queue : Excess(s, i, o, q) >= 0

LEMMA KeptTwice ==
  ASSUME NEW r, NEW s, NEW t, Kept(r, s), Kept(s, t)
  PROVE  Kept(r, t)
BY DEF Kept, SameOrders

LEMMA KeptCovered ==
  ASSUME NEW s, NEW t, Covered(s), Kept(s, t)
  PROVE  Covered(t)
BY DEF Kept, Covered

LEMMA SignalledKept ==
  ASSUME NEW s \in Switch, NEW t, NEW i \in Port, Books(s), Signalled(s, t, i)
  PROVE  Kept(s, t)
<1>1. t \in Switch /\ SameBooks(s, t) /\ SameOrders(s, t)
      /\ \A e \in Port, q \in Queue : t.m_queues[e][q] = s.m_queues[e][q]
  BY DEF Signalled, OnlyControl
<1>2. Books(t)
  BY <1>1 DEF Books, SameBooks
<1>3. \A j, o \in Port, q \in Queue : Excess(t, j, o, q) = Excess(s, j, o, q)
  BY <1>1 DEF Excess, SameBooks
<1> QED BY <1>1, <1>2, <1>3 DEF Kept, Signalled

(* No data packet waits to go back where it came from. *)
NoBack(s) ==
  \A o \in Port, q \in Queue : \A k \in 1..Len(s.m_queues[o][q]) : s.m_queues[o][q][k].in # o

(* Every free device outside D has nothing it could send. *)
ServedBut(s, D) ==
  \A d \in Port : d \notin D /\ s.m_txMachineState[d] = "READY" /\ s.m_linkUp[d]
                    => E!Servable(s.m_queues[d], s.m_paused[d]) = {}

LEMMA SignalledServed ==
  ASSUME NEW s \in Switch, NEW t, NEW i \in Port, Signalled(s, t, i), NEW D
  PROVE  /\ NoBack(s) => NoBack(t)
         /\ ServedBut(s, D) => ServedBut(t, D)
         /\ t.failed = s.failed
<1>1. /\ t \in Switch /\ SameOrders(s, t) /\ t.failed = s.failed
      /\ \A e \in Port, q \in Queue : t.m_queues[e][q] = s.m_queues[e][q]
      /\ \A e \in Port : e # i => SameDevice(s, t, e)
      /\ SameDevice(s, t, i) \/ ~s.m_linkUp[i] \/ t.m_txMachineState[i] = "BUSY"
  BY DEF Signalled, OnlyControl
<1>2. NoBack(s) => NoBack(t)
  BY <1>1 DEF NoBack
<1>3. ServedBut(s, D) => ServedBut(t, D)
  BY <1>1 DEF ServedBut, SameDevice, SameOrders
<1> QED BY <1>1, <1>2, <1>3

(* Two records that differ in the books only: what concerns frames is kept. *)
LEMMA BooksOnlyLeads ==
  ASSUME NEW s \in Switch, NEW t, OnlyBooks(s, t)
  PROVE  \A d \in Port, q \in Queue, a \in BOOLEAN :
           Leads(Pipe(s, d), q, a, s.paused[d][q]) => Leads(Pipe(t, d), q, a, t.paused[d][q])
BY DEF OnlyBooks, SameTransmission, Pipe

(* The byte matrix covers a packet in a queue, and so do the counters.     *)
LEMMA HeadCovered ==
  ASSUME NEW s \in Switch, Books(s), Covered(s), NEW d \in Port, NEW q \in Queue,
         s.m_queues[d][q] # <<>>
  PROVE  LET p == Head(s.m_queues[d][q])
         IN  /\ p \in PacketIn /\ p.in \in Port /\ p.size \in Nat
             /\ s.m_bytes[p.in][d][q] >= p.size
             /\ p.size <= s.hdrm_bytes[p.in][q] + s.ingress_bytes[p.in][q]
<1> DEFINE queue == s.m_queues[d][q]
           p == Head(queue)
           i == p.in
<1>1. queue \in Seq(PacketIn)
  <2>1. s.m_queues \in Queues
    BY SwitchFields
  <2> QED BY <2>1 DEF Queues
<1>2. p \in PacketIn /\ Tail(queue) \in Seq(PacketIn)
  BY <1>1, HeadTailProperties
<1>3. i \in Port /\ p.size \in Nat /\ Share(p, i) = p.size
  <2> HIDE DEF p
  <2> QED BY <1>2, SwitchConfig DEF PacketIn, Share
<1> HIDE DEF p, queue
<1>4. BytesIn(queue, i) >= p.size
  <2>1. BytesIn(Tail(queue), i) \in Nat
    BY <1>2, SharesTyped
  <2>2. BytesIn(queue, i) = Share(p, i) + BytesIn(Tail(queue), i)
    BY <1>1, BytesInTail DEF p, queue
  <2> QED BY <1>3, <2>1, <2>2
<1>5. \A o \in Port : s.m_bytes[i][o][q] \in Nat
  <2>1. s.m_bytes \in Matrix /\ q \in QIndex
    BY SwitchFields, Indices
  <2> QED BY <1>3, <2>1 DEF Matrix, Books
<1>6. s.m_bytes[i][d][q] >= p.size
  <2>1. s.m_bytes[i][d][q] - BytesIn(queue, i) >= 0
    BY <1>3 DEF Covered, Excess, queue
  <2>2. BytesIn(queue, i) \in Nat
    BY <1>1, SharesTyped
  <2> QED BY <1>3, <1>4, <1>5, <2>1, <2>2
<1>7. FromPort(s.m_bytes, i, q) >= s.m_bytes[i][d][q] /\ FromPort(s.m_bytes, i, q) \in Nat
  <2> DEFINE f == [o \in Port |-> s.m_bytes[i][o][q]]
  <2>1. f \in [1..NPort -> Nat] /\ f[d] = s.m_bytes[i][d][q] /\ d \in 1..NPort
    BY <1>5 DEF Port
  <2> HIDE DEF f
  <2>2. SumTo(f, NPort) \in Nat /\ f[d] <= SumTo(f, NPort)
    BY <2>1, SumToNat, Indices
  <2> QED BY <1>5, <2>1, <2>2 DEF FromPort, f
<1>8. s.hdrm_bytes[i][q] + s.ingress_bytes[i][q] = FromPort(s.m_bytes, i, q)
  BY <1>3 DEF Books
<1>9. p.size <= FromPort(s.m_bytes, i, q)
  BY <1>3, <1>5, <1>6, <1>7
<1> QED BY <1>2, <1>3, <1>6, <1>8, <1>9 DEF p, queue

-----------------------------------------------------------------------------
(* A packet leaves its queue, and the books with it.                       *)

(* Queue q of port o, and the byte matrix with it, changed by n bytes that  *)
(* came in through port i. *)
InStep(s, t, i, o, q, n) ==
  /\ n \in Int /\ Shifted(s.m_bytes, t.m_bytes, i, o, q, n)
  /\ \A e \in Port, r \in Queue : e # o \/ r # q => t.m_queues[e][r] = s.m_queues[e][r]
  /\ \A j \in Port : BytesIn(t.m_queues[o][q], j)
                        = BytesIn(s.m_queues[o][q], j) + (IF j = i THEN n ELSE 0)

LEMMA ExcessMoved ==
  ASSUME NEW s \in Switch, NEW t \in Switch, NEW i \in Port, NEW o \in Port, NEW q \in Queue,
         NEW n, InStep(s, t, i, o, q, n)
  PROVE  \A j, e \in Port, r \in Queue : Excess(t, j, e, r) = Excess(s, j, e, r)
<1>1. ASSUME NEW j \in Port, NEW e \in Port, NEW r \in Queue
      PROVE  Excess(t, j, e, r) = Excess(s, j, e, r)
  <2>1. s.m_bytes[j][e][r] \in Int /\ s.m_queues[e][r] \in Seq(PacketIn)
    <3>1. s.m_bytes \in Matrix /\ s.m_queues \in Queues /\ r \in QIndex
      BY SwitchFields, Indices
    <3> QED BY <3>1 DEF Matrix, Queues
  <2>2. BytesIn(s.m_queues[e][r], j) \in Int
    BY <2>1, SharesTyped
  <2>3. t.m_bytes[j][e][r] = s.m_bytes[j][e][r] + (IF j = i /\ e = o /\ r = q THEN n ELSE 0)
    BY Indices DEF Shifted, InStep
  <2>4. BytesIn(t.m_queues[e][r], j)
          = BytesIn(s.m_queues[e][r], j) + (IF j = i /\ e = o /\ r = q THEN n ELSE 0)
    <3>1. CASE e = o /\ r = q
      BY <2>2, <3>1 DEF InStep
    <3>2. CASE e # o \/ r # q
      BY <2>2, <3>2 DEF InStep
    <3> QED BY <3>1, <3>2
  <2> QED BY <2>1, <2>2, <2>3, <2>4 DEF Excess, InStep
<1> QED BY <1>1

(* What SwitchNotifyDequeue takes from the books before it looks at the     *)
(* upstream. *)
Discharged(s, d, q, p) ==
  [RemoveFromIngressAdmission(s, p.in, q, p.size)
     EXCEPT !.egress_bytes[d][q] = @ - p.size, !.m_bytes[p.in][d][q] = @ - p.size]

LEMMA DischargedDoes ==
  ASSUME NEW s \in Switch, NEW d \in Port, NEW q \in Queue, NEW p \in PacketIn, Books(s),
         p.in \in Port, p.size \in Nat, s.m_bytes[p.in][d][q] >= p.size,
         p.size <= s.hdrm_bytes[p.in][q] + s.ingress_bytes[p.in][q]
  PROVE  LET t == Discharged(s, d, q, p)
         IN  /\ OnlyBooks(s, t) /\ Books(t)
             /\ Shifted(s.m_bytes, t.m_bytes, p.in, d, q, -p.size)
<1> DEFINE i == p.in
           n == p.size
           r == RemoveFromIngressAdmission(s, i, q, n)
           t == Discharged(s, d, q, p)
           g == Put2(r.egress_bytes, d, q, r.egress_bytes[d][q] + (-n))
           m == [r.m_bytes EXCEPT ![i] = [r.m_bytes[i] EXCEPT ![d] =
                  [r.m_bytes[i][d] EXCEPT ![q] = r.m_bytes[i][d][q] + (-n)]]]
<1>1. /\ OnlyBooks(s, r) /\ SameStore(s, r) /\ Counted(s, r, i, q, -n)
  BY RemoveDoes
<1>2. r \in Switch /\ r.egress_bytes \in Table /\ r.m_bytes \in Matrix /\ q \in QIndex
      /\ -n \in Int
  <2>1. r \in Switch
    BY <1>1 DEF OnlyBooks
  <2> HIDE DEF r
  <2> QED BY <2>1, SwitchFields, Indices
<1>3. m \in Matrix /\ Shifted(r.m_bytes, m, i, d, q, -n)
  <2> DEFINE k == -n
  <2> HIDE DEF r, k
  <2>1. k \in Int
    BY DEF k
  <2>2. LET x == [r.m_bytes EXCEPT ![i] = [r.m_bytes[i] EXCEPT ![d] =
                   [r.m_bytes[i][d] EXCEPT ![q] = r.m_bytes[i][d][q] + k]]]
        IN  x \in Matrix /\ Shifted(r.m_bytes, x, i, d, q, k)
    BY <1>2, <2>1, MatrixPut
  <2> QED BY <2>2 DEF k
<1>4. g \in Table
      /\ \A e \in Port, x \in Queue :
           g[e][x] = r.egress_bytes[e][x] + (IF e = d /\ x = q THEN -n ELSE 0)
  <2> HIDE DEF r
  <2>1. \A e \in Port, x \in Queue : r.egress_bytes[e][x] \in Int
    BY <1>2 DEF Table
  <2> QED BY <1>2, <2>1 DEF Table, Put2
<1>5. t = [r EXCEPT !.egress_bytes = g, !.m_bytes = m]
  <2>1. r.egress_bytes[d][q] - n = r.egress_bytes[d][q] + (-n)
        /\ r.m_bytes[i][d][q] - n = r.m_bytes[i][d][q] + (-n)
    <3>1. r.egress_bytes[d][q] \in Int /\ r.m_bytes[i][d][q] \in Int
      <4> HIDE DEF r
      <4> QED BY <1>2 DEF Table, Matrix
    <3> HIDE DEF r
    <3> QED BY <3>1
  <2>2. t = [r EXCEPT !.egress_bytes[d][q] = r.egress_bytes[d][q] - n,
                      !.m_bytes[i][d][q] = r.m_bytes[i][d][q] - n]
    BY DEF Discharged
  <2> HIDE DEF r, t
  <2> QED BY <1>2, <2>1, <2>2 DEF Switch, Table, Matrix, Put2
<1> HIDE DEF r, t, g, m
<1>6. t \in Switch /\ t.egress_bytes = g /\ t.m_bytes = m
      /\ t.hdrm_bytes = r.hdrm_bytes /\ t.ingress_bytes = r.ingress_bytes
      /\ t.shared_used_bytes = r.shared_used_bytes
  BY <1>2, <1>3, <1>4, <1>5 DEF Switch
<1>7. OnlyBooks(r, t)
  BY <1>2, <1>5, <1>6 DEF Switch, OnlyBooks, SameOrders, SameTransmission
<1>8. OnlyBooks(s, t)
  BY <1>1, <1>7 DEF OnlyBooks, SameOrders, SameTransmission
<1>9. Shifted(s.m_bytes, t.m_bytes, i, d, q, -n)
  BY <1>1, <1>3, <1>6 DEF SameStore
<1>10. Counted(s, t, i, q, -n)
  BY <1>1, <1>6 DEF Counted
<1>11. \A e \in Port, x \in Queue :
         t.egress_bytes[e][x] = s.egress_bytes[e][x] + (IF e = d /\ x = q THEN -n ELSE 0)
  BY <1>1, <1>4, <1>6 DEF SameStore
<1>12. s.m_bytes[i][d][q] + (-n) >= 0
  <2>1. s.m_bytes[i][d][q] \in Int
    <3>1. s.m_bytes \in Matrix
      BY SwitchFields
    <3> QED BY <1>2, <3>1 DEF Matrix
  <2> QED BY <2>1
<1>13. Books(t)
  <2> DEFINE k == -n
  <2>1. k \in Int
    BY <1>2
  <2>2. /\ Counted(s, t, i, q, k) /\ Shifted(s.m_bytes, t.m_bytes, i, d, q, k)
        /\ s.m_bytes[i][d][q] + k >= 0
        /\ \A e \in Port, x \in Queue :
             t.egress_bytes[e][x] = s.egress_bytes[e][x] + (IF e = d /\ x = q THEN k ELSE 0)
    BY <1>9, <1>10, <1>11, <1>12
  <2> HIDE DEF k, i
  <2>3. i \in Port
    BY DEF i
  <2> QED BY <1>6, <2>1, <2>2, <2>3, BooksMove
<1> QED BY <1>8, <1>9, <1>13 DEF t

(* A device takes a packet out of a data queue; the books follow.          *)
LEMMA Departed ==
  ASSUME NEW s \in Switch, Books(s), Covered(s), NEW d \in Port, NEW q \in Queue,
         s.m_queues[d][q] # <<>>
  PROVE  LET p == Head(s.m_queues[d][q])
             t == Discharged(Dequeued(s, d, q), d, q, p)
         IN  /\ Kept(s, t) /\ t.failed = s.failed
             /\ p \in PacketIn /\ p.in \in Port
             /\ t.m_txMachineState = s.m_txMachineState /\ t.wire_out = s.wire_out
             /\ t.m_queues[d][0] = s.m_queues[d][0]
             /\ \A e \in Port : e # d => t.m_queues[e] = s.m_queues[e]
             /\ NoBack(s) => NoBack(t) /\ p.in # d
<1> DEFINE v == s.m_queues[d][q]
           p == Head(v)
           c == Dequeued(s, d, q)
           t == Discharged(c, d, q, p)
           i == p.in
           n == p.size
<1>1. /\ p \in PacketIn /\ i \in Port /\ n \in Nat /\ s.m_bytes[i][d][q] >= n
      /\ n <= s.hdrm_bytes[i][q] + s.ingress_bytes[i][q]
  BY HeadCovered
<1>2. /\ c \in Switch /\ c.m_queues = Put2(s.m_queues, d, q, Tail(v))
      /\ SameBooks(s, c) /\ SameOrders(s, c) /\ c.paused = s.paused
      /\ c.wire_out = s.wire_out
      /\ c.m_txMachineState = s.m_txMachineState /\ c.failed = s.failed
  BY DequeuedDoes, Indices
<1>3. v \in Seq(PacketIn) /\ v \in Seq(InFrame) /\ s.m_queues \in Queues /\ q \in QIndex
      /\ 0 \in QIndex /\ q # 0
  <2>1. s.m_queues \in Queues
    BY SwitchFields
  <2> QED BY <2>1, Indices DEF Queues
<1>4. /\ c.m_queues[d][q] = Tail(v)
      /\ \A e \in Port, r \in QIndex : e # d \/ r # q => c.m_queues[e][r] = s.m_queues[e][r]
      /\ \A e \in Port : e # d => c.m_queues[e] = s.m_queues[e]
  <2> DEFINE w == Tail(v)
  <2>1. w \in Seq(InFrame) /\ c.m_queues = Put2(s.m_queues, d, q, w)
    BY <1>2, <1>3, HeadTailProperties
  <2> HIDE DEF w, c, v
  <2>2. /\ c.m_queues[d][q] = w
        /\ \A e \in Port, r \in QIndex : e # d \/ r # q => c.m_queues[e][r] = s.m_queues[e][r]
        /\ \A e \in Port : e # d => c.m_queues[e] = s.m_queues[e]
    BY <1>3, <2>1, QueuePut
  <2> QED BY <2>2 DEF w
<1> HIDE DEF c
<1>5. Books(c)
  BY <1>2 DEF Books, SameBooks
<1>6. /\ OnlyBooks(c, t) /\ Books(t)
      /\ Shifted(c.m_bytes, t.m_bytes, i, d, q, -n)
  <2>1. c.m_bytes[i][d][q] >= n /\ n <= c.hdrm_bytes[i][q] + c.ingress_bytes[i][q]
    BY <1>1, <1>2 DEF SameBooks
  <2> QED BY <1>1, <1>2, <1>5, <2>1, DischargedDoes
<1> HIDE DEF t
<1>7. /\ t \in Switch /\ SameOrders(s, t) /\ t.failed = s.failed /\ t.paused = s.paused
      /\ t.m_txMachineState = s.m_txMachineState /\ t.wire_out = s.wire_out
      /\ t.m_queues = c.m_queues
  BY <1>2, <1>6 DEF OnlyBooks, SameOrders, SameTransmission
<1>8. \A j, e \in Port, r \in Queue : Excess(t, j, e, r) = Excess(s, j, e, r)
  <2> DEFINE k == -n
  <2>1. k \in Int /\ Shifted(s.m_bytes, t.m_bytes, i, d, q, k)
    <3>1. k \in Int
      BY <1>1
    <3>2. Shifted(c.m_bytes, t.m_bytes, i, d, q, k) /\ c.m_bytes = s.m_bytes
      BY <1>2, <1>6 DEF SameBooks
    <3> QED BY <3>1, <3>2
  <2>2. \A e \in Port, r \in Queue : e # d \/ r # q => t.m_queues[e][r] = s.m_queues[e][r]
    BY <1>4, <1>7, Indices
  <2>3. ASSUME NEW j \in Port
        PROVE  BytesIn(t.m_queues[d][q], j) = BytesIn(s.m_queues[d][q], j)
                                              + (IF j = i THEN k ELSE 0)
    <3>1. BytesIn(v, j) = Share(p, j) + BytesIn(Tail(v), j)
      BY <1>3, BytesInTail
    <3>2. BytesIn(Tail(v), j) \in Nat
      BY <1>3, HeadTailProperties, SharesTyped
    <3>3. Share(p, j) = IF j = i THEN n ELSE 0
      <4> HIDE DEF v
      <4> QED BY <1>1 DEF Share, PacketIn
    <3>4. t.m_queues[d][q] = Tail(v)
      BY <1>4, <1>7
    <3> HIDE DEF v, p, i, n
    <3> QED BY <1>1, <3>1, <3>2, <3>3, <3>4 DEF v
  <2> HIDE DEF k, i, n, p
  <2>4. i \in Port /\ t \in Switch
    BY <1>1, <1>7
  <2>5. InStep(s, t, i, d, q, k)
    BY <2>1, <2>2, <2>3 DEF InStep
  <2> QED BY <2>4, <2>5, ExcessMoved
<1>9. \A e \in Port : t.m_queues[e][0] = s.m_queues[e][0]
  BY <1>3, <1>4, <1>7
<1>10. \A e \in Port, r \in Queue, a \in BOOLEAN :
         Leads(Pipe(s, e), r, a, s.paused[e][r]) => Leads(Pipe(t, e), r, a, t.paused[e][r])
  BY <1>7, <1>9 DEF Pipe
<1>11. Kept(s, t)
  BY <1>6, <1>7, <1>8, <1>10 DEF Kept
<1>12. ASSUME NoBack(s) PROVE NoBack(t) /\ i # d
  <2>1. \A k \in 1..Len(v) : v[k].in # d
    BY <1>12 DEF NoBack
  <2>2. Len(v) \in Nat /\ Len(v) >= 1 /\ p = v[1]
    BY <1>3, LenProperties, EmptySeq
  <2>3. ASSUME NEW e \in Port, NEW r \in Queue, NEW k \in 1..Len(t.m_queues[e][r])
        PROVE  t.m_queues[e][r][k].in # e
    <3>1. CASE e # d \/ r # q
      <4>1. t.m_queues[e][r] = s.m_queues[e][r]
        BY <1>4, <1>7, <3>1, Indices
      <4> QED BY <1>12, <2>3, <4>1 DEF NoBack
    <3>2. CASE e = d /\ r = q
      <4>1. t.m_queues[e][r] = Tail(v)
        BY <1>4, <1>7, <3>2
      <4>2. k \in 1..Len(Tail(v))
        BY <2>3, <4>1
      <4>3. Len(Tail(v)) = Len(v) - 1 /\ Tail(v)[k] = v[k + 1]
        BY <1>3, <4>2, HeadTailProperties
      <4>4. k + 1 \in 1..Len(v)
        <5> HIDE DEF v
        <5> QED BY <2>2, <4>2, <4>3
      <4> QED BY <2>1, <3>2, <4>1, <4>3, <4>4
    <3> QED BY <3>1, <3>2
  <2>4. i # d
    <3>1. 1 \in 1..Len(v)
      BY <2>2
    <3> QED BY <2>1, <2>2, <3>1
  <2> QED BY <2>3, <2>4 DEF NoBack
<1>13. /\ t.m_queues[d][0] = s.m_queues[d][0]
       /\ \A e \in Port : e # d => t.m_queues[e] = s.m_queues[e]
  BY <1>4, <1>7, <1>9
<1> HIDE DEF p, v
<1> QED BY <1>1, <1>7, <1>11, <1>12, <1>13 DEF t, c, p, v

(* A free device serves a data queue, if it serves one, while queue 0 is    *)
(* empty.  The departure may send a resume frame, through this very device  *)
(* if the packet goes back where it came from. *)
LEMMA DataSent ==
  ASSUME NEW s \in Switch, Books(s), Covered(s), NEW d \in Port, NEW q \in Queue,
         s.m_queues[d][q] # <<>>, s.m_queues[d][0] = <<>>,
         s.m_linkUp[d], s.m_txMachineState[d] = "READY"
  PROVE  LET p == Head(s.m_queues[d][q])
             t == TransmitStart(SwitchNotifyDequeue(Dequeued(s, d, q), d, q, p), d, p)
         IN  /\ Kept(s, t) /\ t.failed \subseteq s.failed \cup {NotReady}
             /\ NoBack(s) => NoBack(t) /\ t.failed = s.failed
             /\ ServedBut(s, {d}) => ServedBut(t, {})
<1> DEFINE p == Head(s.m_queues[d][q])
           b == Discharged(Dequeued(s, d, q), d, q, p)
           u == CheckAndSendResume(b, p.in, q)
           t == TransmitStart(u, d, p)
<1>1. SwitchNotifyDequeue(Dequeued(s, d, q), d, q, p) = u
  BY Indices DEF SwitchNotifyDequeue, Discharged
<1>2. /\ Kept(s, b) /\ b.failed = s.failed
      /\ p \in PacketIn /\ p.in \in Port
      /\ b.m_txMachineState = s.m_txMachineState /\ b.wire_out = s.wire_out
      /\ b.m_queues[d][0] = s.m_queues[d][0]
      /\ \A e \in Port : e # d => b.m_queues[e] = s.m_queues[e]
      /\ NoBack(s) => NoBack(b) /\ p.in # d
  BY Departed
<1> DEFINE i == p.in
<1> HIDE DEF b
<1>3. b \in Switch /\ Books(b) /\ SameOrders(s, b)
  BY <1>2 DEF Kept
<1>4. Signalled(b, u, i)
  BY <1>2, <1>3, ResumeSignals
<1> HIDE DEF u, p
<1>5. Kept(b, u)
  BY <1>2, <1>3, <1>4, SignalledKept
<1>6. /\ NoBack(b) => NoBack(u)
      /\ ServedBut(b, {d}) => ServedBut(u, {d})
      /\ u.failed = b.failed
  BY <1>2, <1>3, <1>4, SignalledServed
<1>7. u \in Switch /\ Books(u) /\ SameOrders(b, u)
  BY <1>5 DEF Kept
<1>8. p \in InFrame
  BY <1>2 DEF InFrame
<1>9. /\ t \in Switch
      /\ SameBooks(u, t) /\ SameOrders(u, t) /\ t.paused = u.paused
      /\ t.m_queues = u.m_queues
      /\ u.m_txMachineState[d] = "READY" =>
           /\ t.m_txMachineState = Put(u.m_txMachineState, d, "BUSY")
           /\ t.wire_out = Put(u.wire_out, d, Append(u.wire_out[d], OnWire(p)))
           /\ t.failed = u.failed
      /\ u.m_txMachineState[d] # "READY" =>
           /\ t.m_txMachineState = u.m_txMachineState
           /\ t.wire_out = u.wire_out
           /\ t.failed = u.failed \cup {NotReady}
  BY <1>7, <1>8, TransmitStartDoes
<1> HIDE DEF t
<1>10. ServedBut(s, {d}) => ServedBut(b, {d})
  BY <1>2, <1>3 DEF ServedBut, SameOrders
<1>11. NoBack(s) => NoBack(t)
  BY <1>2, <1>6, <1>9 DEF NoBack
<1>12. Books(t)
  BY <1>7, <1>9 DEF Books, SameBooks
<1>13. \A j, e \in Port, r \in Queue : Excess(t, j, e, r) = Excess(u, j, e, r)
  BY <1>9 DEF Excess, SameBooks
<1>14. u.m_txMachineState \in States /\ u.wire_out \in Wires
  BY <1>7, SwitchFields
<1>15. SameDevice(b, u, d) \/ u.m_txMachineState[d] = "BUSY"
  <2>1. \/ SameDevice(b, u, i) \/ ~b.m_linkUp[i] \/ u.m_txMachineState[i] = "BUSY"
        \/ d # i
    BY <1>4 DEF Signalled
  <2>2. d # i => SameDevice(b, u, d)
    BY <1>4 DEF Signalled, OnlyControl
  <2>3. b.m_linkUp[d]
    BY <1>3 DEF SameOrders
  <2> QED BY <2>1, <2>2, <2>3
<1>16. CASE u.m_txMachineState[d] = "READY"
  <2>1. SameDevice(b, u, d)
    BY <1>15, <1>16
  <2>2. u.m_queues[d][0] = <<>> /\ t.m_queues[d][0] = <<>>
    BY <1>2, <1>9, <2>1 DEF SameDevice
  <2>3. /\ t.m_txMachineState[d] = "BUSY"
        /\ t.wire_out[d] = Append(u.wire_out[d], OnWire(p))
        /\ \A e \in Port : e # d => /\ t.m_txMachineState[e] = u.m_txMachineState[e]
                                    /\ t.wire_out[e] = u.wire_out[e]
    BY <1>9, <1>14, <1>16 DEF Put, States, Wires
  <2>4. ASSUME NEW e \in Port, NEW r \in Queue, NEW a \in BOOLEAN,
               Leads(Pipe(u, e), r, a, u.paused[e][r])
        PROVE  Leads(Pipe(t, e), r, a, t.paused[e][r])
    <3>1. u.paused[e][r] \in BOOLEAN
      BY <1>7, SwitchFields DEF Flags
    <3>2. CASE e = d
      <4>1. Leads(Pipe(t, d), r, a, u.paused[e][r])
        BY <1>2, <1>7, <1>9, <2>2, <2>3, <2>4, <3>1, <3>2, PipeSent
      <4> QED BY <1>9, <3>2, <4>1
    <3>3. CASE e # d
      <4>1. Pipe(t, e) = Pipe(u, e)
        BY <1>9, <2>3, <3>3 DEF Pipe
      <4> QED BY <1>9, <2>4, <4>1
    <3> QED BY <3>2, <3>3
  <2>5. Kept(u, t)
    BY <1>9, <1>12, <1>13, <2>4 DEF Kept
  <2>6. Kept(s, t)
    BY <1>2, <1>5, <2>5, KeptTwice
  <2>7. t.failed = s.failed
    BY <1>2, <1>6, <1>9, <1>16
  <2>8. ServedBut(u, {d}) => ServedBut(t, {})
    BY <1>9, <2>3 DEF ServedBut, SameOrders
  <2> QED BY <1>1, <1>6, <1>10, <1>11, <2>6, <2>7, <2>8 DEF t, p
<1>17. CASE u.m_txMachineState[d] # "READY"
  <2>1. ~NoBack(s)
    <3>1. ASSUME NoBack(s) PROVE FALSE
      <4>1. d # i
        BY <1>2, <3>1
      <4>2. SameDevice(b, u, d)
        BY <1>4, <4>1 DEF Signalled, OnlyControl
      <4> QED BY <1>2, <1>17, <4>2 DEF SameDevice
    <3> QED BY <3>1
  <2>2. \A e \in Port : Pipe(t, e) = Pipe(u, e)
    BY <1>9, <1>17 DEF Pipe
  <2>3. Kept(u, t)
    BY <1>9, <1>12, <1>13, <2>2 DEF Kept
  <2>4. Kept(s, t)
    BY <1>2, <1>5, <2>3, KeptTwice
  <2>5. t.failed \subseteq s.failed \cup {NotReady}
    BY <1>2, <1>6, <1>9, <1>17
  <2>6. ServedBut(u, {d}) => ServedBut(t, {})
    BY <1>9, <1>17 DEF ServedBut, SameOrders
  <2> QED BY <1>1, <1>6, <1>10, <2>1, <2>4, <2>5, <2>6 DEF t, p
<1> QED BY <1>16, <1>17

(* DequeueAndTransmit starts device d if it may.                           *)
LEMMA DequeueAndTransmitDoes ==
  ASSUME NEW s \in Switch, Books(s), Covered(s), NEW d \in Port
  PROVE  LET t == DequeueAndTransmit(s, d)
         IN  /\ Kept(s, t) /\ t.failed \subseteq s.failed \cup {NotReady}
             /\ NoBack(s) => NoBack(t) /\ t.failed = s.failed
             /\ ServedBut(s, {d}) => ServedBut(t, {})
<1> DEFINE srv == E!Servable(s.m_queues[d], s.m_paused[d])
           t == DequeueAndTransmit(s, d)
<1>1. CASE ~s.m_linkUp[d] \/ s.m_txMachineState[d] = "BUSY" \/ srv = {}
  <2>1. t = s
    BY <1>1 DEF DequeueAndTransmit
  <2>2. Kept(s, s)
    BY DEF Kept, SameOrders
  <2>3. ServedBut(s, {d}) => ServedBut(s, {})
    BY <1>1 DEF ServedBut
  <2> HIDE DEF t
  <2> QED BY <2>1, <2>2, <2>3 DEF t
<1>2. CASE ~(~s.m_linkUp[d] \/ s.m_txMachineState[d] = "BUSY" \/ srv = {})
  <2> DEFINE q == E!Served(s.m_queues[d], s.m_rrlast[d], s.m_paused[d])
             p == Head(s.m_queues[d][q])
  <2>1. t = TransmitStart(SwitchNotifyDequeue(Dequeued(s, d, q), d, q, p), d, p)
    BY <1>2 DEF DequeueAndTransmit
  <2>2. /\ q \in QIndex /\ s.m_queues[d][q] # <<>>
        /\ q # 0 => s.m_queues[d][0] = <<>>
    BY <1>2, ServedServable
  <2>3. s.m_txMachineState[d] = "READY" /\ s.m_linkUp[d]
    <3>1. s.m_txMachineState \in States
      BY SwitchFields
    <3> QED BY <1>2, <3>1 DEF States
  <2> HIDE DEF q, t
  <2>4. CASE q = 0
    <3>1. t = TransmitStart(Dequeued(s, d, 0), d, Head(s.m_queues[d][0]))
      BY <2>1, <2>4 DEF SwitchNotifyDequeue
    <3>2. /\ OnlyControl(s, t, d) /\ t.paused = s.paused
          /\ t.m_txMachineState[d] = "BUSY"
          /\ \A r, a, b : Leads(Pipe(s, d), r, a, b) => Leads(Pipe(t, d), r, a, b)
      BY <2>2, <2>3, <2>4, <3>1, HeadSent
    <3>3. \A e \in Port : e # d => Pipe(t, e) = Pipe(s, e)
      BY <3>2 DEF OnlyControl, SameDevice, Pipe
    <3>4. Signalled(s, t, d)
      BY <3>2, <3>3 DEF Signalled
    <3>5. Kept(s, t)
      BY <3>4, SignalledKept
    <3>6. NoBack(s) => NoBack(t)
      BY <3>4, SignalledServed
    <3>7. ServedBut(s, {d}) => ServedBut(t, {})
      <4>1. ServedBut(s, {d}) => ServedBut(t, {d})
        BY <3>4, SignalledServed
      <4>2. ServedBut(t, {d}) => ServedBut(t, {})
        BY <3>2 DEF ServedBut
      <4> QED BY <4>1, <4>2
    <3>8. t.failed = s.failed
      BY <3>2 DEF OnlyControl
    <3> QED BY <3>5, <3>6, <3>7, <3>8 DEF t
  <2>5. CASE q # 0
    <3>1. q \in Queue
      BY <2>2, <2>5, Indices
    <3> QED BY <2>1, <2>2, <2>3, <2>5, <3>1, DataSent DEF t
  <2> QED BY <2>4, <2>5
<1> QED BY <1>1, <1>2

-----------------------------------------------------------------------------
(* A packet is admitted: charged, its upstream looked at, and enqueued.     *)

Charged(s, i, o, q, p) ==
  [UpdateIngressAdmission(s, i, q, p.size) EXCEPT !.egress_bytes[o][q] = @ + p.size]
Ready(s, i, o, q, p) == IF q = 0 THEN s ELSE CheckAndSendPfc(Charged(s, i, o, q, p), i, q)
Noted(s, i, o, q, n) == [s EXCEPT !.m_bytes[i][o][q] = @ + n]
Admitted(s, i, o, q, p) ==
  Enqueued(Noted(Ready(s, i, o, q, p), i, o, q, p.size), o, q, Tagged(p, i))

LEMMA ForwardIs ==
  ASSUME NEW s, NEW i, NEW o, NEW q, NEW p
  PROVE  Forward(s, i, o, q, p) = DequeueAndTransmit(Admitted(s, i, o, q, p), o)
BY DEF Forward, SwitchSend, Admitted, Noted, Ready, Charged

LEMMA TaggedTyped ==
  ASSUME NEW p, p.size \in PktSize, NEW i \in Port
  PROVE  /\ Tagged(p, i) \in PacketIn /\ Tagged(p, i) \in InFrame
         /\ Tagged(p, i).in = i /\ Tagged(p, i).size = p.size
         /\ p.size \in Nat
         /\ \A j : Share(Tagged(p, i), j) = IF j = i THEN p.size ELSE 0
<1>1. p.size \in Nat
  BY SwitchConfig
<1>2. Tagged(p, i) \in PacketIn /\ Tagged(p, i).in = i /\ Tagged(p, i).size = p.size
      /\ Tagged(p, i).kind = "data"
  BY DEF Tagged, PacketIn
<1> QED BY <1>1, <1>2 DEF Share, InFrame

(* The byte matrix takes note of a packet.                                 *)
LEMMA NotedDoes ==
  ASSUME NEW s \in Switch, NEW i \in Port, NEW o \in Port, NEW q \in QIndex, NEW n \in Nat
  PROVE  LET t == Noted(s, i, o, q, n)
         IN  /\ OnlyBooks(s, t) /\ Shifted(s.m_bytes, t.m_bytes, i, o, q, n)
             /\ t.hdrm_bytes = s.hdrm_bytes /\ t.ingress_bytes = s.ingress_bytes
             /\ t.shared_used_bytes = s.shared_used_bytes
             /\ t.egress_bytes = s.egress_bytes
<1> DEFINE m == [s.m_bytes EXCEPT ![i] = [s.m_bytes[i] EXCEPT ![o] =
                  [s.m_bytes[i][o] EXCEPT ![q] = s.m_bytes[i][o][q] + n]]]
           t == Noted(s, i, o, q, n)
<1>1. s.m_bytes \in Matrix /\ n \in Int
  BY SwitchFields
<1>2. m \in Matrix /\ Shifted(s.m_bytes, m, i, o, q, n)
  BY <1>1, MatrixPut
<1>3. t = [s EXCEPT !.m_bytes = m]
  BY <1>1 DEF Noted, Switch, Matrix
<1> HIDE DEF m, t
<1>4. t \in Switch /\ t.m_bytes = m
  BY <1>2, <1>3 DEF Switch
<1> QED BY <1>2, <1>3, <1>4 DEF t, Switch, OnlyBooks, SameOrders, SameTransmission

LEMMA ChargedDoes ==
  ASSUME NEW s \in Switch, Books(s), NEW i \in Port, NEW o \in Port, NEW q \in Queue,
         NEW p, p.size \in Nat
  PROVE  LET t == Charged(s, i, o, q, p)
         IN  /\ OnlyBooks(s, t) /\ Counted(s, t, i, q, p.size) /\ t.m_bytes = s.m_bytes
             /\ \A e \in Port, x \in Queue :
                  t.egress_bytes[e][x]
                    = s.egress_bytes[e][x] + (IF e = o /\ x = q THEN p.size ELSE 0)
<1> DEFINE n == p.size
           r == UpdateIngressAdmission(s, i, q, n)
           g == Put2(r.egress_bytes, o, q, r.egress_bytes[o][q] + n)
           t == Charged(s, i, o, q, p)
<1>1. OnlyBooks(s, r) /\ SameStore(s, r) /\ Counted(s, r, i, q, n)
  BY UpdateDoes
<1>2. t = [r EXCEPT !.egress_bytes[o][q] = r.egress_bytes[o][q] + n]
  BY DEF Charged
<1> HIDE DEF r, t
<1>3. r \in Switch /\ r.egress_bytes \in Table
  <2>1. r \in Switch
    BY <1>1 DEF OnlyBooks
  <2> QED BY <2>1, SwitchFields
<1>4. g \in Table
      /\ \A e \in Port, x \in Queue :
           g[e][x] = r.egress_bytes[e][x] + (IF e = o /\ x = q THEN n ELSE 0)
  <2>1. \A e \in Port, x \in Queue : r.egress_bytes[e][x] \in Int
    BY <1>3 DEF Table
  <2> HIDE DEF n
  <2>2. n \in Int
    BY DEF n
  <2> QED BY <1>3, <2>1, <2>2 DEF Table, Put2
<1>5. t = [r EXCEPT !.egress_bytes = g]
  <2> HIDE DEF n
  <2> QED BY <1>2, <1>3 DEF Switch, Table, Put2
<1> HIDE DEF g
<1>6. t \in Switch /\ t.egress_bytes = g
  BY <1>3, <1>4, <1>5 DEF Switch
<1>7. /\ t.m_bytes = r.m_bytes /\ t.hdrm_bytes = r.hdrm_bytes
      /\ t.ingress_bytes = r.ingress_bytes /\ t.shared_used_bytes = r.shared_used_bytes
      /\ OnlyBooks(r, t)
  BY <1>3, <1>5, <1>6 DEF Switch, OnlyBooks, SameOrders, SameTransmission
<1>8. OnlyBooks(s, t)
  BY <1>1, <1>7 DEF OnlyBooks, SameOrders, SameTransmission
<1>9. Counted(s, t, i, q, n)
  BY <1>1, <1>7 DEF Counted
<1> QED BY <1>1, <1>4, <1>6, <1>7, <1>8, <1>9 DEF t, SameStore

(* A packet joins a queue, and nothing else happens. *)
Joins(s, t, o, q, p) ==
  /\ t \in Switch /\ SameBooks(s, t) /\ SameOrders(s, t) /\ t.paused = s.paused
  /\ t.wire_out = s.wire_out /\ t.m_txMachineState = s.m_txMachineState
  /\ t.failed = s.failed
  /\ t.m_queues[o][q] = Append(s.m_queues[o][q], p)
  /\ \A e \in Port, r \in QIndex : e # o \/ r # q => t.m_queues[e][r] = s.m_queues[e][r]
  /\ ServedBut(s, {}) => ServedBut(t, {o})

LEMMA Joined ==
  ASSUME NEW s \in Switch, NEW o \in Port, NEW q \in QIndex, NEW p \in PacketIn
  PROVE  Joins(s, Enqueued(s, o, q, p), o, q, p)
<1> DEFINE t == Enqueued(s, o, q, p)
           v == Append(s.m_queues[o][q], p)
<1>1. p \in InFrame
  BY DEF InFrame
<1>2. /\ t \in Switch /\ t.m_queues = Put2(s.m_queues, o, q, v)
      /\ SameBooks(s, t) /\ SameOrders(s, t) /\ t.paused = s.paused
      /\ t.wire_out = s.wire_out
      /\ t.m_txMachineState = s.m_txMachineState /\ t.failed = s.failed
  BY <1>1, EnqueuedDoes
<1> HIDE DEF t
<1>3. s.m_queues \in Queues /\ v \in Seq(InFrame)
  <2>1. s.m_queues \in Queues
    BY SwitchFields
  <2> QED BY <1>1, <2>1, AppendProperties DEF Queues
<1> HIDE DEF v
<1>4. /\ t.m_queues[o][q] = v
      /\ \A e \in Port, r \in QIndex : e # o \/ r # q => t.m_queues[e][r] = s.m_queues[e][r]
      /\ \A e \in Port : e # o => t.m_queues[e] = s.m_queues[e]
  BY <1>2, <1>3, QueuePut
<1>5. ServedBut(s, {}) => ServedBut(t, {o})
  BY <1>2, <1>4 DEF ServedBut, SameOrders
<1> QED BY <1>2, <1>4, <1>5 DEF t, v, Joins

(* A data packet: the books follow. *)
LEMMA DataAdmitted ==
  ASSUME NEW s \in Switch, Books(s), NEW i \in Port, NEW o \in Port, NEW q \in Queue,
         NEW p, p.size \in PktSize
  PROVE  LET t == Admitted(s, i, o, q, p)
         IN  /\ Kept(s, t) /\ t.failed = s.failed
             /\ NoBack(s) /\ i # o => NoBack(t)
             /\ ServedBut(s, {}) => ServedBut(t, {o})
<1> DEFINE c == Charged(s, i, o, q, p)
           r == CheckAndSendPfc(c, i, q)
           b == Noted(r, i, o, q, p.size)
           w == Tagged(p, i)
           t == Enqueued(b, o, q, w)
           n == p.size
<1>1. Admitted(s, i, o, q, p) = t
  BY Indices DEF Admitted, Ready
<1>2. /\ w \in PacketIn /\ w.in = i /\ n \in Nat
      /\ \A j : Share(w, j) = IF j = i THEN n ELSE 0
  BY TaggedTyped
<1>3. /\ OnlyBooks(s, c) /\ Counted(s, c, i, q, n) /\ c.m_bytes = s.m_bytes
      /\ \A e \in Port, x \in Queue :
           c.egress_bytes[e][x] = s.egress_bytes[e][x] + (IF e = o /\ x = q THEN n ELSE 0)
  BY <1>2, ChargedDoes
<1> HIDE DEF c
<1>4. c \in Switch
  BY <1>3 DEF OnlyBooks
<1>5. Signalled(c, r, i)
  BY <1>4, PauseSignals
<1> HIDE DEF r
<1>6. r \in Switch /\ SameBooks(c, r) /\ SameOrders(c, r) /\ r.failed = c.failed
      /\ \A e \in Port, x \in Queue : r.m_queues[e][x] = c.m_queues[e][x]
  BY <1>5 DEF Signalled, OnlyControl
<1>7. q \in QIndex /\ 0 \in QIndex /\ q # 0
  BY Indices
<1>8. /\ OnlyBooks(r, b) /\ Shifted(r.m_bytes, b.m_bytes, i, o, q, n)
      /\ b.hdrm_bytes = r.hdrm_bytes /\ b.ingress_bytes = r.ingress_bytes
      /\ b.shared_used_bytes = r.shared_used_bytes
      /\ b.egress_bytes = r.egress_bytes
  BY <1>2, <1>6, <1>7, NotedDoes
<1> HIDE DEF b, w
<1>9. b \in Switch
  BY <1>8 DEF OnlyBooks
<1>10. /\ t \in Switch /\ SameBooks(b, t) /\ SameOrders(b, t) /\ t.paused = b.paused
       /\ t.wire_out = b.wire_out /\ t.m_txMachineState = b.m_txMachineState
       /\ t.failed = b.failed
       /\ t.m_queues[o][q] = Append(b.m_queues[o][q], w)
       /\ \A e \in Port, x \in QIndex : e # o \/ x # q => t.m_queues[e][x] = b.m_queues[e][x]
       /\ ServedBut(b, {}) => ServedBut(t, {o})
  BY <1>2, <1>7, <1>9, Joined DEF Joins
<1> HIDE DEF t
<1>11. Counted(s, t, i, q, n)
  BY <1>3, <1>6, <1>8, <1>10 DEF Counted, SameBooks
<1>12. Shifted(s.m_bytes, t.m_bytes, i, o, q, n)
  BY <1>3, <1>6, <1>8, <1>10 DEF SameBooks
<1>13. \A e \in Port, x \in Queue :
         t.egress_bytes[e][x] = s.egress_bytes[e][x] + (IF e = o /\ x = q THEN n ELSE 0)
  BY <1>3, <1>6, <1>8, <1>10 DEF SameBooks
<1>14. Books(t)
  <2>1. s.m_bytes[i][o][q] + n >= 0 /\ n \in Int
    <3>1. s.m_bytes \in Matrix
      BY SwitchFields
    <3>2. s.m_bytes[i][o][q] \in Int /\ s.m_bytes[i][o][q] >= 0
      BY <1>7, <3>1 DEF Matrix, Books
    <3> HIDE DEF n
    <3> QED BY <1>2, <3>2
  <2> HIDE DEF n
  <2> QED BY <1>10, <1>11, <1>12, <1>13, <2>1, BooksMove
<1>15. \A e \in Port, x \in Queue : b.m_queues[e][x] = s.m_queues[e][x]
  BY <1>3, <1>6, <1>8 DEF OnlyBooks, SameTransmission
<1>16. s.m_queues[o][q] \in Seq(PacketIn)
  <2>1. s.m_queues \in Queues
    BY SwitchFields
  <2> QED BY <2>1 DEF Queues
<1>17. t.m_queues[o][q] = Append(s.m_queues[o][q], w)
       /\ \A e \in Port, x \in Queue : e # o \/ x # q => t.m_queues[e][x] = s.m_queues[e][x]
  <2>1. \A x \in Queue : x \in QIndex
    BY Indices
  <2>2. /\ t.m_queues[o][q] = Append(b.m_queues[o][q], w)
        /\ \A e \in Port, x \in QIndex : e # o \/ x # q => t.m_queues[e][x] = b.m_queues[e][x]
    BY <1>10
  <2> QED BY <1>15, <2>1, <2>2, ZenonT(60)
<1>18. \A j, e \in Port, x \in Queue : Excess(t, j, e, x) = Excess(s, j, e, x)
  <2>1. \A j \in Port : BytesIn(t.m_queues[o][q], j)
                          = BytesIn(s.m_queues[o][q], j) + (IF j = i THEN n ELSE 0)
    BY <1>2, <1>16, <1>17, BytesInAppend
  <2>2. InStep(s, t, i, o, q, n)
    <3> HIDE DEF n
    <3> QED BY <1>2, <1>12, <1>17, <2>1 DEF InStep
  <2> QED BY <1>10, <2>2, ExcessMoved
<1>19. SameOrders(s, t) /\ t.failed = s.failed
  BY <1>3, <1>6, <1>8, <1>10 DEF OnlyBooks, SameOrders, SameTransmission
<1>20. ASSUME NEW d \in Port, NEW x \in Queue, NEW a \in BOOLEAN,
              Leads(Pipe(s, d), x, a, s.paused[d][x])
       PROVE  Leads(Pipe(t, d), x, a, t.paused[d][x])
  <2>1. Leads(Pipe(c, d), x, a, c.paused[d][x])
    BY <1>3, <1>20, BooksOnlyLeads
  <2>2. Leads(Pipe(r, d), x, a, r.paused[d][x])
    BY <1>5, <2>1 DEF Signalled
  <2>3. Leads(Pipe(b, d), x, a, b.paused[d][x])
    BY <1>6, <1>8, <2>2, BooksOnlyLeads
  <2>4. Pipe(t, d) = Pipe(b, d)
    BY <1>7, <1>10 DEF Pipe
  <2> QED BY <1>10, <2>3, <2>4
<1>21. Kept(s, t)
  BY <1>10, <1>14, <1>18, <1>19, <1>20 DEF Kept
<1>22. ASSUME NoBack(s), i # o PROVE NoBack(t)
  <2>1. ASSUME NEW e \in Port, NEW x \in Queue, NEW k \in 1..Len(t.m_queues[e][x])
        PROVE  t.m_queues[e][x][k].in # e
    <3>1. CASE e # o \/ x # q
      BY <1>17, <1>22, <2>1, <3>1 DEF NoBack
    <3>2. CASE e = o /\ x = q
      <4> DEFINE v == s.m_queues[o][q]
                 m == Len(v)
      <4>1. /\ m \in Nat /\ Len(Append(v, w)) = m + 1 /\ Append(v, w)[m + 1] = w
            /\ \A j \in 1..m : Append(v, w)[j] = v[j] /\ v[j].in # o
        BY <1>2, <1>16, <1>22, AppendProperties, LenProperties DEF NoBack
      <4>2. t.m_queues[e][x] = Append(v, w)
        BY <1>17, <3>2
      <4> HIDE DEF m, v
      <4>3. k \in 1..m \/ k = m + 1
        BY <2>1, <4>1, <4>2
      <4> QED BY <1>2, <1>22, <3>2, <4>1, <4>2, <4>3
    <3> QED BY <3>1, <3>2
  <2> QED BY <2>1 DEF NoBack
<1>23. ServedBut(s, {}) => ServedBut(t, {o})
  <2>1. ServedBut(s, {}) => ServedBut(c, {})
    BY <1>3 DEF OnlyBooks, SameTransmission, SameOrders, ServedBut
  <2>2. ServedBut(c, {}) => ServedBut(r, {})
    BY <1>4, <1>5, SignalledServed
  <2>3. ServedBut(r, {}) => ServedBut(b, {})
    BY <1>8 DEF OnlyBooks, SameTransmission, SameOrders, ServedBut
  <2> QED BY <1>10, <2>1, <2>2, <2>3
<1> HIDE DEF n
<1> QED BY <1>1, <1>19, <1>21, <1>22, <1>23

(* A packet of queue 0: the MMU does not hear of it. *)
LEMMA ControlAdmitted ==
  ASSUME NEW s \in Switch, Books(s), NEW i \in Port, NEW o \in Port,
         NEW p, p.size \in PktSize
  PROVE  LET t == Admitted(s, i, o, 0, p)
         IN  /\ Kept(s, t) /\ t.failed = s.failed
             /\ NoBack(s) => NoBack(t)
             /\ ServedBut(s, {}) => ServedBut(t, {o})
<1> DEFINE b == Noted(s, i, o, 0, p.size)
           w == Tagged(p, i)
           t == Enqueued(b, o, 0, w)
           n == p.size
<1>1. Admitted(s, i, o, 0, p) = t
  BY DEF Admitted, Ready
<1>2. w \in PacketIn /\ w \in InFrame /\ n \in Nat
  BY TaggedTyped
<1>3. 0 \in QIndex /\ \A x \in Queue : x \in QIndex /\ x # 0
  BY Indices
<1>4. /\ OnlyBooks(s, b) /\ Shifted(s.m_bytes, b.m_bytes, i, o, 0, n)
      /\ b.hdrm_bytes = s.hdrm_bytes /\ b.ingress_bytes = s.ingress_bytes
      /\ b.shared_used_bytes = s.shared_used_bytes
      /\ b.egress_bytes = s.egress_bytes
  BY <1>2, <1>3, NotedDoes
<1> HIDE DEF b, w
<1>5. b \in Switch /\ s.m_bytes \in Matrix /\ b.m_bytes \in Matrix
  <2>1. b \in Switch
    BY <1>4 DEF OnlyBooks
  <2> QED BY <2>1, SwitchFields
<1>6. /\ t \in Switch /\ SameBooks(b, t) /\ SameOrders(b, t) /\ t.paused = b.paused
      /\ t.wire_out = b.wire_out /\ t.m_txMachineState = b.m_txMachineState
      /\ t.failed = b.failed
      /\ t.m_queues[o][0] = Append(b.m_queues[o][0], w)
      /\ \A e \in Port, x \in QIndex : e # o \/ x # 0 => t.m_queues[e][x] = b.m_queues[e][x]
      /\ ServedBut(b, {}) => ServedBut(t, {o})
  BY <1>2, <1>3, <1>5, Joined DEF Joins
<1> HIDE DEF t
<1>7. \A j, e \in Port, x \in Queue : t.m_bytes[j][e][x] = s.m_bytes[j][e][x]
  <2>1. \A j, e \in Port, x \in Queue : s.m_bytes[j][e][x] \in Int
    BY <1>3, <1>5 DEF Matrix
  <2>2. \A j, e \in Port, x \in Queue : b.m_bytes[j][e][x] = s.m_bytes[j][e][x] + 0
    BY <1>3, <1>4 DEF Shifted
  <2> QED BY <1>6, <2>1, <2>2 DEF SameBooks
<1>8. Books(t)
  <2>1. /\ \A j \in Port, x \in Queue : FromPort(t.m_bytes, j, x) = FromPort(s.m_bytes, j, x)
        /\ \A e \in Port, x \in Queue : ForPort(t.m_bytes, e, x) = ForPort(s.m_bytes, e, x)
    BY <1>7, SMTT(30) DEF FromPort, ForPort
  <2>2. \A j, e \in Port, x \in QIndex : t.m_bytes[j][e][x] >= 0
    <3>1. \A j, e \in Port, x \in QIndex : s.m_bytes[j][e][x] \in Int /\ s.m_bytes[j][e][x] >= 0
      BY <1>5 DEF Matrix, Books
    <3>2. t.m_bytes = b.m_bytes
      BY <1>6 DEF SameBooks
    <3> QED BY <1>2, <1>4, <3>1, <3>2 DEF Shifted
  <2>3. /\ t.hdrm_bytes = s.hdrm_bytes /\ t.ingress_bytes = s.ingress_bytes
        /\ t.shared_used_bytes = s.shared_used_bytes /\ t.egress_bytes = s.egress_bytes
    BY <1>4, <1>6 DEF SameBooks
  <2> QED BY <2>1, <2>2, <2>3 DEF Books
<1>9. b.m_queues = s.m_queues
  BY <1>4 DEF OnlyBooks, SameTransmission
<1>10. \A e \in Port, x \in Queue : t.m_queues[e][x] = s.m_queues[e][x]
  BY <1>3, <1>6, <1>9
<1>11. \A j, e \in Port, x \in Queue : Excess(t, j, e, x) = Excess(s, j, e, x)
  BY <1>7, <1>10 DEF Excess
<1>12. SameOrders(s, t) /\ t.failed = s.failed
  BY <1>4, <1>6 DEF OnlyBooks, SameOrders, SameTransmission
<1>13. ASSUME NEW d \in Port, NEW x \in Queue, NEW a \in BOOLEAN,
              Leads(Pipe(s, d), x, a, s.paused[d][x])
       PROVE  Leads(Pipe(t, d), x, a, t.paused[d][x])
  <2>1. Leads(Pipe(b, d), x, a, b.paused[d][x])
    BY <1>4, <1>13, BooksOnlyLeads
  <2>2. CASE d = o
    <3>1. b.paused[d][x] \in BOOLEAN
      BY <1>5, SwitchFields DEF Flags
    <3>2. w.kind \notin PfcKind
      BY <1>2 DEF PacketIn, PfcKind
    <3>3. Changes(w, x, b.paused[d][x]) /\ After(w, x, b.paused[d][x]) = b.paused[d][x]
      BY <3>2, Zenon DEF Changes, After
    <3>4. Leads(Pipe(t, d), x, a, After(w, x, b.paused[d][x]))
      <4> DEFINE y == b.paused[d][x]
      <4>1. t.m_queues[d][0] = Append(b.m_queues[d][0], w) /\ t.wire_out[d] = b.wire_out[d]
        BY <1>6, <2>2
      <4>2. Leads(Pipe(b, d), x, a, y) /\ Changes(w, x, y) /\ y \in BOOLEAN
        BY <2>1, <3>1, <3>3
      <4> HIDE DEF y
      <4>3. Leads(Pipe(t, d), x, a, After(w, x, y))
        BY <1>2, <1>5, <1>6, <4>1, <4>2, PipeJoined
      <4> QED BY <4>3 DEF y
    <3> QED BY <1>6, <3>3, <3>4
  <2>3. CASE d # o
    <3>1. Pipe(t, d) = Pipe(b, d)
      BY <1>3, <1>6, <2>3 DEF Pipe
    <3> QED BY <1>6, <2>1, <3>1
  <2> QED BY <2>2, <2>3
<1>14. Kept(s, t)
  BY <1>6, <1>8, <1>11, <1>12, <1>13 DEF Kept
<1>15. NoBack(s) => NoBack(t)
  BY <1>10 DEF NoBack
<1>16. ServedBut(s, {}) => ServedBut(t, {o})
  <2>1. ServedBut(s, {}) => ServedBut(b, {})
    BY <1>4 DEF OnlyBooks, SameTransmission, SameOrders, ServedBut
  <2> QED BY <1>6, <2>1
<1> HIDE DEF n
<1> QED BY <1>1, <1>12, <1>14, <1>15, <1>16

-----------------------------------------------------------------------------
(* What the handlers of an event do to the switch.                         *)

(* The invariants of the switch by itself hold after the call if they held  *)
(* before it; only a transmission that is started twice fails. *)
Carried(s, t) ==
  /\ Kept(s, t) /\ t.failed \subseteq s.failed \cup {NotReady}
  /\ ServedBut(s, {}) => ServedBut(t, {})
Onward(s, t) == NoBack(s) => NoBack(t) /\ t.failed = s.failed

LEMMA NothingCarried ==
  ASSUME NEW s \in Switch, Books(s)
  PROVE  Carried(s, s) /\ Onward(s, s)
BY DEF Carried, Onward, Kept, SameOrders

LEMMA ForwardDoes ==
  ASSUME NEW s \in Switch, Books(s), Covered(s), NEW i \in Port, NEW o \in Port,
         NEW q \in QIndex, NEW p, p.size \in PktSize
  PROVE  LET t == Forward(s, i, o, q, p)
         IN  Carried(s, t) /\ ((q # 0 => i # o) => Onward(s, t))
<1> DEFINE e == Admitted(s, i, o, q, p)
           t == DequeueAndTransmit(e, o)
<1>1. Forward(s, i, o, q, p) = t
  BY ForwardIs
<1>2. /\ Kept(s, e) /\ e.failed = s.failed
      /\ NoBack(s) /\ (q # 0 => i # o) => NoBack(e)
      /\ ServedBut(s, {}) => ServedBut(e, {o})
  <2>1. CASE q = 0
    BY <2>1, ControlAdmitted
  <2>2. CASE q # 0
    <3>1. q \in Queue
      BY <2>2, Indices
    <3> QED BY <2>2, <3>1, DataAdmitted
  <2> QED BY <2>1, <2>2
<1> HIDE DEF e
<1>3. e \in Switch /\ Books(e) /\ Covered(e)
  BY <1>2, KeptCovered DEF Kept
<1>4. /\ Kept(e, t) /\ t.failed \subseteq e.failed \cup {NotReady}
      /\ NoBack(e) => NoBack(t) /\ t.failed = e.failed
      /\ ServedBut(e, {o}) => ServedBut(t, {})
  BY <1>3, DequeueAndTransmitDoes
<1> HIDE DEF t
<1>5. Kept(s, t)
  BY <1>2, <1>4, KeptTwice
<1>6. Carried(s, t)
  BY <1>2, <1>4, <1>5 DEF Carried
<1>7. (q # 0 => i # o) => Onward(s, t)
  BY <1>2, <1>4 DEF Onward
<1> QED BY <1>1, <1>6, <1>7

(* SendToDev asserts nothing that is not so, while the routes lead over     *)
(* links that are up. *)
LEMMA SendToDevDoes ==
  ASSUME NEW s \in Switch, Books(s), Covered(s), NEW i \in Port, NEW p \in Arrival,
         m_rtTable \in [Flow -> 0..NPort],
         \A f \in Flow : m_rtTable[f] # 0 => s.m_linkUp[m_rtTable[f]]
  PROVE  LET t == SendToDev(s, i, p)
         IN  /\ Carried(s, t)
             /\ (Class[p.flow] # 0 => m_rtTable[p.flow] # i) => Onward(s, t)
<1> DEFINE o == m_rtTable[p.flow]
           q == Class[p.flow]
           t == SendToDev(s, i, p)
           f == Forward(s, i, o, q, p)
<1>1. p.flow \in Flow /\ p.size \in PktSize
  BY DEF Arrival
<1>2. q \in QIndex /\ o \in 0..NPort
  BY <1>1, SwitchFlows DEF QIndex
<1>3. o # 0 => s.m_linkUp[o] /\ o \in Port
  BY <1>1, <1>2, Indices
<1>4. t = s \/ (o # 0 /\ t = f)
  BY <1>3 DEF SendToDev
<1>5. o # 0 => Carried(s, f) /\ ((q # 0 => i # o) => Onward(s, f))
  <2> HIDE DEF o, q
  <2> QED BY <1>1, <1>2, <1>3, ForwardDoes
<1> HIDE DEF t, f, o, q
<1>6. Carried(s, t) /\ ((q # 0 => o # i) => Onward(s, t))
  BY <1>4, <1>5, NothingCarried
<1> QED BY <1>6 DEF t, o, q

(* What is kept when a neighbour has its say. *)
Upheld(s, t) ==
  /\ t \in Switch /\ Books(t) /\ t.m_linkUp = s.m_linkUp
  /\ \A i, o \in Port, q \in Queue : Excess(t, i, o, q) = Excess(s, i, o, q)
  /\ \A d \in Port, q \in Queue, a \in BOOLEAN :
       Leads(Pipe(s, d), q, a, s.paused[d][q]) => Leads(Pipe(t, d), q, a, t.paused[d][q])

LEMMA KeptUpheld ==
  ASSUME NEW s, NEW t, Kept(s, t)
  PROVE  Upheld(s, t)
BY DEF Kept, Upheld, SameOrders

LEMMA UpheldTwice ==
  ASSUME NEW r, NEW s, NEW t, Upheld(r, s), Upheld(s, t)
  PROVE  Upheld(r, t)
BY DEF Upheld

(* The neighbour at d asks to hold back queue q, or not to (v). *)
Ordered(s, d, q, v) == [s EXCEPT !.m_paused[d][q] = v]

Orders(s, t, d, q, v) ==
  /\ Upheld(s, t) /\ t.failed = s.failed
  /\ NoBack(s) => NoBack(t)
  /\ ServedBut(s, {}) => ServedBut(t, {d})
  /\ ServedBut(s, {}) /\ v => ServedBut(t, {})
  /\ t.m_paused[d][q] = v
  /\ \A e \in Port, r \in Queue : e # d \/ r # q => t.m_paused[e][r] = s.m_paused[e][r]

LEMMA OrderedDoes ==
  ASSUME NEW s \in Switch, Books(s), NEW d \in Port, NEW q \in Queue, NEW v \in BOOLEAN
  PROVE  Orders(s, Ordered(s, d, q, v), d, q, v)
<1> DEFINE g == Put2(s.m_paused, d, q, v)
           t == Ordered(s, d, q, v)
<1>1. s.m_paused \in Flags
  BY SwitchFields
<1>2. /\ g \in Flags /\ g[d][q] = v
      /\ \A e \in Port, r \in Queue : e # d \/ r # q => g[e][r] = s.m_paused[e][r]
      /\ \A e \in Port : e # d => g[e] = s.m_paused[e]
  BY <1>1 DEF Flags, Put2
<1>3. t = [s EXCEPT !.m_paused = g]
  BY <1>1 DEF Ordered, Switch, Flags, Put2
<1> HIDE DEF g, t
<1>4. t \in Switch /\ t.m_paused = g
  BY <1>2, <1>3 DEF Switch
<1>5. SameBooks(s, t) /\ SameTransmission(s, t) /\ t.paused = s.paused
      /\ t.m_linkUp = s.m_linkUp
  BY <1>3 DEF Switch, SameBooks, SameTransmission
<1>6. Books(t)
  BY <1>5 DEF Books, SameBooks
<1>7. \A d1 \in Port : Pipe(t, d1) = Pipe(s, d1)
  BY <1>5 DEF Pipe, SameTransmission
<1>8. \A i, o \in Port, x \in Queue : Excess(t, i, o, x) = Excess(s, i, o, x)
  BY <1>5 DEF Excess, SameBooks, SameTransmission
<1>9. Upheld(s, t)
  BY <1>4, <1>5, <1>6, <1>7, <1>8 DEF Upheld
<1>10. NoBack(s) => NoBack(t)
  BY <1>5 DEF NoBack, SameTransmission
<1>11. ServedBut(s, {}) => ServedBut(t, {d})
  BY <1>2, <1>4, <1>5 DEF ServedBut, SameTransmission
<1>12. ASSUME ServedBut(s, {}), v PROVE ServedBut(t, {})
  <2>1. v = TRUE
    BY <1>12
  <2>2. \A x \in Queue : s.m_paused[d][x] => t.m_paused[d][x]
    BY <1>1, <1>2, <1>4, <2>1 DEF Flags
  <2>3. E!Servable(t.m_queues[d], t.m_paused[d]) \subseteq E!Servable(s.m_queues[d], s.m_paused[d])
    <3>1. t.m_queues = s.m_queues
      BY <1>5 DEF SameTransmission
    <3>2. \A x \in E!QIndex : x # 0 => x \in Queue
      BY Indices DEF E!QIndex
    <3> QED BY <2>2, <3>1, <3>2 DEF E!Servable, E!CanServe
  <2>4. ServedBut(t, {d})
    BY <1>11, <1>12
  <2>5. t.m_txMachineState[d] = "READY" /\ t.m_linkUp[d]
          => E!Servable(t.m_queues[d], t.m_paused[d]) = {}
    BY <1>5, <1>12, <2>3 DEF ServedBut, SameTransmission
  <2> QED BY <2>4, <2>5 DEF ServedBut
<1>13. t.failed = s.failed
  BY <1>5 DEF SameTransmission
<1> QED BY <1>2, <1>4, <1>9, <1>10, <1>11, <1>12, <1>13 DEF t, Orders

(* The end of a pause sends what the pause held back. *)
LEMMA ResumedDoes ==
  ASSUME NEW s \in Switch, Books(s), Covered(s), ServedBut(s, {}), NEW d \in Port, NEW q \in Queue
  PROVE  LET t == Resumed(s, d, q)
         IN  /\ t \in Switch /\ ServedBut(t, {})
             /\ s.m_paused[d][q] => /\ Upheld(s, t)
                                    /\ t.failed \subseteq s.failed \cup {NotReady}
                                    /\ Onward(s, t)
                                    /\ t.m_paused = Ordered(s, d, q, FALSE).m_paused
             /\ ~s.m_paused[d][q] => t = Failing(s, NotPaused)
<1> DEFINE u == Ordered(s, d, q, FALSE)
           t == Resumed(s, d, q)
<1>1. CASE s.m_paused[d][q]
  <2>1. t = DequeueAndTransmit(u, d)
    BY <1>1 DEF Resumed, Ordered
  <2>2. /\ Upheld(s, u) /\ u.failed = s.failed
        /\ NoBack(s) => NoBack(u)
        /\ ServedBut(u, {d})
    BY OrderedDoes DEF Orders
  <2> HIDE DEF u, t
  <2>3. u \in Switch /\ Books(u) /\ Covered(u)
    BY <2>2 DEF Upheld, Covered
  <2>4. /\ Kept(u, t) /\ t.failed \subseteq u.failed \cup {NotReady}
        /\ NoBack(u) => NoBack(t) /\ t.failed = u.failed
        /\ ServedBut(t, {})
    BY <2>1, <2>2, <2>3, DequeueAndTransmitDoes
  <2>5. Upheld(s, t)
    BY <2>2, <2>4, KeptUpheld, UpheldTwice
  <2>6. t.m_paused = u.m_paused /\ t \in Switch
    BY <2>4 DEF Kept, SameOrders
  <2>7. t.failed \subseteq s.failed \cup {NotReady}
    BY <2>2, <2>4
  <2>8. Onward(s, t)
    BY <2>2, <2>4 DEF Onward
  <2> QED BY <1>1, <2>4, <2>5, <2>6, <2>7, <2>8 DEF t, u
<1>2. CASE ~s.m_paused[d][q]
  <2>1. t = Failing(s, NotPaused)
    BY <1>2 DEF Resumed, NotPaused
  <2>2. t = [s EXCEPT !.failed = s.failed \cup {NotPaused}]
    BY <2>1 DEF Failing, Switch
  <2> HIDE DEF t
  <2>3. s.failed \cup {NotPaused} \in Failures
    BY SwitchFields DEF Failures
  <2>4. t \in Switch /\ SameTransmission(s, [t EXCEPT !.failed = s.failed]) /\ SameOrders(s, t)
    BY <2>2, <2>3 DEF Switch, SameTransmission, SameOrders
  <2>5. ServedBut(t, {})
    BY <2>2, <2>4 DEF ServedBut, Switch, SameOrders
  <2> QED BY <1>2, <2>1, <2>4, <2>5 DEF t
<1> QED BY <1>1, <1>2

(* A failed assertion is noted, and nothing else changes. *)
LEMMA FailingDoes ==
  ASSUME NEW s \in Switch, NEW x \in {NotReady, NotPaused, NotUp}
  PROVE  LET t == Failing(s, x)
         IN  /\ t \in Switch /\ SameBooks(s, t) /\ SameOrders(s, t) /\ t.paused = s.paused
             /\ t.m_queues = s.m_queues /\ t.wire_out = s.wire_out
             /\ t.m_txMachineState = s.m_txMachineState
             /\ t.failed = s.failed \cup {x}
<1> DEFINE n == s.failed \cup {x}
           t == Failing(s, x)
<1>1. n \in Failures
  BY SwitchFields DEF Failures
<1>2. t = [s EXCEPT !.failed = n]
  BY DEF Failing, Switch
<1> HIDE DEF n, t
<1>3. t \in Switch /\ t.failed = n
  BY <1>1, <1>2 DEF Switch
<1> QED BY <1>2, <1>3 DEF n, t, Switch, SameBooks, SameOrders

(* A device becomes free. *)
LEMMA FreedDoes ==
  ASSUME NEW s \in Switch, Books(s), NEW d \in Port
  PROVE  LET t == [s EXCEPT !.m_txMachineState[d] = "READY"]
         IN  /\ Kept(s, t) /\ t.failed = s.failed
             /\ NoBack(s) => NoBack(t)
             /\ ServedBut(s, {}) => ServedBut(t, {d})
<1> DEFINE x == Put(s.m_txMachineState, d, "READY")
           t == [s EXCEPT !.m_txMachineState[d] = "READY"]
<1>1. s.m_txMachineState \in States
  BY SwitchFields
<1>2. x \in States /\ \A e \in Port : e # d => x[e] = s.m_txMachineState[e]
  BY <1>1 DEF States, Put
<1>3. t = [s EXCEPT !.m_txMachineState = x]
  BY <1>1 DEF Switch, States, Put
<1> HIDE DEF x, t
<1>4. t \in Switch /\ t.m_txMachineState = x
  BY <1>2, <1>3 DEF Switch
<1>5. /\ SameBooks(s, t) /\ SameOrders(s, t) /\ t.paused = s.paused
      /\ t.m_queues = s.m_queues /\ t.wire_out = s.wire_out /\ t.failed = s.failed
  BY <1>3 DEF Switch, SameBooks, SameOrders
<1>6. Books(t)
  BY <1>5 DEF Books, SameBooks
<1>7. \A e \in Port : Pipe(t, e) = Pipe(s, e)
  BY <1>5 DEF Pipe
<1>8. \A i, o \in Port, q \in Queue : Excess(t, i, o, q) = Excess(s, i, o, q)
  BY <1>5 DEF Excess, SameBooks
<1>9. Kept(s, t)
  BY <1>4, <1>5, <1>6, <1>7, <1>8 DEF Kept
<1>10. NoBack(s) => NoBack(t)
  BY <1>5 DEF NoBack
<1>11. ServedBut(s, {}) => ServedBut(t, {d})
  BY <1>2, <1>4, <1>5 DEF ServedBut, SameOrders
<1> QED BY <1>5, <1>9, <1>10, <1>11 DEF t

(* A link is taken down: its queues are emptied, and the books do not hear *)
(* of it. *)
LEMMA TakenDownDoes ==
  ASSUME NEW s \in Switch, Books(s), Covered(s), ServedBut(s, {}), NEW d \in Port
  PROVE  LET t == TakenDown(s, d)
         IN  /\ t \in Switch /\ Books(t) /\ Covered(t) /\ ServedBut(t, {})
             /\ t.failed = s.failed /\ (NoBack(s) => NoBack(t))
             /\ t.m_linkUp = Put(s.m_linkUp, d, FALSE) /\ ~t.m_linkUp[d]
             /\ \A e \in Port : e # d =>
                  /\ t.m_linkUp[e] = s.m_linkUp[e] /\ t.m_paused[e] = s.m_paused[e]
                  /\ t.paused[e] = s.paused[e] /\ Pipe(t, e) = Pipe(s, e)
<1> DEFINE g == Put(s.m_paused, d, [q \in Queue |-> FALSE])
           v == Put(s.m_queues, d, E!EmptyQueues)
           u == Put(s.m_linkUp, d, FALSE)
           t == TakenDown(s, d)
<1>1. s.m_paused \in Flags /\ s.m_queues \in Queues /\ s.m_linkUp \in Links
  BY SwitchFields
<1>2. /\ g \in Flags /\ u \in Links /\ ~u[d]
      /\ \A e \in Port : e # d => g[e] = s.m_paused[e] /\ u[e] = s.m_linkUp[e]
  BY <1>1 DEF Flags, Links, Put
<1>3. /\ v \in Queues /\ v[d] = E!EmptyQueues
      /\ \A e \in Port : e # d => v[e] = s.m_queues[e]
  <2>1. /\ E!EmptyQueues \in [QIndex -> Seq(InFrame)]
        /\ \A q \in Queue : E!EmptyQueues[q] = <<>> /\ <<>> \in Seq(PacketIn)
    <3>1. E!QIndex = QIndex
      BY DEF E!QIndex, QIndex
    <3> QED BY <3>1, Indices DEF E!EmptyQueues
  <2>2. v \in [Port -> [QIndex -> Seq(InFrame)]] /\ v[d] = E!EmptyQueues
        /\ \A e \in Port : e # d => v[e] = s.m_queues[e]
    <3> DEFINE y == E!EmptyQueues
    <3>1. y \in [QIndex -> Seq(InFrame)]
      BY <2>1
    <3> HIDE DEF y
    <3>2. s.m_queues \in [Port -> [QIndex -> Seq(InFrame)]] /\ v = Put(s.m_queues, d, y)
      BY <1>1 DEF Queues, y
    <3> HIDE DEF v
    <3> QED BY <3>1, <3>2 DEF Put, y
  <2> HIDE DEF v
  <2>3. \A e \in Port, q \in Queue : v[e][q] \in Seq(PacketIn)
    BY <1>1, <2>1, <2>2 DEF Queues
  <2> QED BY <2>2, <2>3 DEF Queues
<1>4. t = [s EXCEPT !.m_paused = g, !.m_queues = v, !.m_linkUp = u]
  BY <1>1 DEF TakenDown, Switch, Flags, Queues, Links, Put
<1>5. \A q \in Queue : v[d][q] = <<>>
  <2>1. \A q \in Queue : q \in E!QIndex
    BY Indices DEF E!QIndex, QIndex
  <2> QED BY <1>3, <2>1 DEF E!EmptyQueues
<1> HIDE DEF g, v, t
<1>6. t \in Switch /\ t.m_paused = g /\ t.m_queues = v /\ t.m_linkUp = u
  BY <1>2, <1>3, <1>4 DEF Switch
<1>7. SameBooks(s, t) /\ t.paused = s.paused /\ t.failed = s.failed
      /\ t.wire_out = s.wire_out /\ t.m_txMachineState = s.m_txMachineState
  BY <1>4 DEF Switch, SameBooks
<1>8. Books(t)
  BY <1>7 DEF Books, SameBooks
<1>9. ASSUME NEW i \in Port, NEW o \in Port, NEW q \in Queue
      PROVE  Excess(t, i, o, q) >= 0
  <2>1. Excess(s, i, o, q) >= 0
    BY DEF Covered
  <2>2. CASE o # d
    BY <1>3, <1>6, <1>7, <2>1, <2>2 DEF Excess, SameBooks
  <2>3. CASE o = d
    <3>1. BytesIn(t.m_queues[o][q], i) = 0
      BY <1>5, <1>6, <2>3, BytesInEmpty
    <3>2. s.m_bytes[i][o][q] \in Int /\ s.m_bytes[i][o][q] >= 0
      <4>1. s.m_bytes \in Matrix /\ q \in QIndex
        BY SwitchFields, Indices
      <4> QED BY <4>1 DEF Matrix, Books
    <3> QED BY <1>7, <3>1, <3>2 DEF Excess, SameBooks
  <2> QED BY <2>2, <2>3
<1>10. Covered(t)
  BY <1>9 DEF Covered
<1>11. ServedBut(t, {})
  BY <1>2, <1>3, <1>6, <1>7 DEF ServedBut
<1>12. ASSUME NoBack(s) PROVE NoBack(t)
  <2>1. \A q \in Queue : Len(t.m_queues[d][q]) = 0
    BY <1>5, <1>6
  <2>2. \A e \in Port : e # d => t.m_queues[e] = s.m_queues[e]
    BY <1>3, <1>6
  <2> QED BY <1>12, <2>1, <2>2 DEF NoBack
<1>13. \A e \in Port : e # d => Pipe(t, e) = Pipe(s, e)
  BY <1>3, <1>6, <1>7 DEF Pipe
<1> QED BY <1>2, <1>6, <1>7, <1>8, <1>10, <1>11, <1>12, <1>13 DEF t

-----------------------------------------------------------------------------
(* The inductive invariant.                                                *)

(* No route leads a data flow back out of the port it comes in through,    *)
(* whatever links are down. *)
NoWayBack ==
  \A down \in SUBSET Port, f \in Flow : Class[f] # 0 => Route[down][f] # Origin[f]

(* No data packet is led back, as far as that can be told now. *)
Safe == NoWayBack \/ spent.down = 0

Spending == [pfc : [Port -> Nat], ctrl : Nat, loss : Nat, down : Nat]

Typed ==
  /\ sw \in Switch
  /\ wire_in \in [Port -> Seq(WireFrame)]
  /\ peer_paused \in Flags /\ peer_asked \in Flags
  /\ spent \in Spending
  /\ m_rtTable = Route[{e \in Port : ~sw.m_linkUp[e]}]

Balanced ==
  /\ Books(sw) /\ Covered(sw)
  /\ spent.down = 0 => \A i, o \in Port, q \in Queue : Excess(sw, i, o, q) = 0

(* Which assertions may have failed. *)
Asserted ==
  /\ Safe => NoBack(sw) /\ NotReady \notin sw.failed
  /\ NotUp \notin sw.failed
  /\ spent.loss = 0 => NotPaused \notin sw.failed

(* What the neighbour at d sends comes in through d, and was not led back   *)
(* there when it was sent. *)
FromHere(d) ==
  \A k \in 1..Len(wire_in[d]) :
    wire_in[d][k].kind = "data" =>
      /\ Origin[wire_in[d][k].flow] = d
      /\ spent.down = 0 => m_rtTable[wire_in[d][k].flow] # d

(* The PFC frames on their way, as long as none was lost: to the neighbour, *)
(* they lead from what it does to what the MMU decided; from it, from what  *)
(* the device does to what the neighbour asked for last. *)
Signals ==
  spent.loss = 0 => \A d \in Port, q \in Queue : sw.m_linkUp[d] =>
    /\ Leads(Pipe(sw, d), q, peer_paused[d][q], sw.paused[d][q])
    /\ Leads(wire_in[d], q, sw.m_paused[d][q], peer_asked[d][q])

IInv ==
  /\ Typed
  /\ Balanced
  /\ ServedBut(sw, {})
  /\ Asserted
  /\ \A d \in Port : FromHere(d)
  /\ Signals

(* The routes in use lead over links that are up. *)
LEMMA RoutesUp ==
  ASSUME Typed
  PROVE  /\ m_rtTable \in [Flow -> 0..NPort]
         /\ \A f \in Flow : m_rtTable[f] # 0 => m_rtTable[f] \in Port /\ sw.m_linkUp[m_rtTable[f]]
<1> DEFINE dead == {e \in Port : ~sw.m_linkUp[e]}
<1>1. dead \in SUBSET Port /\ m_rtTable = Route[dead]
  BY DEF Typed
<1> HIDE DEF dead
<1>2. m_rtTable \in [Flow -> 0..NPort] /\ \A f \in Flow : m_rtTable[f] \notin dead
  BY <1>1, SwitchFlows
<1>3. \A f \in Flow : m_rtTable[f] # 0 => m_rtTable[f] \in Port
  BY <1>2, Indices
<1> QED BY <1>2, <1>3 DEF dead

(* A data packet on the wire is not led back, while that is safe. *)
LEMMA NotLedBack ==
  ASSUME Typed, Safe, NEW d \in Port, FromHere(d), NEW k \in 1..Len(wire_in[d]),
         wire_in[d][k].kind = "data", Class[wire_in[d][k].flow] # 0,
         wire_in[d][k].flow \in Flow
  PROVE  m_rtTable[wire_in[d][k].flow] # d
<1>1. CASE NoWayBack
  <2>1. m_rtTable = Route[{e \in Port : ~sw.m_linkUp[e]}]
    BY DEF Typed
  <2>2. Origin[wire_in[d][k].flow] = d
    BY DEF FromHere
  <2> QED BY <1>1, <2>1, <2>2 DEF NoWayBack
<1>2. CASE spent.down = 0
  BY <1>2 DEF FromHere
<1> QED BY <1>1, <1>2 DEF Safe

(* The head of the frames from neighbour d. *)
LEMMA ArrivalHead ==
  ASSUME Typed, NEW d \in Port, wire_in[d] # <<>>
  PROVE  /\ 1 \in 1..Len(wire_in[d]) /\ Head(wire_in[d]) = wire_in[d][1]
         /\ Head(wire_in[d]) \in WireFrame
         /\ Tail(wire_in[d]) \in Seq(WireFrame)
         /\ Len(Tail(wire_in[d])) = Len(wire_in[d]) - 1
         /\ \A k \in 1..(Len(wire_in[d]) - 1) :
              Tail(wire_in[d])[k] = wire_in[d][k + 1] /\ k + 1 \in 1..Len(wire_in[d])
<1> DEFINE w == wire_in[d]
<1>1. w \in Seq(WireFrame) /\ w # <<>>
  BY DEF Typed
<1> HIDE DEF w
<1>2. Len(w) \in Nat /\ Len(w) >= 1 /\ Head(w) = w[1] /\ Head(w) \in WireFrame
      /\ Tail(w) \in Seq(WireFrame) /\ Len(Tail(w)) = Len(w) - 1
      /\ \A k \in 1..(Len(w) - 1) : Tail(w)[k] = w[k + 1]
  BY <1>1, HeadTailProperties, LenProperties, EmptySeq
<1>3. 1 \in 1..Len(w) /\ \A k \in 1..(Len(w) - 1) : k + 1 \in 1..Len(w)
  BY <1>2
<1> QED BY <1>2, <1>3 DEF w

(* Frames that leave the wire, or stay, leave the rest as it was. *)
LEMMA FromHereShorter ==
  ASSUME Typed, NEW d \in Port, wire_in[d] # <<>>,
         wire_in' = [wire_in EXCEPT ![d] = Tail(@)], m_rtTable' = m_rtTable,
         spent'.down = spent.down, \A e \in Port : FromHere(e)
  PROVE  /\ wire_in' \in [Port -> Seq(WireFrame)] /\ wire_in'[d] = Tail(wire_in[d])
         /\ \A e \in Port : e # d => wire_in'[e] = wire_in[e]
         /\ \A e \in Port : FromHere(e)'
<1>1. /\ wire_in' \in [Port -> Seq(WireFrame)] /\ wire_in'[d] = Tail(wire_in[d])
      /\ \A e \in Port : e # d => wire_in'[e] = wire_in[e]
  <2> DEFINE w == Tail(wire_in[d])
  <2>1. w \in Seq(WireFrame) /\ wire_in' = [wire_in EXCEPT ![d] = w]
    BY ArrivalHead
  <2> HIDE DEF w
  <2>2. wire_in \in [Port -> Seq(WireFrame)]
    BY DEF Typed
  <2>3. /\ wire_in' \in [Port -> Seq(WireFrame)] /\ wire_in'[d] = w
        /\ \A e \in Port : e # d => wire_in'[e] = wire_in[e]
    BY <2>1, <2>2
  <2> QED BY <2>3 DEF w
<1>2. ASSUME NEW e \in Port, NEW k \in 1..Len(wire_in'[e]), wire_in'[e][k].kind = "data"
      PROVE  /\ Origin[wire_in'[e][k].flow] = e
             /\ spent'.down = 0 => m_rtTable'[wire_in'[e][k].flow] # e
  <2>1. \E j \in 1..Len(wire_in[e]) : wire_in'[e][k] = wire_in[e][j]
    <3>1. CASE e = d
      <4>1. k \in 1..(Len(wire_in[d]) - 1) /\ wire_in'[e] = Tail(wire_in[d])
        BY <1>1, <1>2, <3>1, ArrivalHead
      <4> QED BY <3>1, <4>1, ArrivalHead
    <3>2. CASE e # d
      BY <1>1, <1>2, <3>2
    <3> QED BY <3>1, <3>2
  <2> QED BY <1>2, <2>1 DEF FromHere
<1>3. \A e \in Port : FromHere(e)'
  BY <1>2 DEF FromHere
<1> QED BY <1>1, <1>3

(* An event that upholds the switch, while no bound is used up and no route *)
(* changes. *)
LEMMA UpheldStep ==
  ASSUME IInv, Upheld(sw, sw'), sw'.failed \subseteq sw.failed \cup {NotReady},
         Safe => Onward(sw, sw'), m_rtTable' = m_rtTable, spent' = spent
  PROVE  /\ sw' \in Switch /\ m_rtTable' = Route[{e \in Port : ~sw'.m_linkUp[e]}]
         /\ Balanced' /\ Asserted' /\ sw'.m_linkUp = sw.m_linkUp
         /\ spent.loss = 0 => \A d \in Port, q \in Queue : sw.m_linkUp[d] =>
              Leads(Pipe(sw', d), q, peer_paused[d][q], sw'.paused[d][q])
<1>1. sw \in Switch /\ sw' \in Switch /\ sw'.m_linkUp = sw.m_linkUp
  BY DEF IInv, Typed, Upheld
<1>2. m_rtTable' = Route[{e \in Port : ~sw'.m_linkUp[e]}]
  BY <1>1 DEF IInv, Typed
<1>3. Balanced'
  <2>1. /\ Books(sw) /\ Covered(sw)
        /\ spent.down = 0 => \A i, o \in Port, q \in Queue : Excess(sw, i, o, q) = 0
    BY DEF IInv, Balanced
  <2>2. Books(sw') /\ \A i, o \in Port, q \in Queue : Excess(sw', i, o, q) = Excess(sw, i, o, q)
    BY DEF Upheld
  <2>3. Covered(sw')
    BY <2>1, <2>2 DEF Covered
  <2>4. spent'.down = 0 => \A i, o \in Port, q \in Queue : Excess(sw', i, o, q) = 0
    BY <2>1, <2>2
  <2> QED BY <2>2, <2>3, <2>4 DEF Balanced
<1>4. Asserted'
  <2>1. /\ Safe => NoBack(sw) /\ NotReady \notin sw.failed
        /\ NotUp \notin sw.failed
        /\ spent.loss = 0 => NotPaused \notin sw.failed
    BY DEF IInv, Asserted
  <2>2. Safe' => Safe
    BY DEF Safe
  <2>3. NotUp \notin sw'.failed /\ (spent'.loss = 0 => NotPaused \notin sw'.failed)
    BY <2>1 DEF NotUp, NotReady, NotPaused
  <2>4. Safe' => NoBack(sw') /\ NotReady \notin sw'.failed
    BY <2>1, <2>2 DEF Onward
  <2> QED BY <2>3, <2>4 DEF Asserted
<1>5. ASSUME spent.loss = 0, NEW d \in Port, NEW q \in Queue, sw.m_linkUp[d]
      PROVE  Leads(Pipe(sw', d), q, peer_paused[d][q], sw'.paused[d][q])
  <2>1. Leads(Pipe(sw, d), q, peer_paused[d][q], sw.paused[d][q])
    BY <1>5 DEF IInv, Signals
  <2>2. peer_paused[d][q] \in BOOLEAN
    BY DEF IInv, Typed, Flags
  <2> QED BY <2>1, <2>2 DEF Upheld
<1> QED BY <1>1, <1>2, <1>3, <1>4, <1>5

(* A transmission completes. *)
LEMMA TransmitCompleteKeeps ==
  ASSUME IInv, NEW d \in Port, TransmitComplete(d)
  PROVE  IInv'
<1> DEFINE u == [sw EXCEPT !.m_txMachineState[d] = "READY"]
<1>1. sw \in Switch /\ Books(sw) /\ Covered(sw) /\ ServedBut(sw, {})
  BY DEF IInv, Typed, Balanced
<1>2. /\ Kept(sw, u) /\ u.failed = sw.failed
      /\ NoBack(sw) => NoBack(u)
      /\ ServedBut(u, {d})
  BY <1>1, FreedDoes
<1>3. sw' = DequeueAndTransmit(u, d) /\ UNCHANGED <<m_rtTable, wire_in, peer_vars, spent>>
  BY DEF TransmitComplete
<1> HIDE DEF u
<1>4. u \in Switch /\ Books(u) /\ Covered(u)
  BY <1>1, <1>2, KeptCovered DEF Kept
<1>5. /\ Kept(u, sw') /\ sw'.failed \subseteq u.failed \cup {NotReady}
      /\ NoBack(u) => NoBack(sw') /\ sw'.failed = u.failed
      /\ ServedBut(sw', {})
  BY <1>2, <1>3, <1>4, DequeueAndTransmitDoes
<1>6. Kept(sw, sw')
  BY <1>2, <1>5, KeptTwice
<1>7. Upheld(sw, sw') /\ SameOrders(sw, sw') /\ Onward(sw, sw')
  BY <1>2, <1>5, <1>6, KeptUpheld DEF Kept, Onward
<1>8. sw'.failed \subseteq sw.failed \cup {NotReady}
  BY <1>2, <1>5
<1>9. /\ m_rtTable' = m_rtTable /\ spent' = spent /\ wire_in' = wire_in
      /\ peer_paused' = peer_paused /\ peer_asked' = peer_asked
  BY <1>3 DEF peer_vars
<1>10. /\ sw' \in Switch /\ m_rtTable' = Route[{e \in Port : ~sw'.m_linkUp[e]}]
       /\ Balanced' /\ Asserted' /\ sw'.m_linkUp = sw.m_linkUp
       /\ spent.loss = 0 => \A e \in Port, q \in Queue : sw.m_linkUp[e] =>
            Leads(Pipe(sw', e), q, peer_paused[e][q], sw'.paused[e][q])
  BY <1>7, <1>8, <1>9, UpheldStep
<1>11. Typed'
  BY <1>9, <1>10 DEF IInv, Typed
<1>12. \A e \in Port : FromHere(e)'
  BY <1>9 DEF IInv, FromHere
<1>13. Signals'
  BY <1>7, <1>9, <1>10 DEF IInv, Signals, SameOrders
<1> QED BY <1>5, <1>10, <1>11, <1>12, <1>13 DEF IInv

(* The first frame on its way from a neighbour changes what the device does *)
(* if it is a PFC frame, and the rest leads on. *)
LEMMA ArrivalLeads ==
  ASSUME IInv, spent.loss = 0, NEW d \in Port, wire_in[d] # <<>>, sw.m_linkUp[d], NEW q \in Queue
  PROVE  LET p == Head(wire_in[d])
         IN  /\ Changes(p, q, sw.m_paused[d][q])
             /\ Leads(Tail(wire_in[d]), q, After(p, q, sw.m_paused[d][q]), peer_asked[d][q])
<1> DEFINE w == wire_in[d]
           a == sw.m_paused[d][q]
           b == peer_asked[d][q]
<1>1. w \in Seq(WireFrame) /\ w # <<>>
  BY DEF IInv, Typed
<1>2. a \in BOOLEAN /\ b \in BOOLEAN
  <2>1. sw.m_paused \in Flags /\ peer_asked \in Flags
    BY SwitchFields DEF IInv, Typed
  <2> QED BY <2>1 DEF Flags
<1>3. Leads(w, q, a, b)
  BY DEF IInv, Signals
<1> HIDE DEF w, a, b
<1>4. Changes(Head(w), q, a) /\ Leads(Tail(w), q, After(Head(w), q, a), b)
  BY <1>1, <1>2, <1>3, LeadsTail
<1> QED BY <1>4 DEF w, a, b

(* What a frame from neighbour d makes of the switch when it is received.  *)
LEMMA ReceivedDoes ==
  ASSUME IInv, NEW d \in Port, wire_in[d] # <<>>, sw.m_linkUp[d]
  PROVE  LET p == Head(wire_in[d])
             t == Received(sw, d, p)
         IN  /\ t \in Switch /\ ServedBut(t, {})
             /\ p.kind = "resume" => sw.m_paused[d][p.q] \/ t = Failing(sw, NotPaused)
             /\ p.kind = "resume" /\ ~sw.m_paused[d][p.q] => spent.loss # 0
             /\ ~(p.kind = "resume" /\ ~sw.m_paused[d][p.q]) =>
                  /\ Upheld(sw, t) /\ t.failed \subseteq sw.failed \cup {NotReady}
                  /\ Safe => Onward(sw, t)
                  /\ \A q \in Queue : t.m_paused[d][q] = After(p, q, sw.m_paused[d][q])
                  /\ \A e \in Port, q \in Queue :
                       e # d => t.m_paused[e][q] = sw.m_paused[e][q]
<1> DEFINE p == Head(wire_in[d])
           t == Received(sw, d, p)
<1>1. sw \in Switch /\ Books(sw) /\ Covered(sw) /\ ServedBut(sw, {}) /\ Typed
  BY DEF IInv, Typed, Balanced
<1>2. p \in WireFrame /\ 1 \in 1..Len(wire_in[d]) /\ p = wire_in[d][1]
  BY <1>1, ArrivalHead
<1>3. sw.m_paused \in Flags
  BY <1>1, SwitchFields
<1> HIDE DEF p, t
<1>4. \/ p \in Arrival /\ p.kind = "data"
      \/ p \in PfcFrame /\ p.q \in Queue /\ p.kind \in {"pause", "resume"}
  BY <1>2 DEF WireFrame, Arrival, PfcFrame, PfcKind
<1>5. CASE p \in Arrival /\ p.kind = "data"
  <2>1. t = SendToDev(sw, d, p)
    BY <1>5 DEF t, Received, p
  <2>2. /\ Carried(sw, t)
        /\ (Class[p.flow] # 0 => m_rtTable[p.flow] # d) => Onward(sw, t)
    BY <1>1, <1>5, <2>1, RoutesUp, SendToDevDoes
  <2>3. Safe => (Class[p.flow] # 0 => m_rtTable[p.flow] # d)
    <3>1. p.flow \in Flow /\ FromHere(d)
      BY <1>5 DEF Arrival, IInv
    <3> QED BY <1>1, <1>2, <1>5, <3>1, NotLedBack
  <2>4. Kept(sw, t) /\ t.failed \subseteq sw.failed \cup {NotReady} /\ ServedBut(t, {})
    BY <1>1, <2>2 DEF Carried
  <2>5. Upheld(sw, t) /\ t \in Switch /\ t.m_paused = sw.m_paused
    BY <2>4, KeptUpheld DEF Kept, SameOrders
  <2>6. \A q \in Queue : After(p, q, sw.m_paused[d][q]) = sw.m_paused[d][q]
    BY <1>5 DEF After, PfcKind
  <2> QED BY <1>5, <2>2, <2>3, <2>4, <2>5, <2>6 DEF p, t
<1>6. CASE p \in PfcFrame /\ p.q \in Queue /\ p.kind = "pause"
  <2>1. t = Ordered(sw, d, p.q, TRUE)
    BY <1>6 DEF t, Received, Ordered, p
  <2>2. /\ Upheld(sw, t) /\ t.failed = sw.failed
        /\ NoBack(sw) => NoBack(t)
        /\ ServedBut(t, {})
        /\ t.m_paused[d][p.q] = TRUE
        /\ \A e \in Port, r \in Queue : e # d \/ r # p.q => t.m_paused[e][r] = sw.m_paused[e][r]
    <3> DEFINE x == p.q
    <3>1. x \in Queue /\ t = Ordered(sw, d, x, TRUE)
      BY <1>6, <2>1
    <3> HIDE DEF x
    <3>2. Orders(sw, t, d, x, TRUE)
      BY <1>1, <3>1, OrderedDoes
    <3> QED BY <1>1, <3>2 DEF Orders, x
  <2>3. \A q \in Queue : t.m_paused[d][q] = After(p, q, sw.m_paused[d][q])
    <3>1. ASSUME NEW q \in Queue PROVE t.m_paused[d][q] = After(p, q, sw.m_paused[d][q])
      <4>1. p.kind \in PfcKind /\ (p.kind = "pause") = TRUE
        BY <1>6 DEF PfcKind
      <4> QED BY <2>2, <4>1 DEF After
    <3> QED BY <3>1
  <2>4. t \in Switch /\ Onward(sw, t)
    BY <2>2 DEF Upheld, Onward
  <2> QED BY <1>6, <2>2, <2>3, <2>4 DEF p, t
<1>7. CASE p \in PfcFrame /\ p.q \in Queue /\ p.kind = "resume"
  <2> DEFINE u == Ordered(sw, d, p.q, FALSE)
  <2>1. t = Resumed(sw, d, p.q)
    BY <1>7 DEF t, Received, p
  <2>2. /\ t \in Switch /\ ServedBut(t, {})
        /\ sw.m_paused[d][p.q] => /\ Upheld(sw, t)
                                  /\ t.failed \subseteq sw.failed \cup {NotReady}
                                  /\ Onward(sw, t)
                                  /\ t.m_paused = u.m_paused
        /\ ~sw.m_paused[d][p.q] => t = Failing(sw, NotPaused)
    BY <1>1, <1>7, <2>1, ResumedDoes
  <2>3. /\ u.m_paused[d][p.q] = FALSE
        /\ \A e \in Port, r \in Queue : e # d \/ r # p.q => u.m_paused[e][r] = sw.m_paused[e][r]
    <3> DEFINE x == p.q
    <3>1. x \in Queue /\ u = Ordered(sw, d, x, FALSE)
      BY <1>7
    <3> HIDE DEF x, u
    <3>2. Orders(sw, u, d, x, FALSE)
      BY <1>1, <3>1, OrderedDoes
    <3> QED BY <1>1, <3>2 DEF Orders, x
  <2> HIDE DEF u
  <2>4. ASSUME NEW q \in Queue PROVE u.m_paused[d][q] = After(p, q, sw.m_paused[d][q])
    <3>1. p.kind \in PfcKind /\ (p.kind = "pause") = FALSE
      BY <1>7 DEF PfcKind
    <3> QED BY <2>3, <3>1 DEF After
  <2>5. ~sw.m_paused[d][p.q] => spent.loss # 0
    <3>1. spent.loss = 0 => Changes(p, p.q, sw.m_paused[d][p.q])
      BY <1>7, ArrivalLeads DEF p
    <3>2. p.kind \in PfcKind /\ (p.kind = "pause") = FALSE
      BY <1>7 DEF PfcKind
    <3>3. sw.m_paused[d][p.q] \in BOOLEAN
      BY <1>3, <1>7 DEF Flags
    <3> QED BY <3>1, <3>2, <3>3 DEF Changes
  <2>6. /\ p.kind = "resume" => sw.m_paused[d][p.q] \/ t = Failing(sw, NotPaused)
        /\ p.kind = "resume" /\ ~sw.m_paused[d][p.q] => spent.loss # 0
    BY <2>2, <2>5
  <2>7. ASSUME sw.m_paused[d][p.q]
        PROVE  /\ Upheld(sw, t) /\ t.failed \subseteq sw.failed \cup {NotReady}
               /\ Safe => Onward(sw, t)
               /\ \A q \in Queue : t.m_paused[d][q] = After(p, q, sw.m_paused[d][q])
               /\ \A e \in Port, q \in Queue : e # d => t.m_paused[e][q] = sw.m_paused[e][q]
    BY <2>2, <2>3, <2>4, <2>7
  <2> QED BY <1>7, <2>2, <2>6, <2>7 DEF p, t
<1> QED BY <1>4, <1>5, <1>6, <1>7

(* A switch of which only the assertions that failed and the wires changed  *)
(* has the same balance. *)
LEMMA StoreSame ==
  ASSUME Balanced, ServedBut(sw, {}), sw' \in Switch, SameBooks(sw, sw'), SameOrders(sw, sw'),
         sw'.m_queues = sw.m_queues, sw'.m_txMachineState = sw.m_txMachineState,
         spent'.down = spent.down
  PROVE  Balanced' /\ ServedBut(sw', {}) /\ (NoBack(sw) => NoBack(sw'))
<1>1. Books(sw')
  BY DEF Balanced, Books, SameBooks
<1>2. \A i, o \in Port, q \in Queue : Excess(sw', i, o, q) = Excess(sw, i, o, q)
  BY DEF Excess, SameBooks
<1>3. Balanced'
  BY <1>1, <1>2 DEF Balanced, Covered
<1>4. ServedBut(sw', {})
  BY DEF ServedBut, SameOrders
<1>5. NoBack(sw) => NoBack(sw')
  BY DEF NoBack
<1> QED BY <1>3, <1>4, <1>5

(* A frame arrives. *)
LEMMA ReceiveKeeps ==
  ASSUME IInv, NEW d \in Port, Receive(d)
  PROVE  IInv'
<1> DEFINE p == Head(wire_in[d])
           t == Received(sw, d, p)
<1>1. /\ sw \in Switch /\ Typed /\ Balanced /\ ServedBut(sw, {}) /\ Asserted
      /\ \A e \in Port : FromHere(e)
  BY DEF IInv, Typed
<1>2. /\ wire_in[d] # <<>> /\ wire_in' = [wire_in EXCEPT ![d] = Tail(@)]
      /\ sw' = (IF sw.m_linkUp[d] THEN t ELSE sw)
      /\ m_rtTable' = m_rtTable /\ spent' = spent
      /\ peer_paused' = peer_paused /\ peer_asked' = peer_asked
  BY DEF Receive, Arriving, peer_vars
<1> HIDE DEF t, p
<1>3. /\ wire_in' \in [Port -> Seq(WireFrame)] /\ wire_in'[d] = Tail(wire_in[d])
      /\ \A e \in Port : e # d => wire_in'[e] = wire_in[e]
      /\ \A e \in Port : FromHere(e)'
  BY <1>1, <1>2, FromHereShorter
<1>4. sw.m_linkUp \in Links
  BY <1>1, SwitchFields
<1>5. CASE ~sw.m_linkUp[d]
  <2>1. sw' = sw
    BY <1>2, <1>5
  <2>2. Typed' /\ Balanced' /\ ServedBut(sw', {})
    BY <1>1, <1>2, <1>3, <2>1 DEF Typed, Balanced
  <2>3. Asserted'
    BY <1>1, <1>2, <2>1 DEF Asserted, Safe
  <2>4. Signals'
    <3>1. \A e \in Port, q \in Queue : sw.m_linkUp[e] =>
             /\ wire_in'[e] = wire_in[e] /\ sw' = sw /\ spent' = spent
             /\ peer_paused' = peer_paused /\ peer_asked' = peer_asked
      BY <1>2, <1>3, <1>5, <2>1
    <3> QED BY <3>1, <2>1, <1>2 DEF IInv, Signals
  <2> QED BY <1>3, <2>2, <2>3, <2>4 DEF IInv
<1>6. CASE sw.m_linkUp[d]
  <2>1. sw' = t
    BY <1>2, <1>6
  <2>2. /\ sw' \in Switch /\ ServedBut(sw', {})
        /\ p.kind = "resume" => sw.m_paused[d][p.q] \/ sw' = Failing(sw, NotPaused)
        /\ p.kind = "resume" /\ ~sw.m_paused[d][p.q] => spent.loss # 0
        /\ ~(p.kind = "resume" /\ ~sw.m_paused[d][p.q]) =>
             /\ Upheld(sw, sw') /\ sw'.failed \subseteq sw.failed \cup {NotReady}
             /\ Safe => Onward(sw, sw')
             /\ \A q \in Queue : sw'.m_paused[d][q] = After(p, q, sw.m_paused[d][q])
             /\ \A e \in Port, q \in Queue :
                  e # d => sw'.m_paused[e][q] = sw.m_paused[e][q]
    BY <1>2, <1>6, <2>1, ReceivedDoes DEF p, t
  <2>3. CASE p.kind = "resume" /\ ~sw.m_paused[d][p.q]
    <3>1. sw' = Failing(sw, NotPaused) /\ spent.loss # 0
      BY <2>2, <2>3
    <3>2. /\ SameBooks(sw, sw') /\ SameOrders(sw, sw') /\ sw'.m_queues = sw.m_queues
          /\ sw'.m_txMachineState = sw.m_txMachineState
          /\ sw'.failed = sw.failed \cup {NotPaused}
      BY <1>1, <3>1, FailingDoes
    <3>3. Balanced' /\ (NoBack(sw) => NoBack(sw'))
      BY <1>1, <1>2, <2>2, <3>2, StoreSame
    <3>4. Typed'
      BY <1>1, <1>2, <1>3, <2>2, <3>2 DEF Typed, SameOrders
    <3>5. Asserted'
      BY <1>1, <1>2, <3>1, <3>2, <3>3 DEF Asserted, Safe, NotPaused, NotReady, NotUp
    <3>6. Signals'
      BY <1>2, <3>1 DEF Signals
    <3> QED BY <1>3, <2>2, <3>3, <3>4, <3>5, <3>6 DEF IInv
  <2>4. CASE ~(p.kind = "resume" /\ ~sw.m_paused[d][p.q])
    <3>1. /\ Upheld(sw, sw') /\ sw'.failed \subseteq sw.failed \cup {NotReady}
          /\ Safe => Onward(sw, sw')
          /\ \A q \in Queue : sw'.m_paused[d][q] = After(p, q, sw.m_paused[d][q])
          /\ \A e \in Port, q \in Queue : e # d => sw'.m_paused[e][q] = sw.m_paused[e][q]
      BY <2>2, <2>4
    <3>2. /\ sw' \in Switch /\ m_rtTable' = Route[{e \in Port : ~sw'.m_linkUp[e]}]
          /\ Balanced' /\ Asserted' /\ sw'.m_linkUp = sw.m_linkUp
          /\ spent.loss = 0 => \A e \in Port, q \in Queue : sw.m_linkUp[e] =>
               Leads(Pipe(sw', e), q, peer_paused[e][q], sw'.paused[e][q])
      BY <1>2, <3>1, UpheldStep
    <3>3. Typed'
      BY <1>1, <1>2, <1>3, <3>2 DEF Typed
    <3>4. ASSUME spent.loss = 0, NEW e \in Port, NEW q \in Queue, sw.m_linkUp[e]
          PROVE  Leads(wire_in'[e], q, sw'.m_paused[e][q], peer_asked[e][q])
      <4>1. CASE e = d
        <5>1. Leads(Tail(wire_in[d]), q, After(p, q, sw.m_paused[d][q]), peer_asked[d][q])
          BY <1>2, <1>6, <3>4, ArrivalLeads DEF p
        <5> QED BY <1>3, <3>1, <4>1, <5>1
      <4>2. CASE e # d
        <5>1. Leads(wire_in[e], q, sw.m_paused[e][q], peer_asked[e][q])
          BY <3>4 DEF IInv, Signals
        <5> QED BY <1>3, <3>1, <4>2, <5>1
      <4> QED BY <4>1, <4>2
    <3>5. Signals'
      BY <1>2, <3>2, <3>4 DEF Signals
    <3> QED BY <1>3, <2>2, <3>2, <3>3, <3>5 DEF IInv
  <2> QED BY <2>3, <2>4
<1> QED BY <1>4, <1>5, <1>6 DEF Links

(* A link is taken down. *)
LEMMA TakeDownLinkKeeps ==
  ASSUME IInv, NEW d \in Port, TakeDownLink(d)
  PROVE  IInv'
<1>1. /\ sw \in Switch /\ Typed /\ Books(sw) /\ Covered(sw) /\ ServedBut(sw, {})
      /\ Asserted /\ spent \in Spending
  BY DEF IInv, Typed, Balanced
<1>2. /\ sw' = TakenDown(sw, d) /\ sw.failed = {}
      /\ m_rtTable' = Route[{e \in Port : ~sw'.m_linkUp[e]}]
      /\ peer_paused' = [peer_paused EXCEPT ![d] = [q \in Queue |-> FALSE]]
      /\ spent' = [spent EXCEPT !.down = @ + 1]
      /\ wire_in' = wire_in /\ peer_asked' = peer_asked
  BY DEF TakeDownLink, Running
<1>3. /\ sw' \in Switch /\ Books(sw') /\ Covered(sw') /\ ServedBut(sw', {})
      /\ sw'.failed = sw.failed /\ (NoBack(sw) => NoBack(sw'))
      /\ ~sw'.m_linkUp[d]
      /\ \A e \in Port : e # d =>
           /\ sw'.m_linkUp[e] = sw.m_linkUp[e] /\ sw'.m_paused[e] = sw.m_paused[e]
           /\ sw'.paused[e] = sw.paused[e] /\ Pipe(sw', e) = Pipe(sw, e)
  BY <1>1, <1>2, TakenDownDoes
<1>4. spent' \in Spending /\ spent'.down # 0 /\ spent'.loss = spent.loss
  BY <1>1, <1>2 DEF Spending
<1>5. /\ peer_paused' \in Flags
      /\ \A e \in Port : e # d => peer_paused'[e] = peer_paused[e]
  <2>1. peer_paused \in Flags
    BY <1>1 DEF Typed
  <2> QED BY <1>2, <2>1 DEF Flags
<1>6. Typed'
  BY <1>1, <1>2, <1>3, <1>4, <1>5 DEF Typed
<1>7. Balanced'
  BY <1>3, <1>4 DEF Balanced
<1>8. Asserted'
  <2>1. Safe' => Safe
    BY <1>4 DEF Safe
  <2> QED BY <1>1, <1>2, <1>3, <2>1 DEF Asserted
<1>9. \A e \in Port : FromHere(e)'
  BY <1>2, <1>4 DEF IInv, FromHere
<1>10. Signals'
  <2>1. ASSUME spent'.loss = 0, NEW e \in Port, NEW q \in Queue, sw'.m_linkUp[e]
        PROVE  /\ Leads(Pipe(sw', e), q, peer_paused'[e][q], sw'.paused[e][q])
               /\ Leads(wire_in'[e], q, sw'.m_paused[e][q], peer_asked'[e][q])
    <3>1. e # d
      BY <1>3, <2>1
    <3>2. /\ Leads(Pipe(sw, e), q, peer_paused[e][q], sw.paused[e][q])
          /\ Leads(wire_in[e], q, sw.m_paused[e][q], peer_asked[e][q])
      BY <1>3, <1>4, <2>1, <3>1 DEF IInv, Signals
    <3> QED BY <1>2, <1>3, <1>5, <3>1, <3>2
  <2> QED BY <2>1 DEF Signals
<1> QED BY <1>3, <1>6, <1>7, <1>8, <1>9, <1>10 DEF IInv

(* A neighbour puts a frame on the wire; the switch does not see it yet.    *)
LEMMA FrameSent ==
  ASSUME IInv, NEW d \in Port, NEW p \in WireFrame, sw' = sw, m_rtTable' = m_rtTable,
         wire_in' = [wire_in EXCEPT ![d] = Append(@, p)], peer_paused' = peer_paused,
         peer_asked' \in Flags, spent' \in Spending,
         spent'.down = spent.down, spent'.loss = spent.loss,
         p.kind = "data" => Origin[p.flow] = d /\ m_rtTable[p.flow] # d,
         \A q \in Queue : /\ Changes(p, q, peer_asked[d][q])
                          /\ peer_asked'[d][q] = After(p, q, peer_asked[d][q]),
         \A e \in Port : e # d => peer_asked'[e] = peer_asked[e]
  PROVE  IInv'
<1>1. /\ sw \in Switch /\ Typed /\ Balanced /\ ServedBut(sw, {}) /\ Asserted
      /\ wire_in \in [Port -> Seq(WireFrame)] /\ peer_asked \in Flags
      /\ \A e \in Port : FromHere(e)
  BY DEF IInv, Typed
<1> DEFINE w == wire_in[d]
           n == Len(w)
           v == Append(w, p)
<1>2. w \in Seq(WireFrame)
  BY <1>1
<1>3. /\ v \in Seq(WireFrame) /\ n \in Nat /\ Len(v) = n + 1 /\ v[n + 1] = p
      /\ \A k \in 1..n : v[k] = w[k]
  <2> HIDE DEF w
  <2> QED BY <1>2, AppendProperties, LenProperties
<1>4. wire_in' = [wire_in EXCEPT ![d] = v]
  OBVIOUS
<1> HIDE DEF v, n
<1>5. /\ wire_in' \in [Port -> Seq(WireFrame)] /\ wire_in'[d] = v
      /\ \A e \in Port : e # d => wire_in'[e] = wire_in[e]
  BY <1>1, <1>3, <1>4
<1>6. Typed' /\ Balanced' /\ ServedBut(sw', {}) /\ Asserted'
  <2>1. Typed'
    BY <1>1, <1>5 DEF Typed
  <2>2. Balanced' /\ ServedBut(sw', {})
    BY <1>1 DEF Balanced
  <2>3. Asserted'
    BY <1>1 DEF Asserted, Safe
  <2> QED BY <2>1, <2>2, <2>3
<1>7. ASSUME NEW e \in Port, NEW k \in 1..Len(wire_in'[e]), wire_in'[e][k].kind = "data"
      PROVE  /\ Origin[wire_in'[e][k].flow] = e
             /\ spent'.down = 0 => m_rtTable'[wire_in'[e][k].flow] # e
  <2>1. CASE e # d
    <3>1. wire_in'[e] = wire_in[e] /\ FromHere(e)
      BY <1>1, <1>5, <2>1
    <3> QED BY <1>7, <3>1 DEF FromHere
  <2>2. CASE e = d
    <3>1. k \in 1..n \/ k = n + 1
      BY <1>3, <1>5, <1>7, <2>2
    <3>2. CASE k = n + 1
      BY <1>3, <1>5, <1>7, <2>2, <3>2
    <3>3. CASE k \in 1..n
      <4>1. wire_in'[e][k] = wire_in[d][k] /\ k \in 1..Len(wire_in[d]) /\ FromHere(d)
        BY <1>1, <1>3, <1>5, <2>2, <3>3 DEF w, n
      <4> QED BY <1>7, <2>2, <4>1 DEF FromHere
    <3> QED BY <3>1, <3>2, <3>3
  <2> QED BY <2>1, <2>2
<1>8. \A e \in Port : FromHere(e)'
  BY <1>7 DEF FromHere
<1>9. ASSUME spent.loss = 0, NEW e \in Port, NEW q \in Queue, sw.m_linkUp[e]
      PROVE  /\ Leads(Pipe(sw, e), q, peer_paused[e][q], sw.paused[e][q])
             /\ Leads(wire_in'[e], q, sw.m_paused[e][q], peer_asked'[e][q])
  <2>1. /\ Leads(Pipe(sw, e), q, peer_paused[e][q], sw.paused[e][q])
        /\ Leads(wire_in[e], q, sw.m_paused[e][q], peer_asked[e][q])
    BY <1>9 DEF IInv, Signals
  <2>2. CASE e # d
    BY <1>5, <2>1, <2>2
  <2>3. CASE e = d
    <3> DEFINE a == sw.m_paused[d][q]
               b == peer_asked[d][q]
    <3>1. a \in BOOLEAN /\ b \in BOOLEAN
      <4>1. sw.m_paused \in Flags
        BY <1>1, SwitchFields
      <4> QED BY <1>1, <4>1 DEF Flags
    <3>2. Leads(w, q, a, b) /\ Changes(p, q, b) /\ peer_asked'[d][q] = After(p, q, b)
      BY <2>1, <2>3
    <3> HIDE DEF a, b, w
    <3>3. Leads(v, q, a, After(p, q, b))
      BY <1>2, <3>1, <3>2, LeadsAppend DEF v
    <3> QED BY <1>5, <2>1, <2>3, <3>2, <3>3 DEF a
  <2> QED BY <2>2, <2>3
<1>10. Signals'
  BY <1>9 DEF Signals
<1> QED BY <1>6, <1>8, <1>10 DEF IInv

LEMMA PeerSendKeeps ==
  ASSUME IInv, NEW f \in Flow, NEW size \in PktSize, PeerSend(f, size)
  PROVE  IInv'
<1> DEFINE d == Origin[f]
           p == Packet(f, size)
<1>1. d \in Port
  BY SwitchFlows
<1>2. p \in WireFrame /\ p.kind = "data" /\ p.flow = f
  BY DEF Packet, WireFrame, Arrival
<1>3. /\ m_rtTable[f] # d /\ wire_in' = [wire_in EXCEPT ![d] = Append(@, p)]
      /\ spent' = (IF Class[f] = 0 THEN [spent EXCEPT !.ctrl = @ + 1] ELSE spent)
      /\ sw' = sw /\ m_rtTable' = m_rtTable
      /\ peer_paused' = peer_paused /\ peer_asked' = peer_asked
  BY DEF PeerSend, peer_vars
<1>4. peer_asked \in Flags /\ spent \in Spending
  BY DEF IInv, Typed
<1>5. spent' \in Spending /\ spent'.down = spent.down /\ spent'.loss = spent.loss
  BY <1>3, <1>4 DEF Spending
<1> HIDE DEF p
<1>6. \A q \in Queue : /\ Changes(p, q, peer_asked[d][q])
                       /\ peer_asked'[d][q] = After(p, q, peer_asked[d][q])
  BY <1>2, <1>3 DEF Changes, After, PfcKind
<1> HIDE DEF d
<1>7. p.kind = "data" => Origin[p.flow] = d /\ m_rtTable[p.flow] # d
  BY <1>2, <1>3 DEF d
<1> QED BY <1>1, <1>2, <1>3, <1>4, <1>5, <1>6, <1>7, FrameSent

(* What PeerPause and PeerResume have in common: the neighbour changes its  *)
(* mind. *)
LEMMA PeerAsks ==
  ASSUME IInv, NEW d \in Port, NEW q \in Queue, NEW kind \in PfcKind,
         peer_asked[d][q] # (kind = "pause"),
         wire_in' = [wire_in EXCEPT ![d] = Append(@, Pfc(kind, q))],
         peer_asked' = [peer_asked EXCEPT ![d][q] = (kind = "pause")],
         sw' = sw, m_rtTable' = m_rtTable, peer_paused' = peer_paused,
         spent' \in Spending, spent'.down = spent.down, spent'.loss = spent.loss
  PROVE  IInv'
<1> DEFINE p == Pfc(kind, q)
           v == (kind = "pause")
<1>1. p \in WireFrame /\ p.kind = kind /\ p.q = q /\ kind # "data"
  BY DEF Pfc, WireFrame, PfcFrame, PfcKind
<1> HIDE DEF p
<1>2. peer_asked \in Flags
  BY DEF IInv, Typed
<1>3. /\ peer_asked' \in Flags /\ peer_asked'[d][q] = v
      /\ \A r \in Queue : r # q => peer_asked'[d][r] = peer_asked[d][r]
      /\ \A e \in Port : e # d => peer_asked'[e] = peer_asked[e]
  <2>1. v \in BOOLEAN /\ peer_asked' = [peer_asked EXCEPT ![d][q] = v]
    OBVIOUS
  <2> HIDE DEF v
  <2> QED BY <1>2, <2>1 DEF Flags
<1>4. ASSUME NEW r \in Queue
      PROVE  /\ Changes(p, r, peer_asked[d][r])
             /\ peer_asked'[d][r] = After(p, r, peer_asked[d][r])
  <2>1. CASE r = q
    BY <1>1, <1>3, <2>1, Zenon DEF Changes, After
  <2>2. CASE r # q
    BY <1>1, <1>3, <2>2, Zenon DEF Changes, After
  <2> QED BY <2>1, <2>2
<1>5. wire_in' = [wire_in EXCEPT ![d] = Append(@, p)]
  BY DEF p
<1> HIDE DEF v
<1> QED BY <1>1, <1>3, <1>4, <1>5, FrameSent

LEMMA PeerPauseKeeps ==
  ASSUME IInv, NEW d \in Port, NEW q \in Queue, PeerPause(d, q)
  PROVE  IInv'
<1>1. "pause" \in PfcKind /\ ("pause" = "pause") = TRUE
  BY DEF PfcKind
<1>2. peer_asked[d][q] = FALSE /\ spent \in Spending
  <2>1. peer_asked \in Flags /\ spent \in Spending
    BY DEF IInv, Typed
  <2> QED BY <2>1 DEF PeerPause, Flags
<1>3. spent' \in Spending /\ spent'.down = spent.down /\ spent'.loss = spent.loss
  <2> DEFINE g == [spent.pfc EXCEPT ![d] = spent.pfc[d] + 1]
  <2>1. spent.pfc \in [Port -> Nat]
    BY <1>2 DEF Spending
  <2>2. g \in [Port -> Nat]
    BY <2>1
  <2>3. spent' = [spent EXCEPT !.pfc = g]
    BY <1>2 DEF PeerPause, Spending
  <2> HIDE DEF g
  <2> QED BY <1>2, <2>2, <2>3 DEF Spending
<1>4. /\ wire_in' = [wire_in EXCEPT ![d] = Append(@, Pfc("pause", q))]
      /\ peer_asked' = [peer_asked EXCEPT ![d][q] = TRUE]
      /\ sw' = sw /\ m_rtTable' = m_rtTable /\ peer_paused' = peer_paused
  BY DEF PeerPause
<1> QED BY <1>1, <1>2, <1>3, <1>4, PeerAsks

LEMMA PeerResumeKeeps ==
  ASSUME IInv, NEW d \in Port, NEW q \in Queue, PeerResume(d, q)
  PROVE  IInv'
<1>1. "resume" \in PfcKind /\ ("resume" = "pause") = FALSE
  BY DEF PfcKind
<1>2. peer_asked[d][q] = TRUE /\ spent \in Spending
  <2>1. peer_asked \in Flags /\ spent \in Spending
    BY DEF IInv, Typed
  <2> QED BY <2>1 DEF PeerResume, Flags
<1>3. /\ wire_in' = [wire_in EXCEPT ![d] = Append(@, Pfc("resume", q))]
      /\ peer_asked' = [peer_asked EXCEPT ![d][q] = FALSE]
      /\ sw' = sw /\ m_rtTable' = m_rtTable /\ peer_paused' = peer_paused
      /\ spent' = spent
  BY DEF PeerResume
<1> QED BY <1>1, <1>2, <1>3, PeerAsks

(* A frame leaves the wire from the switch to the neighbour at d.          *)
Gone(s, d) == [s EXCEPT !.wire_out[d] = Tail(@)]

LEMMA GoneDoes ==
  ASSUME NEW s \in Switch, NEW d \in Port, s.wire_out[d] # <<>>
  PROVE  LET t == Gone(s, d)
             p == Head(s.wire_out[d])
         IN  /\ t \in Switch /\ SameBooks(s, t) /\ SameOrders(s, t) /\ t.paused = s.paused
             /\ t.m_queues = s.m_queues /\ t.m_txMachineState = s.m_txMachineState
             /\ t.failed = s.failed
             /\ p \in OutFrame /\ Head(Pipe(s, d)) = p /\ Pipe(s, d) # <<>>
             /\ Pipe(t, d) = Tail(Pipe(s, d))
             /\ \A e \in Port : e # d => Pipe(t, e) = Pipe(s, e)
<1> DEFINE w == s.wire_out[d]
           v == s.m_queues[d][0]
           y == Tail(w)
           g == Put(s.wire_out, d, y)
           t == Gone(s, d)
<1>1. s.wire_out \in Wires /\ w \in Seq(OutFrame) /\ w # <<>>
  <2>1. s.wire_out \in Wires
    BY SwitchFields
  <2> QED BY <2>1 DEF Wires
<1>2. y \in Seq(OutFrame) /\ Head(w) \in OutFrame
  <2> HIDE DEF w
  <2> QED BY <1>1, HeadTailProperties
<1>3. /\ g \in Wires /\ g[d] = y
      /\ \A e \in Port : e # d => g[e] = s.wire_out[e]
  <2> HIDE DEF y
  <2> QED BY <1>1, <1>2 DEF Wires, Put
<1>4. t = [s EXCEPT !.wire_out = g]
  BY <1>1 DEF Gone, Switch, Wires, Put
<1> HIDE DEF g, t
<1>5. t \in Switch /\ t.wire_out = g
  BY <1>3, <1>4 DEF Switch
<1>6. /\ SameBooks(s, t) /\ SameOrders(s, t) /\ t.paused = s.paused
      /\ t.m_queues = s.m_queues /\ t.m_txMachineState = s.m_txMachineState
      /\ t.failed = s.failed
  BY <1>4 DEF Switch, SameBooks, SameOrders
<1>7. \A e \in Port : e # d => Pipe(t, e) = Pipe(s, e)
  BY <1>3, <1>5, <1>6 DEF Pipe
<1>8. Head(w \o v) = Head(w) /\ w \o v # <<>> /\ Tail(w \o v) = Tail(w) \o v
  <2>1. w \in Seq(AnyFrame) /\ v \in Seq(AnyFrame) /\ w # <<>>
    BY <1>1, PipeTyped
  <2> HIDE DEF w, v
  <2>2. Len(w) \in Nat /\ Len(w) >= 1 /\ Len(v) \in Nat
    BY <2>1, LenProperties, EmptySeq
  <2>3. Len(w \o v) = Len(w) + Len(v) /\ w \o v \in Seq(AnyFrame)
        /\ \A k \in 1..(Len(w) + Len(v)) :
             (w \o v)[k] = IF k <= Len(w) THEN w[k] ELSE v[k - Len(w)]
    BY <2>1, ConcatProperties
  <2>4. w \o v # <<>>
    BY <2>2, <2>3, EmptySeq
  <2>5. Head(w \o v) = Head(w)
    BY <2>1, <2>2, <2>3, <2>4, HeadTailProperties
  <2>6. Tail(w \o v) = Tail(w) \o v
    <3> DEFINE a == Tail(w \o v)
               b == Tail(w) \o v
               m == Len(w)
               n == Len(v)
    <3>1. a \in Seq(AnyFrame) /\ Len(a) = (m + n) - 1
          /\ \A k \in 1..((m + n) - 1) : a[k] = (w \o v)[k + 1]
      <4> DEFINE c == w \o v
      <4>1. c \in Seq(AnyFrame) /\ c # <<>> /\ Len(c) = m + n
        BY <2>3, <2>4
      <4> HIDE DEF c, m, n
      <4>2. Tail(c) \in Seq(AnyFrame) /\ Len(Tail(c)) = Len(c) - 1
            /\ \A k \in 1..(Len(c) - 1) : Tail(c)[k] = c[k + 1]
        BY <4>1, HeadTailProperties
      <4> QED BY <4>1, <4>2 DEF c
    <3>2. Tail(w) \in Seq(AnyFrame) /\ Len(Tail(w)) = m - 1
          /\ \A k \in 1..(m - 1) : Tail(w)[k] = w[k + 1]
      BY <2>1, HeadTailProperties
    <3>3. b \in Seq(AnyFrame) /\ Len(b) = (m - 1) + n
          /\ \A k \in 1..((m - 1) + n) :
               b[k] = IF k <= m - 1 THEN Tail(w)[k] ELSE v[k - (m - 1)]
      <4> DEFINE x == Tail(w)
      <4>1. x \in Seq(AnyFrame) /\ Len(x) = m - 1
        BY <3>2
      <4> HIDE DEF x, m
      <4>2. x \o v \in Seq(AnyFrame) /\ Len(x \o v) = Len(x) + Len(v)
            /\ \A k \in 1..(Len(x) + Len(v)) :
                 (x \o v)[k] = IF k <= Len(x) THEN x[k] ELSE v[k - Len(x)]
        BY <2>1, <4>1, ConcatProperties
      <4> QED BY <4>1, <4>2 DEF x
    <3>4. m \in Nat /\ n \in Nat /\ m >= 1
      BY <2>2
    <3>5. \A k \in 1..(m + n) : (w \o v)[k] = IF k <= m THEN w[k] ELSE v[k - m]
      BY <2>3
    <3> HIDE DEF a, b, m, n
    <3>6. Len(a) = Len(b) /\ Len(a) = (m + n) - 1
      BY <3>1, <3>3, <3>4
    <3>7. ASSUME NEW k \in 1..((m + n) - 1) PROVE a[k] = b[k]
      <4>1. a[k] = IF k + 1 <= m THEN w[k + 1] ELSE v[(k + 1) - m]
        <5>1. k + 1 \in 1..(m + n)
          BY <3>4
        <5> QED BY <3>1, <3>5, <5>1
      <4>2. b[k] = IF k <= m - 1 THEN Tail(w)[k] ELSE v[k - (m - 1)]
        <5>1. k \in 1..((m - 1) + n)
          BY <3>4
        <5> QED BY <3>3, <5>1
      <4>3. CASE k <= m - 1
        <5>1. k + 1 <= m /\ k \in 1..(m - 1)
          BY <3>4, <4>3
        <5> QED BY <3>2, <4>1, <4>2, <4>3, <5>1
      <4>4. CASE ~(k <= m - 1)
        <5>1. ~(k + 1 <= m) /\ (k + 1) - m = k - (m - 1)
          BY <3>4, <4>4
        <5> QED BY <4>1, <4>2, <4>4, <5>1
      <4> QED BY <4>3, <4>4
    <3>8. a = b
      BY <3>1, <3>3, <3>6, <3>7, SeqEqual
    <3> QED BY <3>8 DEF a, b
  <2> QED BY <2>4, <2>5, <2>6
<1>9. Head(Pipe(s, d)) = Head(w) /\ Pipe(s, d) # <<>> /\ Pipe(t, d) = Tail(Pipe(s, d))
  BY <1>3, <1>5, <1>6, <1>8 DEF Pipe
<1> QED BY <1>2, <1>5, <1>6, <1>7, <1>9 DEF t

(* The neighbour receives a frame. *)
LEMMA PeerReceiveKeeps ==
  ASSUME IInv, NEW d \in Port, PeerReceive(d)
  PROVE  IInv'
<1> DEFINE p == Head(sw.wire_out[d])
           g == Gone(sw, d)
           obeys == sw.m_linkUp[d] /\ p.kind \in PfcKind
           fails == obeys /\ p.kind = "resume" /\ ~peer_paused[d][p.q]
<1>1. /\ sw \in Switch /\ Typed /\ Balanced /\ ServedBut(sw, {}) /\ Asserted
      /\ peer_paused \in Flags /\ sw.paused \in Flags
  <2>1. sw \in Switch
    BY DEF IInv, Typed
  <2> QED BY <2>1, SwitchFields DEF IInv, Typed
<1>2. /\ sw.wire_out[d] # <<>>
      /\ sw' = (IF fails THEN Failing(g, NotPaused) ELSE g)
      /\ peer_paused' = (IF obeys THEN [peer_paused EXCEPT ![d][p.q] = (p.kind = "pause")]
                         ELSE peer_paused)
      /\ m_rtTable' = m_rtTable /\ wire_in' = wire_in /\ peer_asked' = peer_asked
      /\ spent' = spent
  BY DEF PeerReceive, Leaving, Gone, NotPaused
<1>3. /\ g \in Switch /\ SameBooks(sw, g) /\ SameOrders(sw, g) /\ g.paused = sw.paused
      /\ g.m_queues = sw.m_queues /\ g.m_txMachineState = sw.m_txMachineState
      /\ g.failed = sw.failed
      /\ p \in OutFrame /\ Head(Pipe(sw, d)) = p /\ Pipe(sw, d) # <<>>
      /\ Pipe(g, d) = Tail(Pipe(sw, d))
      /\ \A e \in Port : e # d => Pipe(g, e) = Pipe(sw, e)
  BY <1>1, <1>2, GoneDoes
<1> HIDE DEF p, g
<1>4. /\ sw' \in Switch /\ SameBooks(sw, sw') /\ SameOrders(sw, sw') /\ sw'.paused = sw.paused
      /\ sw'.m_queues = sw.m_queues /\ sw'.m_txMachineState = sw.m_txMachineState
      /\ sw'.failed = (IF fails THEN sw.failed \cup {NotPaused} ELSE sw.failed)
      /\ \A e \in Port : Pipe(sw', e) = Pipe(g, e)
  <2>1. CASE ~fails
    BY <1>2, <1>3, <2>1
  <2>2. CASE fails
    <3>1. sw' = Failing(g, NotPaused)
      BY <1>2, <2>2
    <3>2. /\ sw' \in Switch /\ SameBooks(g, sw') /\ SameOrders(g, sw') /\ sw'.paused = g.paused
          /\ sw'.m_queues = g.m_queues /\ sw'.wire_out = g.wire_out
          /\ sw'.m_txMachineState = g.m_txMachineState
          /\ sw'.failed = g.failed \cup {NotPaused}
      BY <1>3, <3>1, FailingDoes
    <3>3. \A e \in Port : Pipe(sw', e) = Pipe(g, e)
      BY <3>2 DEF Pipe
    <3>4. SameBooks(sw, sw') /\ SameOrders(sw, sw')
      BY <1>3, <3>2 DEF SameBooks, SameOrders
    <3> QED BY <1>3, <2>2, <3>2, <3>3, <3>4
  <2> QED BY <2>1, <2>2
<1>5. Balanced' /\ ServedBut(sw', {}) /\ (NoBack(sw) => NoBack(sw'))
  BY <1>1, <1>2, <1>4, StoreSame
<1>6. p.kind \in PfcKind => p.q \in Queue
  BY <1>3 DEF OutFrame, PfcFrame, PfcKind
<1>7. /\ peer_paused' \in Flags
      /\ \A e \in Port : e # d => peer_paused'[e] = peer_paused[e]
      /\ obeys => \A q \in Queue : peer_paused'[d][q] = After(p, q, peer_paused[d][q])
  <2>1. CASE obeys
    <3> DEFINE x == p.q
               v == (p.kind = "pause")
    <3>1. x \in Queue /\ v \in BOOLEAN /\ peer_paused' = [peer_paused EXCEPT ![d][x] = v]
      BY <1>2, <1>6, <2>1
    <3> HIDE DEF x, v, obeys
    <3>2. /\ peer_paused' \in Flags /\ peer_paused'[d][x] = v
          /\ \A q \in Queue : q # x => peer_paused'[d][q] = peer_paused[d][q]
          /\ \A e \in Port : e # d => peer_paused'[e] = peer_paused[e]
      BY <1>1, <3>1 DEF Flags
    <3>3. p.kind \in PfcKind
      BY <2>1 DEF obeys
    <3>4. ASSUME NEW q \in Queue PROVE peer_paused'[d][q] = After(p, q, peer_paused[d][q])
      <4>1. CASE q = x
        BY <3>2, <3>3, <4>1, Zenon DEF After, x, v
      <4>2. CASE q # x
        BY <3>2, <3>3, <4>2, Zenon DEF After, x
      <4> QED BY <4>1, <4>2
    <3> QED BY <3>2, <3>4
  <2>2. CASE ~obeys
    BY <1>1, <1>2, <2>2
  <2> QED BY <2>1, <2>2
<1>8. ASSUME spent.loss = 0, sw.m_linkUp[d], NEW q \in Queue
      PROVE  /\ Changes(p, q, peer_paused[d][q])
             /\ Leads(Pipe(sw', d), q, peer_paused'[d][q], sw'.paused[d][q])
  <2> DEFINE w == Pipe(sw, d)
             a == peer_paused[d][q]
             b == sw.paused[d][q]
  <2>1. Leads(w, q, a, b)
    BY <1>8 DEF IInv, Signals
  <2>2. w \in Seq(AnyFrame) /\ w # <<>> /\ a \in BOOLEAN /\ b \in BOOLEAN
    BY <1>1, <1>3, PipeTyped DEF Flags
  <2>3. Head(w) = p /\ Pipe(sw', d) = Tail(w)
    BY <1>3, <1>4
  <2> HIDE DEF w, a, b
  <2>4. Changes(p, q, a) /\ Leads(Tail(w), q, After(p, q, a), b)
    BY <2>1, <2>2, <2>3, LeadsTail
  <2>5. peer_paused'[d][q] = After(p, q, a)
    <3>1. CASE p.kind \in PfcKind
      BY <1>7, <1>8, <3>1 DEF a
    <3>2. CASE p.kind \notin PfcKind
      <4>1. peer_paused' = peer_paused
        BY <1>2, <3>2
      <4> QED BY <3>2, <4>1 DEF a, After
    <3> QED BY <3>1, <3>2
  <2> QED BY <1>4, <2>3, <2>4, <2>5 DEF a, b
<1>9. fails => spent.loss # 0
  <2>1. ASSUME fails, spent.loss = 0 PROVE FALSE
    <3>1. p.q \in Queue /\ p.kind \in PfcKind /\ (p.kind = "pause") = FALSE
      BY <1>6, <2>1
    <3>2. Changes(p, p.q, peer_paused[d][p.q])
      BY <1>8, <2>1, <3>1
    <3>3. peer_paused[d][p.q] = FALSE
      BY <1>1, <2>1, <3>1 DEF Flags
    <3> QED BY <3>1, <3>2, <3>3 DEF Changes
  <2> QED BY <2>1
<1> HIDE DEF fails, obeys
<1>10. Typed'
  BY <1>1, <1>2, <1>4, <1>7 DEF Typed, SameOrders
<1>11. Asserted'
  <2>1. sw'.failed \subseteq sw.failed \cup {NotPaused}
    BY <1>4
  <2>2. spent'.loss = 0 => sw'.failed = sw.failed
    BY <1>2, <1>4, <1>9
  <2>3. Safe' => Safe
    BY <1>2 DEF Safe
  <2>4. Safe => NoBack(sw) /\ NotReady \notin sw.failed
    BY <1>1 DEF Asserted
  <2>5. NotReady # NotPaused /\ NotUp # NotPaused
    BY DEF NotReady, NotPaused, NotUp
  <2> QED BY <1>1, <1>2, <1>5, <2>1, <2>2, <2>3, <2>4, <2>5 DEF Asserted
<1>12. \A e \in Port : FromHere(e)'
  BY <1>2 DEF IInv, FromHere
<1>13. Signals'
  <2>1. ASSUME spent.loss = 0, NEW e \in Port, NEW q \in Queue, sw.m_linkUp[e]
        PROVE  /\ Leads(Pipe(sw', e), q, peer_paused'[e][q], sw'.paused[e][q])
               /\ Leads(wire_in[e], q, sw.m_paused[e][q], peer_asked[e][q])
    <3>1. /\ Leads(Pipe(sw, e), q, peer_paused[e][q], sw.paused[e][q])
          /\ Leads(wire_in[e], q, sw.m_paused[e][q], peer_asked[e][q])
      BY <2>1 DEF IInv, Signals
    <3>2. CASE e = d
      BY <1>8, <2>1, <3>1, <3>2
    <3>3. CASE e # d
      BY <1>3, <1>4, <1>7, <3>1, <3>3
    <3> QED BY <3>2, <3>3
  <2> QED BY <1>2, <1>4, <2>1 DEF Signals, SameOrders
<1> QED BY <1>5, <1>10, <1>11, <1>12, <1>13 DEF IInv

(* A frame is corrupt: it is gone, and counted as lost. *)
LEMMA CorruptKeeps ==
  ASSUME IInv, NEW d \in Port, Corrupt(d)
  PROVE  IInv'
<1>1. /\ sw \in Switch /\ Typed /\ Balanced /\ ServedBut(sw, {}) /\ Asserted
      /\ spent \in Spending /\ \A e \in Port : FromHere(e)
  BY DEF IInv, Typed
<1>2. /\ spent' = [spent EXCEPT !.loss = @ + 1]
      /\ m_rtTable' = m_rtTable /\ peer_paused' = peer_paused /\ peer_asked' = peer_asked
      /\ \/ /\ wire_in[d] # <<>>
            /\ wire_in' = [wire_in EXCEPT ![d] = Tail(@)]
            /\ sw' = sw
         \/ /\ sw.wire_out[d] # <<>>
            /\ sw' = Gone(sw, d)
            /\ wire_in' = wire_in
  BY DEF Corrupt, peer_vars, Gone
<1>3. spent' \in Spending /\ spent'.down = spent.down /\ spent'.loss # 0
  BY <1>1, <1>2 DEF Spending
<1>4. Signals'
  BY <1>3 DEF Signals
<1>5. CASE wire_in[d] # <<>> /\ wire_in' = [wire_in EXCEPT ![d] = Tail(@)] /\ sw' = sw
  <2>1. wire_in' \in [Port -> Seq(WireFrame)] /\ \A e \in Port : FromHere(e)'
    BY <1>1, <1>2, <1>3, <1>5, FromHereShorter
  <2>2. Typed' /\ Balanced' /\ ServedBut(sw', {})
    BY <1>1, <1>2, <1>3, <1>5, <2>1 DEF Typed, Balanced
  <2>3. Asserted'
    BY <1>1, <1>3, <1>5 DEF Asserted, Safe
  <2> QED BY <1>4, <2>1, <2>2, <2>3 DEF IInv
<1>6. CASE sw.wire_out[d] # <<>> /\ sw' = Gone(sw, d) /\ wire_in' = wire_in
  <2>1. /\ sw' \in Switch /\ SameBooks(sw, sw') /\ SameOrders(sw, sw')
        /\ sw'.m_queues = sw.m_queues /\ sw'.m_txMachineState = sw.m_txMachineState
        /\ sw'.failed = sw.failed
    BY <1>1, <1>6, GoneDoes
  <2>2. Balanced' /\ ServedBut(sw', {}) /\ (NoBack(sw) => NoBack(sw'))
    BY <1>1, <1>3, <2>1, StoreSame
  <2>3. Typed'
    BY <1>1, <1>2, <1>3, <1>6, <2>1 DEF Typed, SameOrders
  <2>4. Asserted'
    BY <1>1, <1>3, <2>1, <2>2 DEF Asserted, Safe
  <2>5. \A e \in Port : FromHere(e)'
    BY <1>1, <1>2, <1>3, <1>6 DEF FromHere
  <2> QED BY <1>4, <2>2, <2>3, <2>4, <2>5 DEF IInv
<1> QED BY <1>2, <1>5, <1>6

-----------------------------------------------------------------------------
(* The switch starts in balance, with nothing to send.                     *)
LEMMA InitIInv ==
  ASSUME Init
  PROVE  IInv
<1>1. NPort \in Nat /\ NQueue \in Nat /\ 0 \in QIndex /\ Reserve \in Nat
  BY Indices, SwitchConfig
<1>2. /\ sw.shared_used_bytes = 0 /\ sw.hdrm_bytes = PerQueue(0)
      /\ sw.ingress_bytes = PerQueue(0) /\ sw.egress_bytes = PerQueue(0)
      /\ sw.paused = PerQueue(FALSE)
      /\ sw.m_bytes = [i \in Port |-> [o \in Port |-> [q \in QIndex |-> 0]]]
      /\ sw.m_queues = [d \in Port |-> E!EmptyQueues] /\ sw.m_rrlast = [d \in Port |-> 0]
      /\ sw.m_txMachineState = [d \in Port |-> "READY"]
      /\ sw.m_linkUp = [d \in Port |-> TRUE] /\ sw.m_paused = PerQueue(FALSE)
      /\ sw.wire_out = [d \in Port |-> <<>>] /\ sw.failed = {}
  BY DEF Init, InitSwitch, QIndex
<1>3. PerQueue(0) \in Table /\ PerQueue(FALSE) \in Flags
  BY DEF PerQueue, Table, Flags
<1>4. /\ E!EmptyQueues \in [QIndex -> Seq(InFrame)]
      /\ \A q \in QIndex : E!EmptyQueues[q] = <<>>
  <2>1. E!QIndex = QIndex
    BY DEF E!QIndex, QIndex
  <2> QED BY <2>1 DEF E!EmptyQueues
<1>5. \A d \in Port, q \in QIndex : sw.m_queues[d][q] = <<>>
  BY <1>2, <1>4
<1>6. sw.m_queues \in Queues
  <2>1. sw.m_queues \in [Port -> [QIndex -> Seq(InFrame)]]
    BY <1>2, <1>4
  <2>2. \A d \in Port, q \in Queue : sw.m_queues[d][q] \in Seq(PacketIn)
    BY <1>5, Indices, EmptySeq
  <2> QED BY <2>1, <2>2 DEF Queues
<1>7. sw \in Switch
  <2>1. sw = InitSwitch
    BY DEF Init
  <2>2. sw.m_bytes \in Matrix /\ sw.m_rrlast \in Turns /\ sw.m_txMachineState \in States
    BY <1>1, <1>2 DEF Matrix, Turns, States
  <2>3. sw.m_linkUp \in Links /\ sw.wire_out \in Wires /\ sw.failed \in Failures
    BY <1>2 DEF Links, Wires, Failures
  <2>4. sw = [shared_used_bytes |-> sw.shared_used_bytes, hdrm_bytes |-> sw.hdrm_bytes,
              ingress_bytes |-> sw.ingress_bytes, egress_bytes |-> sw.egress_bytes,
              paused |-> sw.paused, m_bytes |-> sw.m_bytes, m_queues |-> sw.m_queues,
              m_rrlast |-> sw.m_rrlast, m_txMachineState |-> sw.m_txMachineState,
              m_linkUp |-> sw.m_linkUp, m_paused |-> sw.m_paused,
              wire_out |-> sw.wire_out, failed |-> sw.failed]
    BY <2>1 DEF InitSwitch
  <2>5. /\ sw.shared_used_bytes \in Int /\ sw.hdrm_bytes \in Table
        /\ sw.ingress_bytes \in Table /\ sw.egress_bytes \in Table
        /\ sw.paused \in Flags /\ sw.m_paused \in Flags
    <3>1. sw.shared_used_bytes \in Int
      BY <1>2
    <3>2. /\ sw.hdrm_bytes = PerQueue(0) /\ sw.ingress_bytes = PerQueue(0)
          /\ sw.egress_bytes = PerQueue(0) /\ sw.paused = PerQueue(FALSE)
          /\ sw.m_paused = PerQueue(FALSE)
      BY <1>2, Zenon
    <3> QED BY <1>3, <3>1, <3>2, Zenon
  <2> QED BY <1>6, <2>2, <2>3, <2>4, <2>5, SMTT(40) DEF Switch
<1>8. /\ wire_in = [d \in Port |-> <<>>] /\ peer_paused = PerQueue(FALSE)
      /\ peer_asked = PerQueue(FALSE) /\ m_rtTable = Route[{}]
      /\ spent = [pfc |-> [d \in Port |-> 0], ctrl |-> 0, loss |-> 0, down |-> 0]
  BY DEF Init
<1>9. Typed
  <2>1. wire_in \in [Port -> Seq(WireFrame)] /\ spent \in Spending
    BY <1>8 DEF Spending
  <2>2. {e \in Port : ~sw.m_linkUp[e]} = {}
    BY <1>2
  <2> QED BY <1>3, <1>7, <1>8, <2>1, <2>2 DEF Typed
<1>10. ASSUME NEW f \in [Port -> Int], \A j \in Port : f[j] = 0
       PROVE  SumTo(f, NPort) = 0
  BY <1>1, <1>10, SumToZero DEF Port
<1>11. \A i, o \in Port, q \in QIndex : sw.m_bytes[i][o][q] = 0
  BY <1>2
<1>12. \A i \in Port, q \in Queue : FromPort(sw.m_bytes, i, q) = 0 /\ ForPort(sw.m_bytes, i, q) = 0
  <2>1. ASSUME NEW i \in Port, NEW q \in Queue
        PROVE  FromPort(sw.m_bytes, i, q) = 0 /\ ForPort(sw.m_bytes, i, q) = 0
    <3> DEFINE f == [o \in Port |-> sw.m_bytes[i][o][q]]
               h == [o \in Port |-> sw.m_bytes[o][i][q]]
    <3>1. f \in [Port -> Int] /\ h \in [Port -> Int] /\ \A j \in Port : f[j] = 0 /\ h[j] = 0
      BY <1>11, Indices
    <3> HIDE DEF f, h
    <3>2. SumTo(f, NPort) = 0 /\ SumTo(h, NPort) = 0
      BY <1>10, <3>1
    <3> QED BY <3>2 DEF FromPort, ForPort, f, h
  <2> QED BY <2>1
<1>13. TableSum(Pool(sw.ingress_bytes), NPort, NQueue) = 0
  <2> DEFINE t == Pool(sw.ingress_bytes)
  <2>1. \A i \in Port, q \in Queue : Beyond(sw.ingress_bytes[i][q]) = 0
    BY <1>1, <1>2 DEF PerQueue, Beyond
  <2>2. t \in [1..NPort -> [1..NQueue -> Int]] /\ \A i \in 1..NPort, q \in 1..NQueue : t[i][q] = 0
    BY <2>1, Indices DEF Pool
  <2> HIDE DEF t
  <2>3. TableSum(t, NPort, NQueue) = 0
    BY <1>1, <2>2, TableZero
  <2> QED BY <2>3 DEF t
<1>14. Books(sw)
  <2>1. \A i \in Port, q \in Queue :
          sw.hdrm_bytes[i][q] = 0 /\ sw.ingress_bytes[i][q] = 0 /\ sw.egress_bytes[i][q] = 0
    BY <1>2 DEF PerQueue
  <2>2. \A i \in Port, q \in Queue :
          /\ sw.hdrm_bytes[i][q] >= 0 /\ sw.ingress_bytes[i][q] >= 0
          /\ sw.hdrm_bytes[i][q] + sw.ingress_bytes[i][q] = FromPort(sw.m_bytes, i, q)
    BY <1>12, <2>1
  <2>3. \A o \in Port, q \in Queue : sw.egress_bytes[o][q] = ForPort(sw.m_bytes, o, q)
    BY <1>12, <2>1
  <2>4. sw.shared_used_bytes = TableSum(Pool(sw.ingress_bytes), NPort, NQueue)
    BY <1>2, <1>13
  <2>5. \A i, o \in Port, q \in QIndex : sw.m_bytes[i][o][q] >= 0
    BY <1>11
  <2> QED BY <2>2, <2>3, <2>4, <2>5 DEF Books
<1>15. \A i, o \in Port, q \in Queue : Excess(sw, i, o, q) = 0
  <2>1. \A i, o \in Port, q \in Queue : BytesIn(sw.m_queues[o][q], i) = 0
    BY <1>5, BytesInEmpty, Indices
  <2> QED BY <1>11, <2>1, Indices DEF Excess
<1>16. Balanced
  BY <1>14, <1>15 DEF Balanced, Covered
<1>17. ServedBut(sw, {})
  <2>1. E!QIndex = QIndex
    BY DEF E!QIndex, QIndex
  <2> QED BY <1>5, <2>1 DEF ServedBut, E!Servable, E!CanServe
<1>18. Asserted
  <2>1. \A o \in Port, q \in Queue : Len(sw.m_queues[o][q]) = 0
    BY <1>5, Indices
  <2> QED BY <1>2, <2>1 DEF Asserted, NoBack
<1>19. \A d \in Port : FromHere(d)
  <2>1. \A d \in Port : Len(wire_in[d]) = 0
    BY <1>8
  <2> QED BY <2>1 DEF FromHere
<1>20. Signals
  <2>1. ASSUME NEW d \in Port, NEW q \in Queue
        PROVE  /\ Leads(Pipe(sw, d), q, peer_paused[d][q], sw.paused[d][q])
               /\ Leads(wire_in[d], q, sw.m_paused[d][q], peer_asked[d][q])
    <3>1. sw.wire_out[d] = <<>> /\ sw.m_queues[d][0] = <<>> /\ wire_in[d] = <<>>
      BY <1>1, <1>2, <1>5, <1>8
    <3>2. Pipe(sw, d) = <<>>
      BY <3>1 DEF Pipe
    <3>3. peer_paused[d][q] = FALSE /\ sw.paused[d][q] = FALSE
          /\ sw.m_paused[d][q] = FALSE /\ peer_asked[d][q] = FALSE
      BY <1>2, <1>8 DEF PerQueue
    <3>4. Leads(<<>>, q, FALSE, FALSE)
      BY LeadsNowhere
    <3> QED BY <3>1, <3>2, <3>3, <3>4
  <2> QED BY <2>1 DEF Signals
<1> QED BY <1>9, <1>16, <1>17, <1>18, <1>19, <1>20 DEF IInv

LEMMA NextIInv ==
  ASSUME IInv, [Next]_vars
  PROVE  IInv'
<1>1. CASE UNCHANGED vars
  BY <1>1, ZenonT(60) DEF vars, IInv, Typed, Balanced, Asserted, Safe, FromHere, Signals
<1>2. CASE Next
  <2>1. CASE \E d \in Port : TransmitComplete(d)
    BY <2>1, TransmitCompleteKeeps
  <2>2. CASE \E d \in Port : Receive(d)
    BY <2>2, ReceiveKeeps
  <2>3. CASE \E d \in Port : PeerReceive(d)
    BY <2>3, PeerReceiveKeeps
  <2>4. CASE \E d \in Port : Corrupt(d)
    BY <2>4, CorruptKeeps
  <2>5. CASE \E d \in Port : TakeDownLink(d)
    BY <2>5, TakeDownLinkKeeps
  <2>6. CASE \E d \in Port : \E q \in Queue : PeerPause(d, q)
    BY <2>6, PeerPauseKeeps
  <2>7. CASE \E d \in Port : \E q \in Queue : PeerResume(d, q)
    BY <2>7, PeerResumeKeeps
  <2>8. CASE \E f \in Flow, size \in PktSize : PeerSend(f, size)
    BY <2>8, PeerSendKeeps
  <2> QED BY <1>2, <2>1, <2>2, <2>3, <2>4, <2>5, <2>6, <2>7, <2>8 DEF Next
<1> QED BY <1>1, <1>2

(* The invariant holds in every reachable state. *)
THEOREM Invariance == Spec => []IInv
<1>1. Init => IInv
  BY InitIInv
<1>2. IInv /\ [Next]_vars => IInv'
  BY NextIInv
<1> QED BY <1>1, <1>2, PTL DEF Spec

-----------------------------------------------------------------------------
(* What the invariant says.                                                *)

LEMMA TypesFollow ==
  ASSUME IInv
  PROVE  TypeOK
<1>1. sw \in Switch /\ Books(sw) /\ Typed
  BY DEF IInv, Typed, Balanced
<1>2. /\ sw.shared_used_bytes \in Int /\ sw.hdrm_bytes \in Table
      /\ sw.ingress_bytes \in Table /\ sw.egress_bytes \in Table
      /\ sw.paused \in Flags /\ sw.m_bytes \in Matrix /\ sw.m_queues \in Queues
      /\ sw.m_rrlast \in Turns /\ sw.m_txMachineState \in States
      /\ sw.m_linkUp \in Links /\ sw.m_paused \in Flags /\ sw.wire_out \in Wires
  BY <1>1, SwitchFields
<1>3. /\ sw.m_bytes \in [Port -> [Port -> [0..NQueue -> Nat]]]
      /\ \A i, o \in Port, q \in QIndex : sw.m_bytes[i][o][q] \in Nat
  <2>1. \A i, o \in Port, q \in QIndex : sw.m_bytes[i][o][q] \in Int /\ sw.m_bytes[i][o][q] >= 0
    BY <1>1, <1>2 DEF Books, Matrix
  <2>2. \A i, o \in Port, q \in QIndex : sw.m_bytes[i][o][q] \in Nat
    BY <2>1
  <2>3. sw.m_bytes \in [Port -> [Port -> [QIndex -> Nat]]]
    BY <1>2, <2>2 DEF Matrix
  <2> QED BY <2>2, <2>3 DEF QIndex
<1>4. \A o \in Port, q \in Queue : sw.egress_bytes[o][q] \in Nat
  <2>1. ASSUME NEW o \in Port, NEW q \in Queue PROVE sw.egress_bytes[o][q] \in Nat
    <3> DEFINE f == [i \in Port |-> sw.m_bytes[i][o][q]]
    <3>1. f \in [1..NPort -> Nat]
      <4>1. q \in QIndex
        BY Indices
      <4>2. \A i \in Port : sw.m_bytes[i][o][q] \in Nat
        BY <1>3, <4>1
      <4> QED BY <4>2 DEF Port
    <3> HIDE DEF f
    <3>2. SumTo(f, NPort) \in Nat
      BY <3>1, SumToNat, Indices
    <3> QED BY <1>1, <3>2 DEF Books, ForPort, f
  <2> QED BY <2>1
<1>5. \A i \in Port, q \in Queue : sw.hdrm_bytes[i][q] \in Nat /\ sw.ingress_bytes[i][q] \in Nat
  <2>1. \A i \in Port, q \in Queue :
          /\ sw.hdrm_bytes[i][q] \in Int /\ sw.ingress_bytes[i][q] \in Int
          /\ sw.hdrm_bytes[i][q] >= 0 /\ sw.ingress_bytes[i][q] >= 0
    BY <1>1, <1>2 DEF Table, Books
  <2> QED BY <2>1
<1>6. {sw.hdrm_bytes, sw.ingress_bytes, sw.egress_bytes} \subseteq [Port -> [Queue -> Nat]]
  BY <1>2, <1>4, <1>5 DEF Table
<1>7. sw.shared_used_bytes \in Nat
  <2> DEFINE t == Pool(sw.ingress_bytes)
  <2>1. t \in [1..NPort -> [1..NQueue -> Nat]]
    <3>1. \A i \in Port, q \in Queue : Beyond(sw.ingress_bytes[i][q]) \in Nat
      BY <1>5, BeyondTyped
    <3> QED BY <3>1, Indices DEF Pool
  <2>2. sw.shared_used_bytes = TableSum(t, NPort, NQueue)
    BY <1>1 DEF Books
  <2> HIDE DEF t
  <2>3. NPort \in Nat /\ NQueue \in Nat
    BY Indices
  <2>4. TableSum(t, NPort, NQueue) \in Nat
    BY <2>1, <2>3, TableCovers
  <2> QED BY <2>2, <2>4
<1>8. \A d \in Port : /\ \A q \in Queue : sw.m_queues[d][q] \in Seq(PacketIn)
                      /\ sw.m_queues[d][0] \in Seq(PacketIn \cup PfcFrame)
                      /\ sw.m_rrlast[d] \in 0..NQueue
                      /\ sw.wire_out[d] \in Seq([kind : {"data"}] \cup PfcFrame)
                      /\ wire_in[d] \in Seq([kind : {"data"}, flow : Flow, size : PktSize] \cup PfcFrame)
  <2>1. \A d \in Port : wire_in[d] \in Seq(WireFrame) /\ sw.wire_out[d] \in Seq(OutFrame)
    BY <1>1, <1>2 DEF Typed, Wires
  <2>2. \A d \in Port : sw.m_rrlast[d] \in 0..NQueue
    BY <1>2 DEF Turns, QIndex
  <2>3. \A d \in Port : /\ \A q \in Queue : sw.m_queues[d][q] \in Seq(PacketIn)
                        /\ sw.m_queues[d][0] \in Seq(InFrame)
    BY <1>2, Indices DEF Queues
  <2> QED BY <2>1, <2>2, <2>3 DEF InFrame, OutFrame, WireFrame, Arrival
<1>9. sw.m_txMachineState \in [Port -> {"READY", "BUSY"}] /\ sw.m_linkUp \in [Port -> BOOLEAN]
  BY <1>2 DEF States, Links
<1>10. {sw.paused, sw.m_paused, peer_paused, peer_asked} \subseteq [Port -> [Queue -> BOOLEAN]]
  BY <1>1, <1>2 DEF Flags, Typed
<1>11. m_rtTable \in [Flow -> 0..NPort]
  BY <1>1, RoutesUp
<1> QED BY <1>3, <1>6, <1>7, <1>8, <1>9, <1>10, <1>11 DEF TypeOK

(* The counters of the MMU never say less than the queues hold, and exactly *)
(* as much until a link goes down. *)
LEMMA AccountsFollow ==
  ASSUME IInv
  PROVE  AccountsMatchQueues
<1>1. /\ sw \in Switch /\ Books(sw) /\ Covered(sw)
      /\ spent.down = 0 => \A i, o \in Port, q \in Queue : Excess(sw, i, o, q) = 0
  BY DEF IInv, Typed, Balanced
<1>2. \A i, o \in Port, q \in Queue :
        sw.m_bytes[i][o][q] \in Int /\ BytesIn(sw.m_queues[o][q], i) \in Int
  <2>1. sw.m_bytes \in Matrix /\ sw.m_queues \in Queues
    BY <1>1, SwitchFields
  <2>2. \A i, o \in Port, q \in Queue :
          sw.m_bytes[i][o][q] \in Int /\ sw.m_queues[o][q] \in Seq(PacketIn)
    <3>1. \A q \in Queue : q \in QIndex
      BY Indices
    <3>2. \A i, o \in Port, q \in Queue : sw.m_bytes[i][o][q] \in Int
      BY <2>1, <3>1 DEF Matrix
    <3>3. \A o \in Port, q \in Queue : sw.m_queues[o][q] \in Seq(PacketIn)
      BY <2>1 DEF Queues
    <3> QED BY <3>2, <3>3
  <2> QED BY <2>2, SharesTyped
<1>3. ASSUME NEW i \in Port, NEW q \in Queue
      PROVE  /\ sw.hdrm_bytes[i][q] + sw.ingress_bytes[i][q]
                  >= SumTo([o \in Port |-> BytesIn(sw.m_queues[o][q], i)], NPort)
             /\ spent.down = 0 =>
                  sw.hdrm_bytes[i][q] + sw.ingress_bytes[i][q]
                    = SumTo([o \in Port |-> BytesIn(sw.m_queues[o][q], i)], NPort)
  <2> DEFINE f == [o \in Port |-> BytesIn(sw.m_queues[o][q], i)]
             h == [o \in Port |-> sw.m_bytes[i][o][q]]
  <2>1. f \in [1..NPort -> Int] /\ h \in [1..NPort -> Int]
    BY <1>2 DEF Port
  <2>2. \A o \in 1..NPort : f[o] <= h[o]
    <3>1. ASSUME NEW o \in Port PROVE f[o] <= h[o]
      <4>1. sw.m_bytes[i][o][q] - BytesIn(sw.m_queues[o][q], i) >= 0
        BY <1>1 DEF Covered, Excess
      <4>2. f[o] = BytesIn(sw.m_queues[o][q], i) /\ h[o] = sw.m_bytes[i][o][q]
        OBVIOUS
      <4> HIDE DEF f, h
      <4> QED BY <1>2, <4>1, <4>2
    <3> QED BY <3>1 DEF Port
  <2>3. spent.down = 0 => f = h
    <3>1. ASSUME spent.down = 0, NEW o \in Port
          PROVE  BytesIn(sw.m_queues[o][q], i) = sw.m_bytes[i][o][q]
      <4>1. sw.m_bytes[i][o][q] - BytesIn(sw.m_queues[o][q], i) = 0
        BY <1>1, <3>1 DEF Excess
      <4> QED BY <1>2, <4>1
    <3> QED BY <3>1
  <2>4. sw.hdrm_bytes[i][q] + sw.ingress_bytes[i][q] = SumTo(h, NPort)
    BY <1>1 DEF Books, FromPort
  <2> HIDE DEF f, h
  <2>5. SumTo(f, NPort) <= SumTo(h, NPort) /\ SumTo(f, NPort) \in Int /\ SumTo(h, NPort) \in Int
    <3>1. NPort \in Nat
      BY Indices
    <3> QED BY <2>1, <2>2, <3>1, SumToMonotone, SumToType
  <2>6. sw.hdrm_bytes[i][q] + sw.ingress_bytes[i][q] >= SumTo(f, NPort)
    BY <2>4, <2>5
  <2>7. spent.down = 0 => sw.hdrm_bytes[i][q] + sw.ingress_bytes[i][q] = SumTo(f, NPort)
    BY <2>3, <2>4
  <2> QED BY <2>6, <2>7 DEF f
<1>4. MmuCoversQueues /\ (spent.down = 0 => MmuMatchesQueues)
  BY <1>3 DEF MmuCoversQueues, MmuMatchesQueues
<1>5. spent.down = 0 => DataBytesQueued
  <2>1. ASSUME spent.down = 0, NEW i \in Port, NEW o \in Port, NEW q \in Queue
        PROVE  sw.m_bytes[i][o][q] = BytesIn(sw.m_queues[o][q], i)
    <3>1. sw.m_bytes[i][o][q] - BytesIn(sw.m_queues[o][q], i) = 0
      BY <1>1, <2>1 DEF Excess
    <3> QED BY <1>2, <3>1
  <2> QED BY <2>1 DEF DataBytesQueued
<1> QED BY <1>4, <1>5 DEF AccountsMatchQueues

LEMMA FailuresFollow ==
  ASSUME IInv, Safe
  PROVE  NoAssertionFails
<1>1. sw.failed \in Failures
  BY SwitchFields DEF IInv, Typed
<1>2. NotReady \notin sw.failed /\ NotUp \notin sw.failed
      /\ (spent.loss = 0 => NotPaused \notin sw.failed)
  BY DEF IInv, Asserted
<1>3. OnlyReadyDevicesTransmit
  BY <1>2 DEF OnlyReadyDevicesTransmit, NotReady
<1>4. spent.loss = 0 => sw.failed = {}
  BY <1>1, <1>2 DEF Failures
<1> QED BY <1>3, <1>4 DEF NoAssertionFails

-----------------------------------------------------------------------------
(* The state of the switch, of its neighbours and of the wires has its      *)
(* type; in particular no counter of the MMU falls below zero, also after   *)
(* links went down and their queues were emptied (switch-mmu.cc:66-72). *)
THEOREM TypeCorrectness == Spec => []TypeOK
<1>1. IInv => TypeOK
  BY TypesFollow
<1> QED BY <1>1, Invariance, PTL

(* The byte matrix of the switch, the counters of the MMU and the queues of *)
(* the devices agree until a link goes down, and the MMU never charges less *)
(* than the queues hold (switch-node.cc:168-177, 243-262). *)
THEOREM Accounts == Spec => []AccountsMatchQueues
<1>1. IInv => AccountsMatchQueues
  BY AccountsFollow
<1> QED BY <1>1, Invariance, PTL

(* A free device has nothing it could send (qbb-net-device.cc:245-346). *)
THEOREM NothingLeftWaiting == Spec => []WorkConserving
<1>1. IInv => WorkConserving
  BY DEF IInv, ServedBut, WorkConserving
<1> QED BY <1>1, Invariance, PTL

(* What is on its way to a neighbour ends in what the MMU decided last, as  *)
(* long as no frame was lost, whatever waits in queue 0                    *)
(* (switch-node.cc:136-149, qbb-net-device.cc:338-381). *)
THEOREM UpstreamFollows == Spec => []UpstreamFollowsMmu
<1>1. IInv => UpstreamFollowsMmu
  BY DEF IInv, Signals, Pipe, UpstreamFollowsMmu
<1> QED BY <1>1, Invariance, PTL

(* While no route can lead a data flow back to where it came from, no       *)
(* device starts two transmissions, and no other assertion fails unless a   *)
(* frame was lost (qbb-net-device.cc:447). *)
THEOREM NoFailures ==
  ASSUME NoWayBack
  PROVE  Spec => []NoAssertionFails
<1>1. IInv => NoAssertionFails
  BY FailuresFollow DEF Safe
<1> QED BY <1>1, Invariance, PTL

(* Whatever the routes are, that is so until a link goes down: a packet     *)
(* that is led back takes a change of the routes (third.cc:299-316). *)
THEOREM NoFailuresUntilDown == Spec => [](spent.down = 0 => NoAssertionFails)
<1>1. IInv => (spent.down = 0 => NoAssertionFails)
  BY FailuresFollow DEF Safe
<1> QED BY <1>1, Invariance, PTL

=============================================================================
