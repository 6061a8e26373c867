----------------------------- MODULE SwitchNode -----------------------------
(***************************************************************************)
(* A switch at work: SwitchNode, the QbbNetDevice and BEgressQueue of each *)
(* port, the SwitchMmu, the channels to the neighbours and, as its         *)
(* environment, the neighbouring devices.                                  *)
(*                                                                         *)
(* The simulator runs one event at a time and an event runs to its end, so *)
(* an action is a whole event: a packet arrives, a transmission completes, *)
(* a link is taken down.  Within an event the handlers call each other:    *)
(* admitting a packet may send a pause frame, which may start a            *)
(* transmission; starting one discharges the packet, which may send a      *)
(* resume frame through another device.  These calls are the operators on  *)
(* the record of the switch's state below; each takes the state before the *)
(* call to the state after it.                                             *)
(***************************************************************************)
EXTENDS NatSums, Sequences, FiniteSets

CONSTANTS
  NPort, NQueue, PktSize, BufferSize, Reserve, ResumeOffset, Headroom, PfcDiv,
  Flow,           \* flows through the switch
  Origin,         \* Origin[f]: the port the packets of f come in through
  Class,          \* Class[f]: the queue of f; 0 for CNPs and high-priority ACKs
  Route,          \* Route[down][f]: the port f leaves through while the links of
                  \* the ports down are down; 0 when no entry matches
  WireCap,        \* frames that fit on a wire at once
  MaxBacklog,     \* bound: PFC frames waiting at a port whose neighbour still sends
  MaxPfc,         \* bound: pauses each neighbour asks for
  MaxDisturb      \* bound: packets of queue 0 the neighbours send, frames the
                  \* error model corrupts and links taken down, together

Port == 1..NPort
Queue == 1..NQueue

(* The MMU is configured as SwitchMmu assumes.  Routes lead over links that *)
(* are up: OnlyLiveRoutes of Routing.                                      *)
ASSUME SwitchConfig ==
  /\ NPort \in Nat /\ NQueue \in Nat /\ PktSize \subseteq Nat \ {0}
  /\ BufferSize \in Nat /\ Reserve \in Nat /\ ResumeOffset \in Nat
  /\ Headroom \in [Port -> Nat] /\ PfcDiv \in [Port -> Nat \ {0}]
  /\ BufferSize - SumTo(Headroom, NPort) - NPort * Reserve \in Nat
ASSUME SwitchFlows ==
  /\ Origin \in [Flow -> Port] /\ Class \in [Flow -> 0..NQueue]
  /\ Route \in [SUBSET Port -> [Flow -> 0..NPort]]
  /\ \A down \in SUBSET Port, f \in Flow : Route[down][f] \notin down
ASSUME SwitchBounds ==
  /\ WireCap \in Nat \ {0}
  /\ MaxBacklog \in Nat /\ MaxPfc \in Nat /\ MaxDisturb \in Nat

VARIABLES
  sw,           \* the switch: the fields of InitSwitch
  m_rtTable,    \* m_rtTable[f]: where SendToDev sends the packets of f, 0: nowhere
  wire_in,      \* wire_in[d]: frames on their way from the neighbour at d
  peer_paused,  \* peer_paused[d][q]: the neighbour at d holds back queue q
  peer_asked,   \* peer_asked[d][q]: the last PFC frame it sent was a pause
  spent         \* how much of each bound is used up

peer_vars == <<peer_paused, peer_asked>>
vars == <<sw, m_rtTable, wire_in, peer_paused, peer_asked, spent>>

E == INSTANCE EgressQueue
(* The MMU of the switch in state s, with its decisions and invariants. *)
M(s) == INSTANCE SwitchMmu WITH
  shared_used_bytes <- s.shared_used_bytes, hdrm_bytes <- s.hdrm_bytes,
  ingress_bytes <- s.ingress_bytes, paused <- s.paused,
  egress_bytes <- s.egress_bytes, m_bytes <- s.m_bytes

PfcKind == {"pause", "resume"}
Pfc(kind, q) == [kind |-> kind, q |-> q]
Packet(f, size) == [kind |-> "data", flow |-> f, size |-> size]
(* A packet inside the switch carries its FlowIdTag; on the wire again, all *)
(* that matters of it is that it is not a PFC frame. *)
Tagged(p, inDev) == [kind |-> "data", in |-> inDev, size |-> p.size]
OnWire(p) == IF p.kind = "data" THEN [kind |-> "data"] ELSE p

PerQueue(v) == [i \in Port |-> [q \in Queue |-> v]]

InitSwitch ==
  [shared_used_bytes |-> 0, hdrm_bytes |-> PerQueue(0),
   ingress_bytes |-> PerQueue(0), egress_bytes |-> PerQueue(0),
   paused |-> PerQueue(FALSE),
   m_bytes |-> [i \in Port |-> [o \in Port |-> [q \in 0..NQueue |-> 0]]],
   m_queues |-> [d \in Port |-> E!EmptyQueues],
   m_rrlast |-> [d \in Port |-> 0],
   m_txMachineState |-> [d \in Port |-> "READY"],
   m_linkUp |-> [d \in Port |-> TRUE],
   m_paused |-> PerQueue(FALSE),    \* what the neighbours asked to hold back
   wire_out |-> [d \in Port |-> <<>>],
   failed |-> {}]           \* the assertions that failed; one ends the run

Failing(s, assertion) == [s EXCEPT !.failed = @ \cup {assertion}]

-----------------------------------------------------------------------------
(* QbbNetDevice: transmission.                                             *)

(* TransmitStart puts the frame on the channel and keeps the device busy   *)
(* until TransmitComplete. *)
TransmitStart(s, d, p) ==
  IF s.m_txMachineState[d] = "READY"
  THEN [s EXCEPT !.m_txMachineState[d] = "BUSY",
                 !.wire_out[d] = Append(@, OnWire(p))]
  ELSE Failing(s, "Must be READY to transmit")

Enqueued(s, d, q, p) == [s EXCEPT !.m_queues[d] = E!DoEnqueue(@, q, p)]
Dequeued(s, d, q) == [s EXCEPT !.m_queues[d][q] = Tail(@),
                               !.m_rrlast[d] = E!NextRRLast(@, q)]

(* SendPfc: the frame enters queue 0, and if the device is free leaves the *)
(* head of queue 0 at once; SwitchNotifyDequeue has nothing to do for it.  *)
SendPfc(s, d, kind, q) ==
  LET e == Enqueued(s, d, 0, Pfc(kind, q))
  IN  IF ~s.m_linkUp[d] \/ e.m_txMachineState[d] = "BUSY" THEN e
      ELSE TransmitStart(Dequeued(e, d, 0), d, Head(e.m_queues[d][0]))

-----------------------------------------------------------------------------
(* SwitchNode and SwitchMmu.                                               *)

UpdateIngressAdmission(s, i, q, size) ==
  LET new_bytes == s.ingress_bytes[i][q] + size
  IN  IF M(s)!ToHeadroom(i, q, size)
      THEN [s EXCEPT !.hdrm_bytes[i][q] = @ + size]
      ELSE [s EXCEPT !.ingress_bytes[i][q] = new_bytes,
                     !.shared_used_bytes = @ + Smaller(size, M(s)!SharedUsed(new_bytes))]

(* Mutant: what the headroom gave back is taken from the ingress counter too. *)
Mut_RemoveFromIngressAdmission(s, i, q, size) ==
  [s EXCEPT !.hdrm_bytes[i][q] = @ - M(s)!FromHeadroom(i, q, size),
            !.ingress_bytes[i][q] = @ - size,
            !.shared_used_bytes = @ - Smaller(size, M(s)!SharedUsed(s.ingress_bytes[i][q]))]

RemoveFromIngressAdmission(s, i, q, size) ==
  LET from_hdrm == M(s)!FromHeadroom(i, q, size)
  IN  [s EXCEPT !.hdrm_bytes[i][q] = @ - from_hdrm,
                !.ingress_bytes[i][q] = @ - (size - from_hdrm),
                !.shared_used_bytes = @ - Smaller(size - from_hdrm,
                                           M(s)!SharedUsed(s.ingress_bytes[i][q]))]

(* Mutants: the pause is recorded and the upstream never told; a pause is   *)
(* sent for every packet that finds the share used up. *)
MutUntold_CheckAndSendPfc(s, i, q) ==
  [s EXCEPT !.paused[i][q] = @ \/ M(s)!CheckShouldPause(i, @, s.hdrm_bytes[i][q],
                                      s.ingress_bytes[i][q], s.shared_used_bytes)]
MutAgain_CheckAndSendPfc(s, i, q) ==
  IF M(s)!CheckShouldPause(i, FALSE, s.hdrm_bytes[i][q],
                           s.ingress_bytes[i][q], s.shared_used_bytes)
  THEN [SendPfc(s, i, "pause", q) EXCEPT !.paused[i][q] = TRUE]
  ELSE s

CheckAndSendPfc(s, i, q) ==
  IF M(s)!CheckShouldPause(i, s.paused[i][q], s.hdrm_bytes[i][q],
                           s.ingress_bytes[i][q], s.shared_used_bytes)
  THEN [SendPfc(s, i, "pause", q) EXCEPT !.paused[i][q] = TRUE]
  ELSE s

CheckAndSendResume(s, i, q) ==
  IF M(s)!CheckShouldResume(i, s.paused[i][q], s.hdrm_bytes[i][q],
                            s.ingress_bytes[i][q], s.shared_used_bytes)
  THEN [SendPfc(s, i, "resume", q) EXCEPT !.paused[i][q] = FALSE]
  ELSE s

(* Mutants: a departure the byte matrix does not hear of; one after which   *)
(* the upstream is not looked at. *)
MutBytes_SwitchNotifyDequeue(s, d, q, p) ==
  IF q = 0 THEN s
  ELSE LET r == RemoveFromIngressAdmission(s, p.in, q, p.size)
       IN  CheckAndSendResume([r EXCEPT !.egress_bytes[d][q] = @ - p.size], p.in, q)
MutResume_SwitchNotifyDequeue(s, d, q, p) ==
  IF q = 0 THEN s
  ELSE [RemoveFromIngressAdmission(s, p.in, q, p.size)
          EXCEPT !.egress_bytes[d][q] = @ - p.size, !.m_bytes[p.in][d][q] = @ - p.size]

(* Nothing is undone for a packet of queue 0. *)
SwitchNotifyDequeue(s, d, q, p) ==
  IF q = 0 THEN s
  ELSE LET r == RemoveFromIngressAdmission(s, p.in, q, p.size)
       IN  CheckAndSendResume([r EXCEPT !.egress_bytes[d][q] = @ - p.size,
                                        !.m_bytes[p.in][d][q] = @ - p.size], p.in, q)

(* Mutant: a device that is transmitting starts the next packet. *)
Mut_DequeueAndTransmit(s, d) ==
  IF ~s.m_linkUp[d] \/ E!Servable(s.m_queues[d], s.m_paused[d]) = {} THEN s
  ELSE LET q == E!Served(s.m_queues[d], s.m_rrlast[d], s.m_paused[d])
           p == Head(s.m_queues[d][q])
       IN  TransmitStart(SwitchNotifyDequeue(Dequeued(s, d, q), d, q, p), d, p)

(* DequeueAndTransmit, switch branch.  The device is still READY while     *)
(* SwitchNotifyDequeue runs. *)
DequeueAndTransmit(s, d) ==
  IF \/ ~s.m_linkUp[d]
     \/ s.m_txMachineState[d] = "BUSY"
     \/ E!Servable(s.m_queues[d], s.m_paused[d]) = {}
  THEN s
  ELSE LET q == E!Served(s.m_queues[d], s.m_rrlast[d], s.m_paused[d])
           p == Head(s.m_queues[d][q])
       IN  TransmitStart(SwitchNotifyDequeue(Dequeued(s, d, q), d, q, p), d, p)

SwitchSend(s, d, q, p) == DequeueAndTransmit(Enqueued(s, d, q, p), d)

(* The part of SendToDev that follows admission. *)
Forward(s, i, o, q, p) ==
  LET charged == [UpdateIngressAdmission(s, i, q, p.size)
                    EXCEPT !.egress_bytes[o][q] = @ + p.size]
      ready == IF q = 0 THEN s ELSE CheckAndSendPfc(charged, i, q)
  IN  SwitchSend([ready EXCEPT !.m_bytes[i][o][q] = @ + p.size], o, q, Tagged(p, i))

(* Mutant: a packet is charged before it is dropped. *)
Mut_SendToDev(s, i, p) ==
  LET o == m_rtTable[p.flow]
      q == Class[p.flow]
  IN  IF o = 0 THEN s
      ELSE IF q # 0 /\ ~M(s)!CheckIngressAdmission(i, q, p.size)
           THEN UpdateIngressAdmission(s, i, q, p.size)
           ELSE Forward(s, i, o, q, p)

SendToDev(s, i, p) ==
  LET o == m_rtTable[p.flow]
      q == Class[p.flow]
  IN  IF o = 0 THEN s
      ELSE IF ~s.m_linkUp[o] THEN Failing(s, "The routing table look up should return link that is up")
      ELSE IF q # 0 /\ ~M(s)!CheckIngressAdmission(i, q, p.size) THEN s
      ELSE Forward(s, i, o, q, p)

-----------------------------------------------------------------------------
Init ==
  /\ sw = InitSwitch
  /\ m_rtTable = Route[{}]
  /\ wire_in = [d \in Port |-> <<>>]
  /\ peer_paused = PerQueue(FALSE)
  /\ peer_asked = PerQueue(FALSE)
  /\ spent = [pfc |-> [d \in Port |-> 0], ctrl |-> 0, loss |-> 0, down |-> 0]

Spare == spent.ctrl + spent.loss + spent.down < MaxDisturb

(* A failed assertion ends the run. *)
Running == sw.failed = {}

(* QbbNetDevice::TransmitComplete.  A frame leaves a wire no faster than   *)
(* the wire holds frames (WireCap). *)
Transmitting(d) ==
  Running /\ sw.m_txMachineState[d] = "BUSY" /\ Len(sw.wire_out[d]) < WireCap
TransmitComplete(d) ==
  /\ Transmitting(d)
  /\ sw' = DequeueAndTransmit([sw EXCEPT !.m_txMachineState[d] = "READY"], d)
  /\ UNCHANGED <<m_rtTable, wire_in, peer_vars, spent>>

(* Mutant: a resume that waits for the next event to send. *)
Mut_Resumed(s, d, q) ==
  IF s.m_paused[d][q] THEN [s EXCEPT !.m_paused[d][q] = FALSE]
  ELSE Failing(s, "Must be PAUSEd")

(* QbbNetDevice::Resume asserts that there was a pause, and sends what the *)
(* pause held back. *)
Resumed(s, d, q) ==
  IF s.m_paused[d][q]
  THEN DequeueAndTransmit([s EXCEPT !.m_paused[d][q] = FALSE], d)
  ELSE Failing(s, "Must be PAUSEd")

(* What the arrival of frame p at port d does to a switch in state s. *)
Received(s, d, p) ==
  CASE p.kind = "data"   -> SendToDev(s, d, p)
    [] p.kind = "pause"  -> [s EXCEPT !.m_paused[d][p.q] = TRUE]
    [] p.kind = "resume" -> Resumed(s, d, p.q)

(* QbbNetDevice::Receive; a frame that arrives over a dead link is dropped. *)
Arriving(d) == Running /\ wire_in[d] # <<>>
Receive(d) ==
  /\ Arriving(d)
  /\ wire_in' = [wire_in EXCEPT ![d] = Tail(@)]
  /\ sw' = IF sw.m_linkUp[d] THEN Received(sw, d, Head(wire_in[d])) ELSE sw
  /\ UNCHANGED <<m_rtTable, peer_vars, spent>>

(* Mutant: the MMU forgets what came in through the port, wherever it waits. *)
Mut_TakenDown(s, d) ==
  [s EXCEPT !.m_paused[d] = [q \in Queue |-> FALSE],
            !.m_queues[d] = E!EmptyQueues,
            !.ingress_bytes[d] = [q \in Queue |-> 0],
            !.m_linkUp[d] = FALSE]

(* QbbNetDevice::TakeDown at this end: the queues are emptied, and neither *)
(* the MMU nor the byte matrix hears of it.  m_rrlast is not read again,   *)
(* because the link does not come up again. *)
TakenDown(s, d) ==
  [s EXCEPT !.m_paused[d] = [q \in Queue |-> FALSE],
            !.m_queues[d] = E!EmptyQueues,
            !.m_linkUp[d] = FALSE]

(* TakeDownLink of the simulation script: both ends go down and the routes *)
(* are calculated anew, in one event. *)
TakeDownLink(d) ==
  /\ Running
  /\ sw.m_linkUp[d]
  /\ Spare
  /\ sw' = TakenDown(sw, d)
  /\ m_rtTable' = Route[{e \in Port : ~sw'.m_linkUp[e]}]
  /\ peer_paused' = [peer_paused EXCEPT ![d] = [q \in Queue |-> FALSE]]
  /\ spent' = [spent EXCEPT !.down = @ + 1]
  /\ UNCHANGED <<wire_in, peer_asked>>

-----------------------------------------------------------------------------
(* The neighbours: QbbNetDevices of hosts and other switches, which obey   *)
(* PFC frames and send their own, and the error model of the receivers.    *)

(* The neighbour sends a packet of flow f, which it does as long as its    *)
(* own routes do not lead the flow elsewhere.  The devices of a switch are *)
(* about as fast as each other: not many PFC frames wait behind the frame  *)
(* a device is sending (MaxBacklog). *)
PeerSend(f, size) ==
  LET d == Origin[f]
  IN  /\ Running
      /\ sw.m_linkUp[d]
      /\ m_rtTable[f] # d
      /\ Len(wire_in[d]) < WireCap
      /\ Len(sw.m_queues[d][0]) < MaxBacklog
      /\ IF Class[f] = 0 THEN Spare ELSE ~peer_paused[d][Class[f]]
      /\ wire_in' = [wire_in EXCEPT ![d] = Append(@, Packet(f, size))]
      /\ spent' = IF Class[f] = 0 THEN [spent EXCEPT !.ctrl = @ + 1] ELSE spent
      /\ UNCHANGED <<sw, m_rtTable, peer_vars>>

(* It asks for a pause, or for the end of the pause it asked for. *)
PeerPause(d, q) ==
  /\ Running
  /\ sw.m_linkUp[d] /\ Len(wire_in[d]) < WireCap
  /\ ~peer_asked[d][q] /\ spent.pfc[d] < MaxPfc
  /\ wire_in' = [wire_in EXCEPT ![d] = Append(@, Pfc("pause", q))]
  /\ peer_asked' = [peer_asked EXCEPT ![d][q] = TRUE]
  /\ spent' = [spent EXCEPT !.pfc[d] = @ + 1]
  /\ UNCHANGED <<sw, m_rtTable, peer_paused>>

PeerResume(d, q) ==
  /\ Running
  /\ sw.m_linkUp[d] /\ Len(wire_in[d]) < WireCap
  /\ peer_asked[d][q]
  /\ wire_in' = [wire_in EXCEPT ![d] = Append(@, Pfc("resume", q))]
  /\ peer_asked' = [peer_asked EXCEPT ![d][q] = FALSE]
  /\ UNCHANGED <<sw, m_rtTable, peer_paused, spent>>

(* It receives a frame: Receive of its device, which asserts like ours. *)
Leaving(d) == Running /\ sw.wire_out[d] # <<>>
PeerReceive(d) ==
  LET p == Head(sw.wire_out[d])
      taken == [sw EXCEPT !.wire_out[d] = Tail(@)]
      obeys == sw.m_linkUp[d] /\ p.kind \in PfcKind
  IN  /\ Leaving(d)
      /\ sw' = IF obeys /\ p.kind = "resume" /\ ~peer_paused[d][p.q]
               THEN Failing(taken, "Must be PAUSEd") ELSE taken
      /\ peer_paused' = IF obeys THEN [peer_paused EXCEPT ![d][p.q] = p.kind = "pause"]
                        ELSE peer_paused
      /\ UNCHANGED <<m_rtTable, wire_in, peer_asked, spent>>

(* The error model of a receiver finds a frame corrupt; any frame may be. *)
Corrupt(d) ==
  /\ Running
  /\ Spare
  /\ \/ /\ wire_in[d] # <<>>
        /\ wire_in' = [wire_in EXCEPT ![d] = Tail(@)]
        /\ UNCHANGED sw
     \/ /\ sw.wire_out[d] # <<>>
        /\ sw' = [sw EXCEPT !.wire_out[d] = Tail(@)]
        /\ UNCHANGED wire_in
  /\ spent' = [spent EXCEPT !.loss = @ + 1]
  /\ UNCHANGED <<m_rtTable, peer_vars>>

Next ==
  \/ \E d \in Port : \/ TransmitComplete(d) \/ Receive(d)
                     \/ PeerReceive(d) \/ Corrupt(d) \/ TakeDownLink(d)
                     \/ \E q \in Queue : PeerPause(d, q) \/ PeerResume(d, q)
  \/ \E f \in Flow, size \in PktSize : PeerSend(f, size)

Spec == Init /\ [][Next]_vars

(* Scheduled events happen: the simulator runs every transmission to its   *)
(* end and delivers every frame (weak fairness, with the condition that    *)
(* enables the event in place of ENABLED, which TLC would evaluate through *)
(* every call of the event).  A neighbour that asked for a pause ends it   *)
(* some time.  Nothing makes a neighbour send or ask for a pause. *)
Fairness ==
  \A d \in Port :
    /\ []<>~Transmitting(d) \/ []<><<TransmitComplete(d)>>_vars
    /\ []<>~Arriving(d) \/ []<><<Receive(d)>>_vars
    /\ []<>~Leaving(d) \/ []<><<PeerReceive(d)>>_vars
    /\ \A q \in Queue : SF_vars(PeerResume(d, q))

FairSpec == Spec /\ Fairness

-----------------------------------------------------------------------------
PacketIn == [kind : {"data"}, in : Port, size : PktSize]
PfcFrame == [kind : PfcKind, q : Queue]

TypeOK ==
  /\ sw.shared_used_bytes \in Nat
  /\ {sw.hdrm_bytes, sw.ingress_bytes, sw.egress_bytes} \subseteq [Port -> [Queue -> Nat]]
  /\ sw.m_bytes \in [Port -> [Port -> [0..NQueue -> Nat]]]
  /\ \A d \in Port : /\ \A q \in Queue : sw.m_queues[d][q] \in Seq(PacketIn)
                     /\ sw.m_queues[d][0] \in Seq(PacketIn \cup PfcFrame)
                     /\ sw.m_rrlast[d] \in 0..NQueue
                     /\ sw.wire_out[d] \in Seq([kind : {"data"}] \cup PfcFrame)
                     /\ wire_in[d] \in Seq([kind : {"data"}, flow : Flow, size : PktSize] \cup PfcFrame)
  /\ sw.m_txMachineState \in [Port -> {"READY", "BUSY"}]
  /\ sw.m_linkUp \in [Port -> BOOLEAN]
  /\ {sw.paused, sw.m_paused, peer_paused, peer_asked} \subseteq [Port -> [Queue -> BOOLEAN]]
  /\ m_rtTable \in [Flow -> 0..NPort]

(* The bytes of port i that queue q of port o really holds. *)
BytesIn(queue, i) ==
  SumTo([k \in 1..Len(queue) |->
           IF queue[k].kind = "data" /\ queue[k].in = i THEN queue[k].size ELSE 0],
        Len(queue))

(* "m_bytes[inDev][outDev][qidx] is the bytes from inDev enqueued for       *)
(* outDev at qidx" (switch-node.h:48): kept at admission and at dequeue, in *)
(* different handlers, it equals what the queues hold of every data queue.  *)
(* (Of queue 0 it does not: SwitchNotifyDequeue does not take off what      *)
(* SendToDev added.) *)
DataBytesQueued ==
  \A i, o \in Port, q \in Queue :
    sw.m_bytes[i][o][q] = BytesIn(sw.m_queues[o][q], i)

(* What the MMU charges to a port is what the queues hold of it, although  *)
(* one event may admit a packet and send it away again, and pause and      *)
(* resume its upstream on the way (switch-node.cc:151-181, 240-262). *)
MmuMatchesQueues ==
  \A i \in Port, q \in Queue :
    sw.hdrm_bytes[i][q] + sw.ingress_bytes[i][q]
      = SumTo([o \in Port |-> BytesIn(sw.m_queues[o][q], i)], NPort)

(* Never less, also after a link went down: a counter that ran below its    *)
(* queue would wrap at a later dequeue (switch-mmu.cc:66-72). *)
MmuCoversQueues ==
  \A i \in Port, q \in Queue :
    sw.hdrm_bytes[i][q] + sw.ingress_bytes[i][q]
      >= SumTo([o \in Port |-> BytesIn(sw.m_queues[o][q], i)], NPort)

(* The byte matrix of the switch, the counters of the MMU and the queues of *)
(* the devices agree, although each is kept by other handlers              *)
(* (switch-node.cc:168-177, 243-262, broadcom-egress-queue.cc:71-87). Once  *)
(* a link was taken down the MMU may charge more, as nobody tells it        *)
(* (qbb-net-device.cc:511-521). *)
AccountsMatchQueues ==
  /\ MmuCoversQueues
  /\ spent.down = 0 => DataBytesQueued /\ MmuMatchesQueues

(* A free device has nothing it could send: whatever makes a packet        *)
(* sendable also starts the device (qbb-net-device.cc:245-346, 401-407).   *)
(* A missed start would leave the packet until some other event. *)
WorkConserving ==
  \A d \in Port : sw.m_txMachineState[d] = "READY" /\ sw.m_linkUp[d]
                    => E!Servable(sw.m_queues[d], sw.m_paused[d]) = {}

(* "Must be READY to transmit" (qbb-net-device.cc:447): TransmitStart runs  *)
(* on a free device. *)
OnlyReadyDevicesTransmit == "Must be READY to transmit" \notin sw.failed

(* No device starts two transmissions, as long as no route leads back, and *)
(* no other NS_ASSERT of the devices or of SendToDev fails unless a PFC    *)
(* frame or a link was lost. *)
NoAssertionFails ==
  /\ OnlyReadyDevicesTransmit
  /\ spent.loss = 0 => sw.failed = {}

(* Frames on their way, in this order, take a receiver from holding back    *)
(* queue q or not to doing so or not: told[k] is what it does after the     *)
(* first k of them, and every PFC frame for q is a change of that.          *)
Leads(frames, q, from, to) ==
  \E told \in [0..Len(frames) -> BOOLEAN] :
    /\ told[0] = from /\ told[Len(frames)] = to
    /\ \A k \in DOMAIN frames :
         IF frames[k].kind \in PfcKind /\ frames[k].q = q
         THEN told[k] = (frames[k].kind = "pause") /\ told[k - 1] # told[k]
         ELSE told[k] = told[k - 1]

(* What is on its way to a neighbour ends in what the MMU decided last, and *)
(* every frame of it changes what the neighbour does, although SendPfc runs *)
(* before SetPause, the frame may wait in queue 0 and several may be on     *)
(* their way (switch-node.cc:136-149, qbb-net-device.cc:338-381).           *)
UpstreamFollowsMmu ==
  spent.loss = 0 => \A d \in Port, q \in Queue : sw.m_linkUp[d] =>
    Leads(sw.wire_out[d] \o sw.m_queues[d][0], q, peer_paused[d][q], sw.paused[d][q])

(* A neighbour that was told to hold back a queue may go on some time: the  *)
(* departure that frees the room is one that looks at this neighbour       *)
(* (switch-node.cc:243-262). *)
DataFlow == {f \in Flow : Class[f] # 0}
UpstreamResumes ==
  \A f \in DataFlow :
    peer_paused[Origin[f]][Class[f]] ~> ~peer_paused[Origin[f]][Class[f]]

(* No data queue is passed over for ever while it may send: with packets   *)
(* in it and no pause it gets its turn (broadcom-egress-queue.cc:111-131). *)
EveryQueueServed ==
  \A f \in DataFlow :
    LET d == Route[{}][f]
        q == Class[f]
    IN  sw.m_queues[d][q] # <<>> ~> (sw.m_rrlast[d] = q \/ sw.m_queues[d][q] = <<>>)

=============================================================================
