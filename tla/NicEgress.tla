----------------------------- MODULE NicEgress ------------------------------
(***************************************************************************)
(* The host side of QbbNetDevice: RdmaEgressQueue picks the next packet    *)
(* among the queue pairs of a NIC, each paced by m_nextAvail, and the      *)
(* m_nextSend event wakes the device when none may send yet.               *)
(*                                                                         *)
(* Time passes in ticks; what the code keeps as a point in time is here    *)
(* the number of ticks until then.                                         *)
(***************************************************************************)
EXTENDS Integers, Sequences, SequencesExt, FiniteSetsExt

CONSTANTS
  Flow,          \* the queue pairs
  m_sizes,       \* m_sizes[f]: packets of f
  m_pg,          \* m_pg[f]: the priority group of f
  ack_q_idx,     \* the priority group whose pause stops ACKs
  win_packets,   \* packets on the fly at full rate; 0: no bound
  var_win,       \* the bound shrinks with the rate
  m_rateBound,   \* a flow is paced by its rate, not by that of the line
  Gap,           \* ticks between two packets of a flow, one for each rate
  PacketTime, AckTime, \* ticks a packet, an ACK occupies the device
  MaxDisturb     \* bound: changes of rate, NACKs, pauses, ACKs this host
                 \* sends and calls of RedistributeQp, together

MinGap == Min(Gap)
MaxGap == Max(Gap)
Group == {m_pg[f] : f \in Flow} \cup {ack_q_idx}

ASSUME NicSizes ==
  /\ m_sizes \in [Flow -> Nat \ {0}] /\ win_packets \in Nat
  /\ var_win \in BOOLEAN /\ m_rateBound \in BOOLEAN
  /\ Gap \subseteq Nat \ {0} /\ Gap # {} /\ IsFiniteSet(Gap)
  /\ {PacketTime, AckTime} \subseteq Nat \ {0} /\ PacketTime <= MinGap
ASSUME NicBounds == MaxDisturb \in Nat

VARIABLES
  shifts_avail, \* the congestion control moves m_nextAvail when it changes the
                \* rate (ChangeRate), as HPCC and HPCC-PINT do; the others set
                \* m_rate alone
  nic,       \* the device, see NicInit
  m_qpMap,   \* the flows started so far, finished ones too
  disturbed  \* how much of MaxDisturb is used up

nic_vars == <<shifts_avail, nic, m_qpMap, disturbed>>

(* No event is scheduled. *)
Expired == -1

(* A queue pair: packets not sent, packets on the fly, the ticks until      *)
(* m_nextAvail, the ticks a packet takes at the rate it has. *)
NewQueuePair(f) == [left |-> m_sizes[f], fly |-> 0, avail |-> 0, gap |-> MinGap]

NicInit ==
  /\ shifts_avail \in BOOLEAN
  /\ nic = [qp |-> [f \in Flow |-> NewQueuePair(f)],
            m_qps |-> <<>>,          \* the flows of the NIC, in their order
            m_rrlast |-> 0,
            m_ackQ |-> 0,            \* ACKs to send
            m_paused |-> {},         \* priority groups
            tx |-> Expired,          \* TransmitComplete; BUSY until then
            m_nextSend |-> Expired]
  /\ m_qpMap = {}
  /\ disturbed = 0

-----------------------------------------------------------------------------
(* RdmaQueuePair                                                           *)

IsFinished(qp) == qp.left = 0 /\ qp.fly = 0
GetWin(qp) ==
  IF var_win /\ win_packets > 0 THEN Max({1, (win_packets * MinGap) \div qp.gap}) ELSE win_packets
QpIsWinBound(qp) == GetWin(qp) # 0 /\ qp.fly >= GetWin(qp)

-----------------------------------------------------------------------------
(* RdmaEgressQueue::GetNextQindex.  The loop over the queue pairs starts    *)
(* after m_rrlast and ends at the first that may send now. *)

MaySend(n, f) ==
  n.qp[f].left > 0 /\ m_pg[f] \notin n.m_paused /\ ~QpIsWinBound(n.qp[f])
MaySendNow(n, f) == MaySend(n, f) /\ n.qp[f].avail <= 0

(* The place the loop looks at as its i-th; past the last it has found none. *)
Place(n, i) == ((i + n.m_rrlast) % Len(n.m_qps)) + 1
Hit(n) == Min({Len(n.m_qps) + 1} \cup {i \in DOMAIN n.m_qps : MaySendNow(n, n.m_qps[Place(n, i)])})

(* What s has at its places in T. *)
AtPlaces(s, T) ==
  LET kept[k \in 0..Len(s)] ==
        IF k = 0 THEN <<>>
        ELSE IF k \in T THEN Append(kept[k - 1], s[k]) ELSE kept[k - 1]
  IN  kept[Len(s)]

(* Finished queue pairs leave, from the first place the loop met one at. *)
Unfinished(n, hit) ==
  LET met == {p \in {Place(n, i) : i \in DOMAIN n.m_qps \cap 1..hit} :
                IsFinished(n.qp[n.m_qps[p]])}
  IN  AtPlaces(n.m_qps, {k \in DOMAIN n.m_qps :
                           (\A p \in met : k < p) \/ ~IsFinished(n.qp[n.m_qps[k]])})

-----------------------------------------------------------------------------
(* QbbNetDevice::DequeueAndTransmit, host branch: what it makes of n.      *)

SendAck(n) == [n EXCEPT !.m_ackQ = @ - 1, !.tx = AckTime]

(* DequeueQindex, TransmitStart, then PktSent, whose UpdateNextAvail goes  *)
(* by the rate of the flow, or by m_max_rate if rates do not bind. *)
Pace(qp) == IF m_rateBound THEN qp.gap ELSE MinGap
SendOf(n, f) ==
  [n EXCEPT !.qp[f] = [left |-> @.left - 1, fly |-> @.fly + 1, avail |-> Pace(@), gap |-> @.gap],
            !.m_rrlast = (CHOOSE i \in DOMAIN n.m_qps : n.m_qps[i] = f) - 1,
            !.tx = PacketTime]

(* Mutant: the loop ends at the first flow with no bytes left. *)
Mut_ScheduleNextSend(n) ==
  LET before == SelectInSeq(n.m_qps, LAMBDA g : n.qp[g].left = 0)
      waiting == ToSet(IF before = 0 THEN n.m_qps ELSE SubSeq(n.m_qps, 1, before - 1))
      t == Min({n.qp[f].avail : f \in waiting})
  IN  IF waiting # {} /\ n.m_nextSend = Expired /\ t > 0
      THEN [n EXCEPT !.m_nextSend = t] ELSE n

(* The wake-up is for the earliest of all flows with bytes left, also those *)
(* paused or bound by their window; one that is pending is left alone. *)
ScheduleNextSend(n) ==
  LET waiting == {f \in ToSet(n.m_qps) : n.qp[f].left > 0}
      t == Min({n.qp[f].avail : f \in waiting})
  IN  IF waiting # {} /\ n.m_nextSend = Expired /\ t > 0
      THEN [n EXCEPT !.m_nextSend = t] ELSE n

(* Mutant: the index of the picked flow is not updated when others leave. *)
MutIndex_DequeueWith(n, hit, kept) ==
  IF n.tx # Expired THEN n
  ELSE IF ack_q_idx \notin n.m_paused /\ n.m_ackQ > 0 THEN SendAck(n)
  ELSE IF hit > Len(n.m_qps) THEN ScheduleNextSend([n EXCEPT !.m_qps = kept])
  ELSE SendOf([n EXCEPT !.m_qps = kept], kept[Min({Place(n, hit), Len(kept)})])

(* hit and kept are what GetNextQindex finds. *)
DequeueWith(n, hit, kept) ==
  IF n.tx # Expired THEN n
  ELSE IF ack_q_idx \notin n.m_paused /\ n.m_ackQ > 0 THEN SendAck(n)
  ELSE IF hit > Len(n.m_qps) THEN ScheduleNextSend([n EXCEPT !.m_qps = kept])
  ELSE SendOf([n EXCEPT !.m_qps = kept], n.m_qps[Place(n, hit)])
DequeueAndTransmit(n) == DequeueWith(n, Hit(n), Unfinished(n, Hit(n)))

(* UpdateNextAvail of the device: a pending wake-up is brought forward. *)
UpdateNextAvail(n, t) ==
  IF n.m_nextSend # Expired /\ t < n.m_nextSend
  THEN [n EXCEPT !.m_nextSend = Max({t, 0})] ELSE n

(* Mutant: the time moves the wrong way. *)
Mut_ChangeRate(n, f, gap) ==
  LET t == n.qp[f].avail + n.qp[f].gap - gap
      changed == [n EXCEPT !.qp[f].gap = gap]
  IN  IF shifts_avail
      THEN UpdateNextAvail([changed EXCEPT !.qp[f].avail = t], t)
      ELSE changed

(* RdmaHw sets the rate of f. *)
ChangeRate(n, f, gap) ==
  LET t == n.qp[f].avail + gap - n.qp[f].gap
      changed == [n EXCEPT !.qp[f].gap = gap]
  IN  IF shifts_avail
      THEN UpdateNextAvail([changed EXCEPT !.qp[f].avail = t], t)
      ELSE changed

-----------------------------------------------------------------------------
(* Events.  Most end in DequeueAndTransmit, after they have made the       *)
(* device n. *)

Disturb(count) == disturbed + count <= MaxDisturb /\ disturbed' = disturbed + count

DequeueAfter(made) ==
  \E n \in {made} : \E hit \in {Hit(n)} : \E kept \in {Unfinished(n, hit)} :
    nic' = DequeueWith(n, hit, kept)

(* AddQueuePair and NewQp. *)
StartFlow(f) ==
  /\ f \notin m_qpMap
  /\ m_qpMap' = m_qpMap \cup {f}
  /\ DequeueAfter([nic EXCEPT !.m_qps = Append(@, f), !.qp[f].avail = 0])
  /\ UNCHANGED <<shifts_avail, disturbed>>

TransmitComplete ==
  /\ nic.tx = 0
  /\ DequeueAfter([nic EXCEPT !.tx = Expired])
  /\ UNCHANGED <<shifts_avail, m_qpMap, disturbed>>

NextSend ==
  /\ nic.m_nextSend = 0
  /\ DequeueAfter([nic EXCEPT !.m_nextSend = Expired])
  /\ UNCHANGED <<shifts_avail, m_qpMap, disturbed>>

(* NicReceiveAck: Acknowledge k packets, RecoverQueue for a NACK, then the    *)
(* congestion control, then TriggerTransmit. *)
AckOf(f, k, nack, gap) ==
  LET back == IF nack THEN nic.qp[f].fly - k ELSE 0
      acked == [nic EXCEPT !.qp[f].fly = @ - k - back, !.qp[f].left = @ + back]
      events == {e \in {"nack", "rate"} : IF e = "nack" THEN nack ELSE gap # nic.qp[f].gap}
  IN  /\ nic.qp[f].fly > 0 /\ (nack \/ k > 0)
      /\ Disturb(Cardinality(events))
      /\ UNCHANGED <<shifts_avail, m_qpMap>>
      /\ DequeueAfter(ChangeRate(acked, f, gap))
NicReceiveAck(f) ==
  \E k \in 0..nic.qp[f].fly :
    \E nack \in BOOLEAN, gap \in Gap : AckOf(f, k, nack, gap)

(* The timers of DCQCN set the rate between two ACKs.  They are started by  *)
(* the first CNP, which an ACK brings, and QpComplete stops them. *)
RateTimer(f) ==
  /\ ~shifts_avail /\ Disturb(1)
  /\ f \in m_qpMap /\ ~IsFinished(nic.qp[f])
  /\ nic.qp[f].left + nic.qp[f].fly < m_sizes[f]
  /\ \E gap \in Gap \ {nic.qp[f].gap} : nic' = ChangeRate(nic, f, gap)
  /\ UNCHANGED <<shifts_avail, m_qpMap>>

(* A data packet arrives and NicReceiveUdp answers it. *)
NicReceiveUdp ==
  /\ Disturb(1)
  /\ DequeueAfter([nic EXCEPT !.m_ackQ = @ + 1])
  /\ UNCHANGED <<shifts_avail, m_qpMap>>

(* PFC frames of the switch. *)
ReceivePause(g) ==
  /\ Disturb(1) /\ g \notin nic.m_paused
  /\ nic' = [nic EXCEPT !.m_paused = @ \cup {g}]
  /\ UNCHANGED <<shifts_avail, m_qpMap>>
(* Mutant: nothing is transmitted when a pause ends. *)
Mut_ReceiveResume(g) ==
  /\ g \in nic.m_paused
  /\ nic' = [nic EXCEPT !.m_paused = @ \ {g}]
  /\ UNCHANGED <<shifts_avail, m_qpMap, disturbed>>
ReceiveResume(g) ==
  /\ g \in nic.m_paused
  /\ DequeueAfter([nic EXCEPT !.m_paused = @ \ {g}])
  /\ UNCHANGED <<shifts_avail, m_qpMap, disturbed>>

(* Routes have changed: the queue pairs, finished ones too, are added anew *)
(* one by one in the order of m_qpMap, each with a ReassignedQp. *)
Reassigned(n, f) == DequeueAndTransmit([n EXCEPT !.m_qps = Append(@, f)])
(* The device after the last of them. *)
Reassigning(cleared, order) ==
  LET after[k \in 0..Len(order)] ==
        IF k = 0 THEN cleared ELSE Reassigned(after[k - 1], order[k])
  IN  after[Len(order)]
(* Mutant: the group keeps what it had. *)
Mut_RedistributeQp ==
  /\ Disturb(1)
  /\ \E order \in SetToSeqs(m_qpMap) : nic' = Reassigning(nic, order)
  /\ UNCHANGED <<shifts_avail, m_qpMap>>

RedistributeQp ==
  /\ Disturb(1)
  /\ \E order \in SetToSeqs(m_qpMap) :
       nic' = Reassigning([nic EXCEPT !.m_qps = <<>>], order)
  /\ UNCHANGED <<shifts_avail, m_qpMap>>

(* Time passes up to the next event.  How late a flow is matters only as   *)
(* far as a change of rate can make up for it. *)
Tick ==
  /\ nic.tx # 0 /\ nic.m_nextSend # 0
  /\ LET later(t) == IF t = Expired THEN t ELSE t - 1
         aged(qp) == [qp EXCEPT !.avail = Max({@ - 1, qp.gap - MaxGap})]
     IN  nic' = [nic EXCEPT !.tx = later(@), !.m_nextSend = later(@),
                            !.qp = [f \in Flow |-> aged(nic.qp[f])]]
  /\ UNCHANGED <<shifts_avail, m_qpMap, disturbed>>

NicNext ==
  \/ \E f \in Flow : StartFlow(f) \/ NicReceiveAck(f) \/ RateTimer(f)
  \/ \E g \in Group : ReceivePause(g) \/ ReceiveResume(g)
  \/ TransmitComplete \/ NextSend \/ NicReceiveUdp \/ RedistributeQp \/ Tick

NicSpec == NicInit /\ [][NicNext]_nic_vars

(* Time passes and scheduled events happen; what is on the fly is          *)
(* acknowledged and a pause ends. *)
NicFairness ==
  /\ WF_nic_vars(Tick) /\ WF_nic_vars(TransmitComplete) /\ WF_nic_vars(NextSend)
  /\ \A f \in Flow : WF_nic_vars(AckOf(f, nic.qp[f].fly, FALSE, nic.qp[f].gap))
  /\ \A g \in Group : WF_nic_vars(ReceiveResume(g))
NicFairSpec == NicSpec /\ NicFairness

-----------------------------------------------------------------------------
NicTypeOK ==
  /\ nic.qp \in [Flow -> [left : Nat, fly : Nat, avail : (MinGap - MaxGap)..MaxGap, gap : Gap]]
  /\ \A f \in Flow : /\ nic.qp[f].left + nic.qp[f].fly <= m_sizes[f]
                     /\ shifts_avail => nic.qp[f].avail <= nic.qp[f].gap
  /\ shifts_avail \in BOOLEAN
  /\ nic.m_qps \in Seq(m_qpMap) /\ m_qpMap \subseteq Flow
  /\ nic.m_rrlast \in Nat /\ nic.m_ackQ \in 0..MaxDisturb /\ nic.m_paused \subseteq Group
  /\ nic.tx \in Expired..Max({PacketTime, AckTime}) /\ nic.m_nextSend \in Expired..MaxGap

(* A packet leaves only through a free device, when its flow is not paused, *)
(* its window is open and its time has come, also when the ACK that makes   *)
(* it leave changes the rate, and although the index of the flow that was   *)
(* picked moves when finished ones are cleared (qbb-net-device.cc:93-129,   *)
(* rdma-hw.cc:586-598). *)
SentInTurn ==
  [][\A f \in Flow : nic'.qp[f].left < nic.qp[f].left =>
       /\ nic.tx <= 0
       /\ m_pg[f] \notin nic'.m_paused
       /\ GetWin(nic'.qp[f]) # 0 => nic'.qp[f].fly <= GetWin(nic'.qp[f])
       /\ nic.qp[f].avail + (IF shifts_avail THEN nic'.qp[f].gap - nic.qp[f].gap ELSE 0) <= 0]_nic_vars

(* Every flow that has something to do is once in the group of the NIC,     *)
(* whatever is cleared and redistributed (qbb-net-device.cc:114-127,        *)
(* rdma-hw.cc:513-529). *)
NoFlowForgotten ==
  \A f \in m_qpMap : ~IsFinished(nic.qp[f]) =>
    Cardinality({i \in DOMAIN nic.m_qps : nic.m_qps[i] = f}) = 1

(* Not so in the code: an idle device wakes by the time a flow may send.    *)
(* The wake-up is for the earliest flow with packets left, a paused or      *)
(* window-bound one included, is not set at all when that one's time is     *)
(* past, and is left alone when a new flow's time comes before it           *)
(* (qbb-net-device.cc:284-295).  MCNicEgress2.cfg shows a flow that waits.  *)
WakesInTime ==
  \A f \in ToSet(nic.m_qps) : nic.tx = Expired /\ MaySend(nic, f) =>
    nic.m_nextSend # Expired /\ nic.m_nextSend <= Max({nic.qp[f].avail, 0})

(* An idle device with a flow that could send has a wake-up pending, or    *)
(* waits for the ACK or the end of a pause that a flow whose time has come  *)
(* is waiting for (qbb-net-device.cc:284-295), or was waiting for: when a   *)
(* timer raises the rate, the window grows and nothing is transmitted       *)
(* before the next ACK (rdma-hw.cc:680-725). *)
WakeUpPending ==
  \A f \in ToSet(nic.m_qps) : nic.tx = Expired /\ MaySend(nic, f) =>
    \/ nic.m_nextSend # Expired
    \/ \E g \in ToSet(nic.m_qps) :
         /\ nic.qp[g].left > 0 /\ nic.qp[g].avail <= 0
         /\ ~MaySend(nic, g) \/ (~shifts_avail /\ var_win /\ nic.qp[g].fly > 0)

(* Every flow that has been started gets its packets out and finishes, and  *)
(* stays so (qbb-net-device.cc:257-296). *)
EveryFlowFinishes == []<>(\A f \in m_qpMap : IsFinished(nic.qp[f]))

=============================================================================
