----------------------------- MODULE SwitchMmu -----------------------------
(***************************************************************************)
(* The shared-buffer accounting of a switch and its PFC pause decisions:   *)
(* class SwitchMmu, driven by the two handlers of SwitchNode that call it, *)
(* SendToDev (a packet is admitted to an egress queue, or dropped) and     *)
(* SwitchNotifyDequeue (a packet leaves its egress queue).                 *)
(*                                                                         *)
(* Bytes that came in through port i in queue q are charged first to the   *)
(* reserve of (i, q), then to the pool all ports share, and once the pool  *)
(* share of (i, q) is used up to the headroom of port i.  Queue 0 (PFC,    *)
(* CNP, high-priority ACKs) is never charged, so it is not modelled here.  *)
(***************************************************************************)
EXTENDS NatSums

CONSTANTS
  NPort,          \* number of ports; the code numbers them from 1
  NQueue,         \* number of data queues; queue 0 is outside the MMU
  PktSize,        \* packet sizes in bytes
  BufferSize,     \* buffer_size
  Reserve,        \* reserve
  ResumeOffset,   \* resume_offset
  Headroom,       \* headroom[port]
  PfcDiv          \* 2 ^ pfc_a_shift[port], the divisor a right shift is

Port == 1..NPort
Queue == 1..NQueue

ASSUME MmuSizes == NPort \in Nat /\ NQueue \in Nat
ASSUME MmuPktSize == PktSize \subseteq Nat \ {0}
ASSUME MmuConfig ==
  /\ BufferSize \in Nat /\ Reserve \in Nat /\ ResumeOffset \in Nat
  /\ Headroom \in [Port -> Nat]
  /\ PfcDiv \in [Port -> Nat \ {0}]

(* ConfigNPort: headroom and reserve are set aside once per port. *)
total_hdrm == SumTo(Headroom, NPort)
total_rsrv == NPort * Reserve
(* Mutant: the headroom is not set aside. *)
Mut_SharedPool == BufferSize - total_rsrv
SharedPool == BufferSize - total_hdrm - total_rsrv

(* The configuration leaves a pool to share; with less, the unsigned       *)
(* subtraction of GetPfcThreshold would wrap at the very first packet.     *)
ASSUME MmuPool == SharedPool \in Nat

VARIABLES
  shared_used_bytes,   \* bytes charged to the shared pool
  hdrm_bytes,          \* hdrm_bytes[i][q]: bytes charged to headroom
  ingress_bytes,       \* ingress_bytes[i][q]: bytes charged to reserve or pool
  paused,              \* paused[i][q]: the upstream of port i was told to stop
  egress_bytes,        \* egress_bytes[o][q]: bytes waiting to leave port o
  m_bytes              \* m_bytes[i][o][q]: bytes from port i waiting at port o

mmu_vars == <<shared_used_bytes, hdrm_bytes, ingress_bytes, paused,
              egress_bytes, m_bytes>>

-----------------------------------------------------------------------------
(* Pure decisions, over the counters they read.                            *)

(* GetSharedUsed: what an ingress counter holds beyond its reserve. *)
SharedUsed(ingress) == IF ingress > Reserve THEN ingress - Reserve ELSE 0

(* GetPfcThreshold: the share of the free pool one (port, queue) may use. *)
PfcThreshold(i, shared) == (SharedPool - shared) \div PfcDiv[i]

(* Mutants: a pause decided by the pool alone; no resume once the pool share *)
(* is smaller than the offset, however little the port stores. *)
MutPoolOnly_CheckShouldPause(i, isPaused, hdrm, ingress, shared) ==
  ~isPaused /\ SharedUsed(ingress) >= PfcThreshold(i, shared)
MutNoEmpty_CheckShouldResume(i, isPaused, hdrm, ingress, shared) ==
  isPaused /\ hdrm = 0 /\ SharedUsed(ingress) + ResumeOffset <= PfcThreshold(i, shared)

CheckShouldPause(i, isPaused, hdrm, ingress, shared) ==
  /\ ~isPaused
  /\ hdrm > 0 \/ SharedUsed(ingress) >= PfcThreshold(i, shared)

CheckShouldResume(i, isPaused, hdrm, ingress, shared) ==
  /\ isPaused
  /\ hdrm = 0
  /\ \/ SharedUsed(ingress) = 0
     \/ SharedUsed(ingress) + ResumeOffset <= PfcThreshold(i, shared)

(* Mutants: an admission that forgets the size of the arriving packet; a      *)
(* charge that spares the headroom while the pool has a byte left.            *)
MutNoSize_CheckIngressAdmission(i, q, s) ==
  \/ hdrm_bytes[i][q] < Headroom[i]
  \/ s + SharedUsed(ingress_bytes[i][q]) <= PfcThreshold(i, shared_used_bytes)
MutPoolEmpty_ToHeadroom(i, q, s) ==
  ingress_bytes[i][q] + s > Reserve /\ shared_used_bytes = SharedPool

(* CheckIngressAdmission refuses a packet that neither the headroom nor    *)
(* the pool share has room for.  CheckEgressAdmission never refuses.       *)
CheckIngressAdmission(i, q, s) ==
  \/ s + hdrm_bytes[i][q] <= Headroom[i]
  \/ s + SharedUsed(ingress_bytes[i][q]) <= PfcThreshold(i, shared_used_bytes)

(* UpdateIngressAdmission charges the packet to the headroom when its      *)
(* bytes would take the counter past its share of the pool.                *)
ToHeadroom(i, q, s) ==
  LET new_bytes == ingress_bytes[i][q] + s
  IN  /\ new_bytes > Reserve
      /\ new_bytes - Reserve > PfcThreshold(i, shared_used_bytes)

FromHeadroom(i, q, s) == Smaller(hdrm_bytes[i][q], s)

-----------------------------------------------------------------------------
Init ==
  /\ shared_used_bytes = 0
  /\ hdrm_bytes = [i \in Port |-> [q \in Queue |-> 0]]
  /\ ingress_bytes = [i \in Port |-> [q \in Queue |-> 0]]
  /\ paused = [i \in Port |-> [q \in Queue |-> FALSE]]
  /\ egress_bytes = [o \in Port |-> [q \in Queue |-> 0]]
  /\ m_bytes = [i \in Port |-> [o \in Port |-> [q \in Queue |-> 0]]]

(* Mutants: the pool is charged with bytes the reserve holds; the packet that *)
(* crosses the reserve is discharged from the pool in full; a packet that is  *)
(* in the headroom in part is discharged from the ingress counter in full. *)
MutWhole_ChargeIngress(i, q, s) ==
  IF ToHeadroom(i, q, s)
  THEN /\ hdrm_bytes' = [hdrm_bytes EXCEPT ![i][q] = @ + s]
       /\ UNCHANGED <<ingress_bytes, shared_used_bytes>>
  ELSE /\ ingress_bytes' = [ingress_bytes EXCEPT ![i][q] = @ + s]
       /\ shared_used_bytes' = shared_used_bytes
             + (IF ingress_bytes[i][q] + s <= Reserve THEN 0 ELSE s)
       /\ UNCHANGED hdrm_bytes
MutWhole_DischargeIngress(i, q, s) ==
  LET rest == s - FromHeadroom(i, q, s)
  IN  /\ hdrm_bytes' = [hdrm_bytes EXCEPT ![i][q] = @ - FromHeadroom(i, q, s)]
      /\ ingress_bytes' = [ingress_bytes EXCEPT ![i][q] = @ - rest]
      /\ shared_used_bytes' = shared_used_bytes - rest
MutTwice_DischargeIngress(i, q, s) ==
  /\ hdrm_bytes' = [hdrm_bytes EXCEPT ![i][q] = @ - FromHeadroom(i, q, s)]
  /\ ingress_bytes' = [ingress_bytes EXCEPT ![i][q] = @ - Smaller(@, s)]
  /\ shared_used_bytes' = shared_used_bytes
               - Smaller(s, SharedUsed(ingress_bytes[i][q]))

(* UpdateIngressAdmission *)
ChargeIngress(i, q, s) ==
  IF ToHeadroom(i, q, s)
  THEN /\ hdrm_bytes' = [hdrm_bytes EXCEPT ![i][q] = @ + s]
       /\ UNCHANGED <<ingress_bytes, shared_used_bytes>>
  ELSE LET new_bytes == ingress_bytes[i][q] + s
       IN  /\ ingress_bytes' = [ingress_bytes EXCEPT ![i][q] = new_bytes]
           /\ shared_used_bytes' =
                IF new_bytes <= Reserve THEN shared_used_bytes
                ELSE shared_used_bytes + Smaller(s, new_bytes - Reserve)
           /\ UNCHANGED hdrm_bytes

(* RemoveFromIngressAdmission: the headroom is emptied first, then the     *)
(* pool, then the reserve, whatever the leaving packet had been charged to.*)
DischargeIngress(i, q, s) ==
  LET rest == s - FromHeadroom(i, q, s)
  IN  /\ hdrm_bytes' = [hdrm_bytes EXCEPT ![i][q] = @ - FromHeadroom(i, q, s)]
      /\ ingress_bytes' = [ingress_bytes EXCEPT ![i][q] = @ - rest]
      /\ shared_used_bytes' = shared_used_bytes
                       - Smaller(rest, SharedUsed(ingress_bytes[i][q]))

(* CheckAndSendPfc, on the counters after the charge. *)
CheckAndSendPfc(i, q) ==
  paused' = [paused EXCEPT ![i][q] =
               @ \/ CheckShouldPause(i, @, hdrm_bytes'[i][q],
                                     ingress_bytes'[i][q], shared_used_bytes')]

(* CheckAndSendResume, on the counters after the discharge. *)
CheckAndSendResume(i, q) ==
  paused' = [paused EXCEPT ![i][q] =
               @ /\ ~CheckShouldResume(i, @, hdrm_bytes'[i][q],
                                       ingress_bytes'[i][q], shared_used_bytes')]

(* SendToDev: a packet of queue q and size s from port i, bound for port o,*)
(* is admitted. *)
Enqueue(i, o, q, s) ==
  /\ CheckIngressAdmission(i, q, s)
  /\ ChargeIngress(i, q, s)
  /\ egress_bytes' = [egress_bytes EXCEPT ![o][q] = @ + s]
  /\ CheckAndSendPfc(i, q)
  /\ m_bytes' = [m_bytes EXCEPT ![i][o][q] = @ + s]

(* SendToDev: the packet is dropped before any counter is touched. *)
Drop(i, q, s) ==
  /\ ~CheckIngressAdmission(i, q, s)
  /\ UNCHANGED mmu_vars

(* Mutant: the egress counter of the port the packet came in through. *)
MutInDev_Dequeue(i, o, q, s) ==
  /\ m_bytes[i][o][q] >= s
  /\ DischargeIngress(i, q, s)
  /\ egress_bytes' = [egress_bytes EXCEPT ![i][q] = @ - s]
  /\ m_bytes' = [m_bytes EXCEPT ![i][o][q] = @ - s]
  /\ CheckAndSendResume(i, q)

(* SwitchNotifyDequeue: a packet that was admitted leaves port o. *)
Dequeue(i, o, q, s) ==
  /\ m_bytes[i][o][q] >= s
  /\ DischargeIngress(i, q, s)
  /\ egress_bytes' = [egress_bytes EXCEPT ![o][q] = @ - s]
  /\ m_bytes' = [m_bytes EXCEPT ![i][o][q] = @ - s]
  /\ CheckAndSendResume(i, q)

Next ==
  \E i, o \in Port, q \in Queue, s \in PktSize :
    \/ Enqueue(i, o, q, s)
    \/ Drop(i, q, s)
    \/ Dequeue(i, o, q, s)

Spec == Init /\ [][Next]_mmu_vars

-----------------------------------------------------------------------------
(* Every counter is a natural number: no unsigned subtraction of           *)
(* RemoveFromIngressAdmission or RemoveFromEgressAdmission wraps.          *)
TypeOK ==
  /\ shared_used_bytes \in Nat
  /\ hdrm_bytes \in [Port -> [Queue -> Nat]]
  /\ ingress_bytes \in [Port -> [Queue -> Nat]]
  /\ paused \in [Port -> [Queue -> BOOLEAN]]
  /\ egress_bytes \in [Port -> [Queue -> Nat]]
  /\ m_bytes \in [Port -> [Port -> [Queue -> Nat]]]

(* Of the stored bytes: those of queue q that came in through port i, those *)
(* that wait to leave port o, and all.                                      *)
Stored(bytes, i, q) == SumTo([o \in Port |-> bytes[i][o][q]], NPort)
Waiting(bytes, o, q) == SumTo([i \in Port |-> bytes[i][o][q]], NPort)
StoredTotal(bytes) ==
  SumTo([i \in Port |-> SumTo([q \in Queue |-> Stored(bytes, i, q)], NQueue)], NPort)

(* What the ingress counters use of the pool: one port, and all. *)
PoolOf(ingress, i) == SumTo([q \in Queue |-> SharedUsed(ingress[i][q])], NQueue)
PoolTotal(ingress) == SumTo([i \in Port |-> PoolOf(ingress, i)], NPort)

(* Headroom and ingress counters of a (port, queue) account for exactly    *)
(* the stored bytes, although a leaving packet is not discharged from the  *)
(* counter it was charged to (switch-mmu.cc:49-72). *)
IngressAccounted ==
  \A i \in Port, q \in Queue : hdrm_bytes[i][q] + ingress_bytes[i][q] = Stored(m_bytes, i, q)

(* The egress counter the ECN marking reads is the length of the queue it  *)
(* stands for (switch-mmu.cc:63-65, 73-75). *)
EgressAccounted ==
  \A o \in Port, q \in Queue : egress_bytes[o][q] = Waiting(m_bytes, o, q)

(* The one counter all ports share, kept by increments in one handler and  *)
(* decrements in another, is the sum of what the ports use of the pool     *)
(* (switch-mmu.cc:59, 71). *)
SharedAccounted == shared_used_bytes = PoolTotal(ingress_bytes)

(* The three kinds of counter, each kept by its own increments and         *)
(* decrements, say the same of the one buffer. *)
AccountsExact == IngressAccounted /\ EgressAccounted /\ SharedAccounted

(* The pool is never overdrawn, so the unsigned subtraction of             *)
(* GetPfcThreshold never wraps to a huge threshold that would admit every  *)
(* packet (switch-mmu.cc:92-94). *)
PoolNotOverdrawn == shared_used_bytes <= SharedPool

(* No (port, queue) uses more headroom than its port has: a packet let in  *)
(* by the pool test of CheckIngressAdmission is never charged to the       *)
(* headroom by UpdateIngressAdmission (switch-mmu.cc:37, 55). *)
HeadroomRespected ==
  \A i \in Port, q \in Queue : hdrm_bytes[i][q] <= Headroom[i]

(* What admission and charging hand out stays within pool and headroom,    *)
(* although they decide by different tests (switch-mmu.cc:36-62). *)
WithinBudget == PoolNotOverdrawn /\ HeadroomRespected

(* Headroom is only in use while the upstream is paused: its bytes are the *)
(* ones in flight when the pause was sent (switch-mmu.cc:76-84). *)
HeadroomOnlyWhilePaused ==
  \A i \in Port, q \in Queue : hdrm_bytes[i][q] > 0 => paused[i][q]

(* A paused upstream has bytes stored here.  Only a dequeue of its own     *)
(* bytes runs CheckAndSendResume, so an upstream paused over an empty      *)
(* buffer would stay paused for ever (switch-node.cc:136-149, 261). *)
PausedHasBacklog ==
  \A i \in Port, q \in Queue : paused[i][q] => Stored(m_bytes, i, q) > 0

(* Who fills the headroom is paused, and who is paused has a backlog that  *)
(* will lift the pause (switch-mmu.cc:76-84). *)
PauseFollowsBacklog == HeadroomOnlyWhilePaused /\ PausedHasBacklog

(* The buffer holds what is stored in it.  Headroom and reserve are set    *)
(* aside per port but drawn per (port, queue) (switch-mmu.cc:119-126), so  *)
(* this is a property of a switch that carries its data in one queue.      *)
StoredFitsBuffer == StoredTotal(m_bytes) <= BufferSize

=============================================================================
