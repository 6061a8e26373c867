--------------------------- MODULE RdmaTransport ----------------------------
(***************************************************************************)
(* One flow of RdmaHw: the sender's RdmaQueuePair, the receiver's          *)
(* RdmaRxQueuePair and the paths between them.  Sequence numbers count     *)
(* bytes.  There is no retransmission timer: the sender goes back only     *)
(* when a NACK tells it to.  When a packet may leave (pacing, pauses and   *)
(* the other flows of the NIC) is left open.                               *)
(***************************************************************************)
EXTENDS Naturals, Sequences, SequencesExt

CONSTANTS
  m_size,         \* bytes of the flow
  m_mtu,          \* payload of a full packet
  m_win,          \* bound of the bytes on the fly; 0: no bound
  m_var_win,      \* the bound shrinks with the rate, down to one byte
  m_chunk,        \* chunk of the go-back-to-chunk mode; 0 if unused
  m_ack_interval, \* L2AckInterval
  m_backto0,      \* L2BackToZero
  Modulus,        \* snd_nxt - snd_una is computed modulo this; 2^64 in the code
  MaxFlight,      \* bound: packets on a path at once
  MaxDataLoss,    \* bound: data packets lost
  MaxAckLoss,     \* bound: ACKs and NACKs lost
  MaxOvertake     \* bound: ACKs and NACKs that overtake the one before them

ASSUME TransportSizes ==
  /\ m_size \in Nat \ {0} /\ m_mtu \in Nat \ {0} /\ m_win \in Nat
  /\ m_chunk \in Nat /\ m_ack_interval \in Nat
  /\ {m_var_win, m_backto0} \subseteq BOOLEAN
  /\ m_backto0 => m_chunk > 0
  /\ Modulus \in Nat /\ Modulus > m_size + m_win
ASSUME TransportBounds ==
  /\ MaxFlight \in Nat \ {0} /\ MaxDataLoss \in Nat /\ MaxAckLoss \in Nat
  /\ MaxOvertake \in Nat

VARIABLES
  snd_nxt, snd_una,  \* next byte to send, first byte not acknowledged
  completions,       \* calls of m_qpCompleteCallback
  expected,          \* ReceiverNextExpectedSeq
  m_lastNACK,        \* what the last NACK asked for
  nack_timer,        \* the time is before m_nackTimer
  data,              \* packets on their way to the receiver
  acks,              \* ACKs and NACKs on their way to the sender
  divided_by_zero,   \* a remainder by m_chunk = 0 ended the run
  spent              \* losses and overtakings so far

sender == <<snd_nxt, snd_una, completions>>
receiver == <<expected, m_lastNACK, nack_timer>>
vars == <<sender, receiver, data, acks, divided_by_zero, spent>>

Lesser(a, b) == IF a < b THEN a ELSE b

-----------------------------------------------------------------------------
(* Sender *)

GetBytesLeft == IF m_size >= snd_nxt THEN m_size - snd_nxt ELSE 0

(* GetOnTheFly, in unsigned arithmetic. *)
GetOnTheFly == (Modulus + snd_nxt - snd_una) % Modulus

(* GetWin: with a variable window the bound follows the rate. *)
Windows == IF m_var_win /\ m_win > 0 THEN 1..m_win ELSE {m_win}
IsWinBound(w) == w # 0 /\ GetOnTheFly >= w

Init ==
  /\ snd_nxt = 0 /\ snd_una = 0 /\ completions = 0
  /\ expected = 0 /\ m_lastNACK = 0 /\ nack_timer = FALSE
  /\ data = <<>> /\ acks = <<>>
  /\ divided_by_zero = FALSE
  /\ spent = [data |-> 0, ack |-> 0, overtake |-> 0]

Running == ~divided_by_zero

(* Mutant: the last packet is sent in full size. *)
Mut_SendPacket ==
  /\ Running
  /\ GetBytesLeft > 0
  /\ \E w \in Windows : ~IsWinBound(w)
  /\ Len(data) < MaxFlight
  /\ data' = Append(data, [seq |-> snd_nxt, size |-> m_mtu])
  /\ snd_nxt' = snd_nxt + m_mtu
  /\ UNCHANGED <<snd_una, completions, receiver, acks, divided_by_zero, spent>>

(* GetNxtPacket, when GetNextQindex of the NIC picks the queue pair. *)
SendPacket ==
  /\ Running
  /\ GetBytesLeft > 0
  /\ \E w \in Windows : ~IsWinBound(w)
  /\ Len(data) < MaxFlight
  /\ LET payload_size == Lesser(GetBytesLeft, m_mtu)
     IN  /\ data' = Append(data, [seq |-> snd_nxt, size |-> payload_size])
         /\ snd_nxt' = snd_nxt + payload_size
  /\ UNCHANGED <<snd_una, completions, receiver, acks, divided_by_zero, spent>>

StartOfChunk(seq) == (seq \div m_chunk) * m_chunk

(* Mutant: an ACK in the middle of a chunk acknowledges the whole chunk. *)
MutUp_Acknowledged(seq) ==
  IF m_backto0 THEN ((seq + m_chunk - 1) \div m_chunk) * m_chunk ELSE seq

(* What an ACK or NACK for seq acknowledges: in go-back-to-chunk mode whole *)
(* chunks only. *)
Acknowledged(seq) == IF m_backto0 THEN StartOfChunk(seq) ELSE seq

(* Mutants: completion is reported when everything was sent; a NACK does   *)
(* not make the sender go back. *)
MutSent_ReceiveAck ==
  LET a == Head(acks)
      una == IF Acknowledged(a.seq) > snd_una THEN Acknowledged(a.seq) ELSE snd_una
  IN  /\ Running /\ acks # <<>>
      /\ acks' = Tail(acks)
      /\ snd_una' = una
      /\ completions' = IF snd_nxt >= m_size THEN completions + 1 ELSE completions
      /\ snd_nxt' = IF a.nack THEN una ELSE snd_nxt
      /\ UNCHANGED <<receiver, data, divided_by_zero, spent>>
MutNoRecover_ReceiveAck ==
  LET a == Head(acks)
      una == IF Acknowledged(a.seq) > snd_una THEN Acknowledged(a.seq) ELSE snd_una
  IN  /\ Running /\ acks # <<>>
      /\ acks' = Tail(acks)
      /\ snd_una' = una
      /\ completions' = IF una >= m_size THEN completions + 1 ELSE completions
      /\ UNCHANGED <<snd_nxt, receiver, data, divided_by_zero, spent>>

(* ReceiveAck: Acknowledge and QpComplete unless ACKs are disabled, then   *)
(* RecoverQueue for a NACK. *)
ReceiveAck ==
  LET a == Head(acks)
      una == IF m_ack_interval > 0 /\ Acknowledged(a.seq) > snd_una
             THEN Acknowledged(a.seq) ELSE snd_una
  IN  /\ Running
      /\ acks # <<>>
      /\ acks' = Tail(acks)
      /\ snd_una' = una
      /\ completions' = IF m_ack_interval > 0 /\ una >= m_size
                        THEN completions + 1 ELSE completions
      /\ snd_nxt' = IF a.nack THEN una ELSE snd_nxt
      /\ UNCHANGED <<receiver, data, divided_by_zero, spent>>

-----------------------------------------------------------------------------
(* Receiver: ReceiveUdp and ReceiverCheckSeq.                              *)

Reply(nack, seq) == [nack |-> nack, seq |-> seq]

(* Mutant: every m_ack_interval bytes are answered, and the end of a flow  *)
(* that is not a multiple of them is not. *)
Mut_AcceptInOrder(p) ==
  /\ p.seq = expected
  /\ expected' = p.seq + p.size
  /\ acks' = IF expected' % m_ack_interval = 0 THEN Append(acks, Reply(FALSE, expected'))
             ELSE acks
  /\ UNCHANGED <<m_lastNACK, nack_timer, divided_by_zero>>

(* The packet that was expected.  ReceiveUdp has just set the milestone to *)
(* the interval, so every packet past the first interval is answered; one  *)
(* before it is when it ends a chunk. *)
AcceptInOrder(p) ==
  LET next == p.seq + p.size
  IN  /\ p.seq = expected
      /\ expected' = next
      /\ divided_by_zero' = (next < m_ack_interval /\ m_chunk = 0)
      /\ acks' = IF next >= m_ack_interval THEN Append(acks, Reply(FALSE, next))
                 ELSE IF m_chunk # 0 /\ next % m_chunk = 0
                      THEN Append(acks, Reply(FALSE, next))
                      ELSE acks
      /\ UNCHANGED <<m_lastNACK, nack_timer>>

(* A packet beyond the one expected is answered with a NACK, once per      *)
(* interval and expected packet.  In go-back-to-chunk mode the receiver    *)
(* gives up the part of a chunk it has. *)
RejectGap(p) ==
  /\ p.seq > expected
  /\ IF ~nack_timer \/ m_lastNACK # expected
     THEN /\ nack_timer' = TRUE
          /\ m_lastNACK' = expected
          /\ expected' = IF m_backto0 THEN StartOfChunk(expected) ELSE expected
          /\ acks' = Append(acks, Reply(TRUE, expected'))
     ELSE UNCHANGED <<receiver, acks>>
  /\ UNCHANGED divided_by_zero

IgnoreDuplicate(p) ==
  p.seq < expected /\ UNCHANGED <<receiver, acks, divided_by_zero>>

ReceiveUdp ==
  /\ Running
  /\ data # <<>>
  /\ Len(acks) < MaxFlight
  /\ data' = Tail(data)
  /\ \/ AcceptInOrder(Head(data))
     \/ RejectGap(Head(data))
     \/ IgnoreDuplicate(Head(data))
  /\ UNCHANGED <<sender, spent>>

(* The clock passes m_nackTimer. *)
NackTimerExpires ==
  /\ Running
  /\ nack_timer
  /\ nack_timer' = FALSE
  /\ UNCHANGED <<sender, expected, m_lastNACK, data, acks, divided_by_zero, spent>>

-----------------------------------------------------------------------------
(* The paths: packets are dropped by a full switch or found corrupt; after *)
(* a change of routes a packet may overtake the one before it.             *)
LoseData ==
  /\ Running /\ spent.data < MaxDataLoss
  /\ \E k \in DOMAIN data : data' = RemoveAt(data, k)
  /\ spent' = [spent EXCEPT !.data = @ + 1]
  /\ UNCHANGED <<sender, receiver, acks, divided_by_zero>>

LoseAck ==
  /\ Running /\ spent.ack < MaxAckLoss
  /\ \E k \in DOMAIN acks : acks' = RemoveAt(acks, k)
  /\ spent' = [spent EXCEPT !.ack = @ + 1]
  /\ UNCHANGED <<sender, receiver, data, divided_by_zero>>

OvertakeAck ==
  /\ Running /\ spent.overtake < MaxOvertake
  /\ \E k \in 1..(Len(acks) - 1) :
       acks' = [acks EXCEPT ![k] = acks[k + 1], ![k + 1] = acks[k]]
  /\ spent' = [spent EXCEPT !.overtake = @ + 1]
  /\ UNCHANGED <<sender, receiver, data, divided_by_zero>>

Next ==
  \/ SendPacket \/ ReceiveAck
  \/ ReceiveUdp \/ NackTimerExpires
  \/ LoseData \/ LoseAck \/ OvertakeAck

Spec == Init /\ [][Next]_vars

(* The NIC serves every queue pair that even its least window lets send,   *)
(* the paths deliver what they do not lose, and time passes. *)
SendWhateverWindow == (\A w \in Windows : ~IsWinBound(w)) /\ SendPacket
Fairness ==
  /\ WF_vars(SendWhateverWindow) /\ WF_vars(ReceiveAck)
  /\ WF_vars(ReceiveUdp) /\ WF_vars(NackTimerExpires)

FairSpec == Spec /\ Fairness

-----------------------------------------------------------------------------
TypeOK ==
  /\ snd_nxt \in 0..m_size /\ snd_una \in 0..m_size /\ expected \in 0..m_size
  /\ completions \in Nat /\ m_lastNACK \in 0..m_size
  /\ nack_timer \in BOOLEAN /\ divided_by_zero \in BOOLEAN
  /\ data \in Seq([seq : 0..m_size, size : 1..m_mtu])
  /\ acks \in Seq([nack : BOOLEAN, seq : 0..m_size])

(* The sender never takes as acknowledged what the receiver does not hold, *)
(* although NACKs acknowledge too, and in go-back-to-chunk mode the         *)
(* receiver gives up what it held of a chunk (rdma-hw.cc:396-408, 461-463). *)
AckedIsReceived ==
  /\ snd_una <= expected
  /\ \A k \in DOMAIN acks : Acknowledged(acks[k].seq) <= expected

(* Completion is reported only for a flow the receiver has all of          *)
(* (rdma-hw.cc:403-405). *)
CompleteMeansReceived == completions > 0 => expected = m_size

(* What the sender takes as acknowledged, and as complete, the receiver    *)
(* holds, although it gives up parts of chunks and ACKs overtake each other *)
(* (rdma-hw.cc:396-408, 461-463). *)
SenderIsRight == AckedIsReceived /\ CompleteMeansReceived

(* The queue pair keeps the promise of RdmaDelivery, as long as the path   *)
(* of the ACKs keeps their order: completion is reported once, although     *)
(* every ACK that finds the flow finished reports it, what is acknowledged  *)
(* is received and stays so (rdma-hw.cc:380-409, 444-471). *)
Delivery == INSTANCE RdmaDelivery WITH received <- expected, acknowledged <- snd_una
KeepsDelivery == Delivery!Spec

(* "next seq to send, the highest unacked seq" (rdma-queue-pair.h:21): the *)
(* next byte to send is not one that is acknowledged. *)
NextNotBehindUnacked == snd_una <= snd_nxt

(* Without losses the flow completes and gets its line in the "output      *)
(* file: flow completion time of different flows" (config_doc.txt:10),      *)
(* although a window, chunks, packets and the ACK interval need not divide   *)
(* each other and ACKs overtake each other. *)
Completes == <>(completions > 0 \/ spent.data + spent.ack > 0)

(* A packet lost is repaired and the flow completes, without any timer at  *)
(* the sender, when the receiver gets to see the gap and nothing else is    *)
(* lost (rdma-hw.cc:456-466, 410-411). *)
GapSeen == data # <<>> /\ Head(data).seq > expected
MoreLost == spent.data > 1 \/ spent.ack > 0
GapsRepaired == GapSeen /\ ~MoreLost ~> (completions > 0 \/ MoreLost)

=============================================================================
