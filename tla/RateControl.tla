----------------------------- MODULE RateControl ----------------------------
(***************************************************************************)
(* When the congestion control of a queue pair acts.  RdmaTransport says   *)
(* which ACKs reach the sender; this module adds what ReceiveAck does with *)
(* them afterwards in each CcMode: HPCC, TIMELY, DCTCP and HPCC-PINT (with *)
(* DeltaINT) act on the ACKs, DCQCN on CNPs and timers.                    *)
(*                                                                         *)
(* HPCC, TIMELY and HPCC-PINT change their reference rate once per round   *)
(* trip, DCTCP its rate and its alpha: what was in flight at the last      *)
(* change says nothing about its effect.  The values of these rates are    *)
(* floating point and left out; those of DCQCN are kept.                   *)
(***************************************************************************)
EXTENDS RdmaTransport

CONSTANTS
  Modes,           \* the CcModes to be checked
  m_minRate, LineRate, m_rai, m_rhai,  \* rates of DCQCN, in a common unit
  m_rpgThreshold,  \* FastRecoveryTimes
  m_EcnClampTgtRate

DCQCN == 1
HPCC == 3
TIMELY == 7
DCTCP == 8
HPCC_PINT == 10

(* The minimum rate is even, as 100Mb/s is: halves are rounded down. *)
ASSUME RateModes ==
  /\ Modes \subseteq {DCQCN, HPCC, TIMELY, DCTCP, HPCC_PINT}
  /\ m_EcnClampTgtRate \in BOOLEAN
ASSUME RateNumbers ==
  /\ m_minRate \in Nat /\ m_minRate % 2 = 0 /\ LineRate \in Nat /\ LineRate >= m_minRate
  /\ {m_rai, m_rhai, m_rpgThreshold} \subseteq Nat

VARIABLES
  m_cc_mode, m_fast_react,  \* CcMode and FastReact, chosen at the start
  m_lastUpdateSeq,    \* of hp, tmly, dctcp or hpccPint
  dctcp,              \* m_caState, m_highSeq, m_batchSizeOfAlpha
  mlx,                \* DCQCN: m_rate, m_targetRate, the flags, m_rpTimeStage
  timers,             \* DCQCN: which of its three events are scheduled
  reaction,           \* history: what the step changed
  stale_data, stale_acks,  \* history: the changes since each packet was sent
  nacked, nacked_again,    \* history: what was asked for again, and twice
  late_cnp            \* history: the first CNP came when the flow was complete

config == <<m_cc_mode, m_fast_react>>
control == <<m_lastUpdateSeq, dctcp, mlx, timers>>
history == <<reaction, stale_data, stale_acks, nacked, nacked_again, late_cnp>>
rate_vars == <<vars, config, control, history>>

Greater(a, b) == IF a > b THEN a ELSE b

RateInit ==
  /\ Init
  /\ m_cc_mode \in Modes /\ m_fast_react \in BOOLEAN
  /\ m_lastUpdateSeq = 0
  /\ dctcp = [m_caState |-> 0, m_highSeq |-> 0, m_batchSizeOfAlpha |-> 0]
  /\ mlx = [m_rate |-> LineRate, m_targetRate |-> LineRate, m_first_cnp |-> TRUE,
            m_decrease_cnp_arrived |-> FALSE, m_rpTimeStage |-> 0]
  /\ timers = {}
  /\ reaction = {} /\ stale_data = <<>> /\ stale_acks = <<>>
  /\ nacked = {} /\ nacked_again = FALSE /\ late_cnp = FALSE

-----------------------------------------------------------------------------
(* HPCC, TIMELY and HPCC-PINT.  snd_nxt' is the sender's after a NACK took *)
(* it back.                                                                *)

(* Mutant: the round trip ends with what was acknowledged. *)
Mut_FullUpdate(seq) ==
  /\ seq > m_lastUpdateSeq
  /\ m_lastUpdateSeq' = seq
  /\ reaction' = {"update"}

(* UpdateRate with fast_react = false.  The first only starts a round trip. *)
FullUpdate(seq) ==
  /\ seq > m_lastUpdateSeq
  /\ m_lastUpdateSeq' = IF m_lastUpdateSeq = 0 THEN snd_nxt'
                        ELSE Greater(m_lastUpdateSeq, snd_nxt')
  /\ reaction' = {"update"}

(* UpdateRate with fast_react = true: a rate for now, from the reference. *)
FastReact(seq) ==
  /\ seq <= m_lastUpdateSeq
  /\ m_lastUpdateSeq' = IF m_lastUpdateSeq = 0 THEN snd_nxt' ELSE m_lastUpdateSeq
  /\ reaction' = IF m_lastUpdateSeq = 0 THEN {} ELSE {"fast"}

NoReaction == reaction' = {} /\ UNCHANGED m_lastUpdateSeq

HandleAckHp(seq) ==
  FullUpdate(seq) \/ IF m_fast_react THEN FastReact(seq)
                     ELSE seq <= m_lastUpdateSeq /\ NoReaction

HandleAckTimely(seq) ==
  FullUpdate(seq) \/ (seq <= m_lastUpdateSeq /\ NoReaction)

(* The ACK may not be sampled, and the last switch may have saved the power. *)
HandleAckHpPint(seq) == FullUpdate(seq) \/ FastReact(seq) \/ NoReaction
-----------------------------------------------------------------------------
(* DCTCP: at the end of a round trip a new batch for alpha; after a cut of *)
(* the rate, for a marked ACK, no other until m_highSeq is acknowledged.   *)

HandleAckDctcp(seq, cnp) ==
  LET new_batch == seq > m_lastUpdateSeq
      in_cwr == dctcp.m_caState = 1 /\ seq <= dctcp.m_highSeq
      cut == cnp /\ ~in_cwr
      since == IF m_lastUpdateSeq = 0 THEN snd_nxt' ELSE (Modulus + snd_nxt' - seq) % Modulus
  IN  /\ m_lastUpdateSeq' = IF new_batch THEN snd_nxt' ELSE m_lastUpdateSeq
      /\ dctcp' = [m_caState |-> IF in_cwr \/ cut THEN 1 ELSE 0,
                   m_highSeq |-> IF cut THEN snd_nxt' ELSE dctcp.m_highSeq,
                   m_batchSizeOfAlpha |-> IF new_batch THEN since \div m_mtu + 1
                                          ELSE dctcp.m_batchSizeOfAlpha]
      /\ reaction' = {e \in {"update", "cut"} : IF e = "update" THEN new_batch ELSE cut}

-----------------------------------------------------------------------------
(* DCQCN.  UpdateAlphaMlx only changes alpha, on which the size of a       *)
(* decrease depends, and schedules itself again, as do the other two.      *)

(* QpComplete, called by the ACK in the step. *)
CompletesFlow == completions' > completions

(* Mutant: the timer of rate increases is not cancelled. *)
Mut_AfterQpComplete == IF CompletesFlow THEN timers \cap {"rp"} ELSE timers
AfterQpComplete == IF CompletesFlow THEN {} ELSE timers

(* cnp_received_mlx, which comes after QpComplete.  RateOnFirstCnp is 1. *)
CnpReceivedMlx(cnp) ==
  /\ timers' = IF cnp /\ mlx.m_first_cnp THEN AfterQpComplete \cup {"alpha", "decrease"}
               ELSE AfterQpComplete
  /\ mlx' = IF ~cnp THEN mlx
            ELSE [mlx EXCEPT !.m_first_cnp = FALSE, !.m_decrease_cnp_arrived = TRUE,
                             !.m_targetRate = IF mlx.m_first_cnp THEN mlx.m_rate ELSE @]

(* The rate after a decrease, for any alpha from 0 to 1. *)
Decreased == Greater(m_minRate, mlx.m_rate \div 2)..Greater(m_minRate, mlx.m_rate)

CheckRateDecreaseMlx ==
  /\ "decrease" \in timers /\ mlx.m_decrease_cnp_arrived
  /\ \E rate \in Decreased :
       mlx' = [mlx EXCEPT
         !.m_targetRate = IF m_EcnClampTgtRate \/ mlx.m_rpTimeStage # 0 THEN mlx.m_rate ELSE @,
         !.m_rate = rate, !.m_rpTimeStage = 0, !.m_decrease_cnp_arrived = FALSE]
  /\ timers' = timers \cup {"rp"}
  /\ reaction' = {}
  /\ UNCHANGED <<vars, config, m_lastUpdateSeq, dctcp, stale_data, stale_acks, nacked,
                 nacked_again, late_cnp>>

(* The target after fast recovery, active and hyper increase. *)
RaisedTarget ==
  CASE mlx.m_rpTimeStage < m_rpgThreshold -> mlx.m_targetRate
    [] mlx.m_rpTimeStage = m_rpgThreshold -> Lesser(mlx.m_targetRate + m_rai, LineRate)
    [] OTHER -> Lesser(mlx.m_targetRate + m_rhai, LineRate)

(* RateIncEventTimerMlx; stages past hyper increase are one. *)
RateIncEventTimerMlx ==
  /\ "rp" \in timers
  /\ mlx' = [mlx EXCEPT !.m_targetRate = RaisedTarget,
                        !.m_rate = @ \div 2 + RaisedTarget \div 2,
                        !.m_rpTimeStage = Lesser(@ + 1, m_rpgThreshold + 1)]
  /\ reaction' = {}
  /\ UNCHANGED <<vars, config, m_lastUpdateSeq, dctcp, timers, stale_data, stale_acks,
                 nacked, nacked_again, late_cnp>>

-----------------------------------------------------------------------------
(* The steps of the transport.                                             *)

Outdated(tags, changes) == [k \in DOMAIN tags |-> tags[k] \cup changes]

(* ReceiveAck to its end; the ACK may carry a CNP. *)
ReceiveAckAndControl ==
  /\ ReceiveAck
  /\ \E cnp \in BOOLEAN :
       /\ \/ m_cc_mode = HPCC /\ HandleAckHp(Head(acks).seq)
          \/ m_cc_mode = TIMELY /\ HandleAckTimely(Head(acks).seq)
          \/ m_cc_mode = DCTCP /\ HandleAckDctcp(Head(acks).seq, cnp)
          \/ m_cc_mode = HPCC_PINT /\ HandleAckHpPint(Head(acks).seq)
          \/ m_cc_mode = DCQCN /\ NoReaction
       /\ m_cc_mode # DCTCP => UNCHANGED dctcp
       /\ IF m_cc_mode = DCQCN
          THEN CnpReceivedMlx(cnp)
          ELSE UNCHANGED <<mlx, timers>>
       /\ late_cnp' = (late_cnp \/ (cnp /\ mlx.m_first_cnp /\ completions' > 0))
  /\ stale_data' = Outdated(stale_data, reaction' \ {"fast"})
  /\ stale_acks' = Outdated(Tail(stale_acks), reaction' \ {"fast"})
  /\ UNCHANGED <<config, nacked, nacked_again>>

Send ==
  /\ SendPacket
  /\ stale_data' = Append(stale_data, {})
  /\ reaction' = {}
  /\ UNCHANGED <<config, control, stale_acks, nacked, nacked_again, late_cnp>>

(* A reply is as old as the packet it answers. *)
Receive ==
  /\ ReceiveUdp
  /\ stale_data' = Tail(stale_data)
  /\ IF Len(acks') > Len(acks)
     THEN LET reply == Last(acks')
          IN  /\ stale_acks' = Append(stale_acks, Head(stale_data))
              /\ nacked' = IF reply.nack THEN nacked \cup {reply.seq} ELSE nacked
              /\ nacked_again' = (nacked_again \/ (reply.nack /\ reply.seq \in nacked))
     ELSE UNCHANGED <<stale_acks, nacked, nacked_again>>
  /\ reaction' = {}
  /\ UNCHANGED <<config, control, late_cnp>>

TimerOfReceiver ==
  /\ NackTimerExpires
  /\ reaction' = {}
  /\ UNCHANGED <<config, control, stale_data, stale_acks, nacked, nacked_again, late_cnp>>

Lose ==
  /\ \/ LoseData /\ \E k \in DOMAIN data : data' = RemoveAt(data, k) /\ stale_data' = RemoveAt(stale_data, k)
                 /\ UNCHANGED stale_acks
     \/ LoseAck /\ \E k \in DOMAIN acks : acks' = RemoveAt(acks, k) /\ stale_acks' = RemoveAt(stale_acks, k)
                /\ UNCHANGED stale_data
  /\ reaction' = {}
  /\ UNCHANGED <<config, control, nacked, nacked_again, late_cnp>>

RateNext ==
  \/ Send \/ ReceiveAckAndControl \/ Receive \/ TimerOfReceiver \/ Lose
  \/ CheckRateDecreaseMlx \/ RateIncEventTimerMlx

RateSpec == RateInit /\ [][RateNext]_rate_vars

(* As in RdmaTransport; nothing is assumed of the timers of DCQCN. *)
RateFairSpec ==
  /\ RateSpec
  /\ WF_rate_vars(SendWhateverWindow /\ Send) /\ WF_rate_vars(ReceiveAckAndControl)
  /\ WF_rate_vars(Receive) /\ WF_rate_vars(TimerOfReceiver)

-----------------------------------------------------------------------------
(* The variables have their types.  The rate of DCQCN stays between the    *)
(* least rate and its target, and the target below the rate of the line,   *)
(* whatever cuts and increases come in whatever order (rdma-hw.cc:644-724); *)
(* a batch of DCTCP is no larger than the flow unless the receiver asked   *)
(* twice for a packet (rdma-hw.cc:1003).                                   *)
RateTypeOK ==
  /\ TypeOK
  /\ m_cc_mode \in Modes /\ m_lastUpdateSeq \in 0..m_size
  /\ dctcp.m_caState \in {0, 1} /\ dctcp.m_highSeq \in 0..m_size
  /\ nacked_again \/ dctcp.m_batchSizeOfAlpha \in 0..(m_size \div m_mtu + 1)
  /\ m_minRate <= mlx.m_rate /\ mlx.m_rate <= mlx.m_targetRate /\ mlx.m_targetRate <= LineRate
  /\ mlx.m_rpTimeStage \in 0..(m_rpgThreshold + 1)
  /\ timers \subseteq {"alpha", "decrease", "rp"}
  /\ Len(stale_data) = Len(data) /\ Len(stale_acks) = Len(acks)

(* "if full RTT feedback is ready, do full update" (rdma-hw.cc:733, 912,   *)
(* 991, 1060): the ACK that changes the reference rate, alpha or (DCTCP)   *)
(* cuts the rate answers a packet sent after the change before it, though  *)
(* NACKs take snd_nxt back and packets are lost -- as long as the receiver *)
(* does not ask twice for the same packet. *)
FeedbackIsFresh == reaction' \ {"fast"} # {} => Head(stale_acks) \cap reaction' = {}
OneChangePerRoundTrip == [][~nacked_again => FeedbackIsFresh]_rate_vars

(* The same without the reservation, which is what the comments say. *)
AlwaysFresh == [][FeedbackIsFresh]_rate_vars

(* "FAST_REACT 1 {0: react once per RTT, 1: react per ACK}"                 *)
(* (config_doc.txt:35). *)
FastReactObeyed == [][~m_fast_react => "fast" \notin reaction']_rate_vars

(* No timer of DCQCN runs for a complete flow (rdma-hw.cc:490-497), unless  *)
(* its first CNP came with the ACK that completed it or later, as the CNP  *)
(* is looked at after the completion. *)
TimersEndWithFlow == completions > 0 /\ ~late_cnp => timers = {}
TimersNeverOutlive == completions > 0 => timers = {}

=============================================================================
