--------------------------- MODULE RdmaHw_proofs ----------------------------
(***************************************************************************)
(* The three parts of the RDMA host.  What RdmaTransport keeps for every    *)
(* flow size, MTU, chunk, window, ACK interval and number of losses; on its *)
(* invariant what RateControl keeps for every mode and all rates; and what  *)
(* NicEgress keeps for any number of flows, all rates, windows, priority    *)
(* groups and times of transmission.                                       *)
(***************************************************************************)
EXTENDS RateControl, NicEgress, NatSums_proofs, FiniteSetTheorems, SequenceTheorems, TLAPS


-----------------------------------------------------------------------------
(* Chunks.                                                                 *)

LEMMA DivBounds ==
  ASSUME NEW c \in Nat, c > 0, NEW n \in Nat
  PROVE  /\ n \div c \in Nat /\ (n \div c) * c \in Nat
         /\ (n \div c) * c <= n /\ n < ((n \div c) + 1) * c
  OBVIOUS

(* The chunk that holds n starts at or before the one that holds m, if n   *)
(* comes at or before m. *)
LEMMA ChunkMonotone ==
  ASSUME NEW c \in Nat, c > 0, NEW n \in Nat, NEW m \in Nat, (n \div c) * c <= m
  PROVE  (n \div c) * c <= (m \div c) * c
  OBVIOUS

LEMMA ChunkIdempotent ==
  ASSUME NEW c \in Nat, c > 0, NEW n \in Nat
  PROVE  (((n \div c) * c) \div c) * c = (n \div c) * c
  OBVIOUS

LEMMA AcknowledgedProperties ==
  ASSUME NEW n \in Nat
  PROVE  /\ Acknowledged(n) \in Nat /\ Acknowledged(n) <= n
         /\ Acknowledged(Acknowledged(n)) = Acknowledged(n)
         /\ \A m \in Nat : Acknowledged(n) <= m => Acknowledged(n) <= Acknowledged(m)
<1>1. CASE ~m_backto0
  BY <1>1 DEF Acknowledged
<1>2. CASE m_backto0
  <2>1. m_chunk \in Nat /\ m_chunk > 0
    BY <1>2, TransportSizes
  <2>2. \A k \in Nat : Acknowledged(k) = (k \div m_chunk) * m_chunk
    BY <1>2 DEF Acknowledged, StartOfChunk
  <2>3. Acknowledged(n) \in Nat /\ Acknowledged(n) <= n
    BY <2>1, <2>2, DivBounds
  <2>4. Acknowledged(Acknowledged(n)) = Acknowledged(n)
    BY <2>1, <2>2, <2>3, ChunkIdempotent
  <2>5. ASSUME NEW m \in Nat, Acknowledged(n) <= m
        PROVE  Acknowledged(n) <= Acknowledged(m)
    BY <2>1, <2>2, <2>5, ChunkMonotone
  <2> QED BY <2>3, <2>4, <2>5
<1> QED BY <1>1, <1>2

-----------------------------------------------------------------------------
(* The paths.                                                              *)

LEMMA RemoveAtProperties ==
  ASSUME NEW S, NEW s \in Seq(S), NEW k \in DOMAIN s
  PROVE  /\ RemoveAt(s, k) \in Seq(S)
         /\ Len(RemoveAt(s, k)) = Len(s) - 1
         /\ \A i \in 1..(Len(s) - 1) :
              RemoveAt(s, k)[i] = IF i < k THEN s[i] ELSE s[i + 1]
<1>1. k \in 1..Len(s) /\ Len(s) \in Nat
  BY LenProperties
<1>2. /\ SubSeq(s, 1, k - 1) \in Seq(S) /\ Len(SubSeq(s, 1, k - 1)) = k - 1
      /\ \A i \in 1..(k - 1) : SubSeq(s, 1, k - 1)[i] = s[i]
  BY <1>1
<1>3. /\ SubSeq(s, k + 1, Len(s)) \in Seq(S) /\ Len(SubSeq(s, k + 1, Len(s))) = Len(s) - k
      /\ \A i \in 1..(Len(s) - k) : SubSeq(s, k + 1, Len(s))[i] = s[i + k]
  <2>1. \A i \in (k + 1)..Len(s) : s[i] \in S
    BY <1>1, ElementOfSeq
  <2>2. k + 1 \in Int /\ Len(s) \in Int
    BY <1>1
  <2>3. /\ SubSeq(s, k + 1, Len(s)) \in Seq(S)
        /\ Len(SubSeq(s, k + 1, Len(s))) = IF k + 1 <= Len(s) THEN Len(s) - (k + 1) + 1 ELSE 0
        /\ \A i \in 1..(Len(s) - (k + 1) + 1) :
             SubSeq(s, k + 1, Len(s))[i] = s[(k + 1) + i - 1]
    BY <2>1, <2>2, SubSeqProperties
  <2> QED BY <1>1, <2>3, SMTT(40)
<1> DEFINE front == SubSeq(s, 1, k - 1)
           back == SubSeq(s, k + 1, Len(s))
<1>4. /\ front \o back \in Seq(S)
      /\ Len(front \o back) = Len(front) + Len(back)
      /\ \A i \in 1..(Len(front) + Len(back)) :
           (front \o back)[i] = IF i <= Len(front) THEN front[i] ELSE back[i - Len(front)]
  BY <1>2, <1>3, ConcatProperties
<1>5. RemoveAt(s, k) = front \o back
  BY DEF RemoveAt
<1>6. Len(front) = k - 1 /\ Len(back) = Len(s) - k /\ Len(front) + Len(back) = Len(s) - 1
  <2>1. Len(front) = k - 1
    BY <1>2
  <2>2. Len(back) = Len(s) - k
    BY <1>3
  <2> HIDE DEF front, back
  <2> QED BY <1>1, <2>1, <2>2
<1>7. ASSUME NEW i \in 1..(Len(s) - 1)
      PROVE  (front \o back)[i] = IF i < k THEN s[i] ELSE s[i + 1]
  <2> HIDE DEF front, back
  <2>1. (front \o back)[i] = IF i <= k - 1 THEN front[i] ELSE back[i - (k - 1)]
    BY <1>4, <1>6
  <2>2. CASE i < k
    <3>1. i \in 1..(k - 1) /\ i <= k - 1
      BY <1>1, <2>2
    <3>2. front[i] = s[i]
      BY <1>2, <3>1 DEF front
    <3> QED BY <2>1, <2>2, <3>1, <3>2
  <2>3. CASE ~(i < k)
    <3>1. i - (k - 1) \in 1..(Len(s) - k) /\ ~(i <= k - 1) /\ (i - (k - 1)) + k = i + 1
      BY <1>1, <2>3
    <3>2. back[i - (k - 1)] = s[(i - (k - 1)) + k]
      BY <1>3, <3>1 DEF back
    <3> QED BY <2>1, <2>3, <3>1, <3>2
  <2> QED BY <2>2, <2>3
<1> HIDE DEF front, back
<1> QED BY <1>4, <1>5, <1>6, <1>7

-----------------------------------------------------------------------------
(* The inductive invariant.                                                *)

(* What is on its way lies within the flow. *)
DataInside == \A k \in DOMAIN data : data[k].seq + data[k].size <= m_size

(* The sender has acknowledged whole chunks in go-back-to-chunk mode, and  *)
(* reports completion only when all is acknowledged. *)
WholeChunks == Acknowledged(snd_una) = snd_una
CompleteMeansAcked == completions > 0 => snd_una = m_size

SpentOK == spent \in [data : Nat, ack : Nat, overtake : Nat]

IInv == TypeOK /\ SpentOK /\ DataInside /\ AckedIsReceived /\ WholeChunks /\ CompleteMeansAcked

(* Without overtaking, the ACK for the end of the flow is the last of all. *)
FinalAckIsLast ==
  /\ \A k \in DOMAIN acks : acks[k].seq = m_size => expected = m_size /\ k = Len(acks)
  /\ snd_una = m_size => acks = <<>>

(* Steps that only shorten a path keep what is said of its packets. *)
LEMMA TailProperties ==
  ASSUME NEW S, NEW s \in Seq(S), s # <<>>
  PROVE  /\ Head(s) \in S /\ Head(s) = s[1] /\ 1 \in DOMAIN s
         /\ Tail(s) \in Seq(S)
         /\ \A k \in DOMAIN Tail(s) : k + 1 \in DOMAIN s /\ Tail(s)[k] = s[k + 1]
         /\ Len(Tail(s)) = Len(s) - 1
  OBVIOUS

LEMMA AppendedProperties ==
  ASSUME NEW S, NEW s \in Seq(S), NEW e \in S
  PROVE  /\ Append(s, e) \in Seq(S)
         /\ Len(Append(s, e)) = Len(s) + 1
         /\ \A k \in DOMAIN Append(s, e) :
              \/ k \in DOMAIN s /\ Append(s, e)[k] = s[k]
              \/ k = Len(s) + 1 /\ Append(s, e)[k] = e
  OBVIOUS

THEOREM InitIInv == Init => IInv
<1> SUFFICES ASSUME Init PROVE IInv
  OBVIOUS
<1> USE TransportSizes DEF Init
<1>1. TypeOK /\ SpentOK
  <2>1. <<>> \in Seq([seq : 0..m_size, size : 1..m_mtu]) /\ <<>> \in Seq([nack : BOOLEAN, seq : 0..m_size])
    BY EmptySeq
  <2>2. 0 \in 0..m_size
    OBVIOUS
  <2>3. TypeOK
    BY <2>1, <2>2 DEF TypeOK
  <2>4. SpentOK
    BY DEF SpentOK
  <2> QED BY <2>3, <2>4
<1>2. DataInside /\ CompleteMeansAcked
  BY DEF DataInside, CompleteMeansAcked
<1>3. AckedIsReceived
  BY DEF AckedIsReceived
<1>4. WholeChunks
  <2>1. Acknowledged(0) \in Nat /\ Acknowledged(0) <= 0
    BY AcknowledgedProperties
  <2> QED BY <2>1 DEF WholeChunks
<1> QED BY <1>1, <1>2, <1>3, <1>4 DEF IInv

-----------------------------------------------------------------------------
(* Each action preserves the invariant.                                    *)

DataPacket == [seq : 0..m_size, size : 1..m_mtu]
AckPacket == [nack : BOOLEAN, seq : 0..m_size]

(* The typing facts the steps below need. *)
LEMMA Typed ==
  ASSUME IInv
  PROVE  /\ m_size \in Nat /\ m_mtu \in Nat
         /\ snd_nxt \in Nat /\ snd_una \in Nat /\ expected \in Nat /\ completions \in Nat
         /\ snd_nxt <= m_size /\ snd_una <= m_size /\ expected <= m_size
         /\ data \in Seq(DataPacket) /\ acks \in Seq(AckPacket)
         /\ \A k \in DOMAIN data : /\ data[k] \in DataPacket
                                   /\ data[k].seq \in Nat /\ data[k].size \in Nat
                                   /\ data[k].size > 0
                                   /\ data[k].seq + data[k].size <= m_size
         /\ \A k \in DOMAIN acks : /\ acks[k].seq \in Nat /\ acks[k].seq <= m_size
                                   /\ acks[k].nack \in BOOLEAN
                                   /\ Acknowledged(acks[k].seq) \in Nat
                                   /\ Acknowledged(acks[k].seq) <= expected
<1> USE TransportSizes
<1>1. /\ m_size \in Nat /\ m_mtu \in Nat
      /\ snd_nxt \in Nat /\ snd_una \in Nat /\ expected \in Nat /\ completions \in Nat
      /\ snd_nxt <= m_size /\ snd_una <= m_size /\ expected <= m_size
      /\ data \in Seq(DataPacket) /\ acks \in Seq(AckPacket)
  BY DEF IInv, TypeOK, DataPacket, AckPacket
<1>2. ASSUME NEW k \in DOMAIN data
      PROVE  /\ data[k] \in DataPacket
             /\ data[k].seq \in Nat /\ data[k].size \in Nat /\ data[k].size > 0
             /\ data[k].seq + data[k].size <= m_size
  <2>1. data[k] \in DataPacket
    BY <1>1, <1>2
  <2>2. data[k].seq + data[k].size <= m_size
    BY <1>2 DEF IInv, DataInside
  <2> QED BY <1>1, <2>1, <2>2 DEF DataPacket
<1>3. ASSUME NEW k \in DOMAIN acks
      PROVE  /\ acks[k].seq \in Nat /\ acks[k].seq <= m_size /\ acks[k].nack \in BOOLEAN
             /\ Acknowledged(acks[k].seq) \in Nat
             /\ Acknowledged(acks[k].seq) <= expected
  <2>1. acks[k] \in AckPacket
    BY <1>1, <1>3
  <2>2. acks[k].seq \in Nat /\ acks[k].seq <= m_size /\ acks[k].nack \in BOOLEAN
    BY <1>1, <2>1 DEF AckPacket
  <2>3. Acknowledged(acks[k].seq) \in Nat
    BY <2>2, AcknowledgedProperties
  <2>4. Acknowledged(acks[k].seq) <= expected
    BY <1>3 DEF IInv, AckedIsReceived
  <2> QED BY <2>2, <2>3, <2>4
<1> QED BY <1>1, <1>2, <1>3

LEMMA SendPacketStep == IInv /\ SendPacket => IInv'
<1> SUFFICES ASSUME IInv, SendPacket PROVE IInv'
  OBVIOUS
<1> USE TransportSizes
<1> DEFINE size == Lesser(GetBytesLeft, m_mtu)
           p == [seq |-> snd_nxt, size |-> size]
<1>1. snd_nxt \in Nat /\ m_size \in Nat /\ m_mtu \in Nat /\ m_mtu > 0 /\ data \in Seq(DataPacket)
  BY Typed
<1>2. size \in 1..m_mtu /\ snd_nxt + size <= m_size
  <2>1. GetBytesLeft > 0 /\ GetBytesLeft = m_size - snd_nxt /\ snd_nxt < m_size
    BY <1>1 DEF SendPacket, GetBytesLeft
  <2> QED BY <1>1, <2>1 DEF Lesser
<1>3. data' = Append(data, p) /\ snd_nxt' = snd_nxt + size
  BY DEF SendPacket
<1> HIDE DEF size
<1>4. p \in DataPacket /\ p.seq + p.size <= m_size
  BY <1>1, <1>2 DEF DataPacket
<1>5. data' \in Seq(DataPacket) /\ DataInside'
  BY <1>1, <1>3, <1>4, AppendedProperties, Typed DEF DataInside
<1>6. TypeOK'
  BY <1>1, <1>2, <1>3, <1>5 DEF IInv, TypeOK, SendPacket, receiver, DataPacket
<1> QED
  BY <1>5, <1>6
  DEF IInv, SendPacket, receiver, SpentOK, AckedIsReceived, WholeChunks, CompleteMeansAcked

LEMMA ReceiveAckStep == IInv /\ ReceiveAck => IInv'
<1> SUFFICES ASSUME IInv, ReceiveAck PROVE IInv'
  OBVIOUS
<1> USE TransportSizes
<1> DEFINE a == Head(acks)
           una == IF m_ack_interval > 0 /\ Acknowledged(a.seq) > snd_una
                  THEN Acknowledged(a.seq) ELSE snd_una
<1>1. /\ acks # <<>> /\ acks' = Tail(acks) /\ snd_una' = una
      /\ completions' = IF m_ack_interval > 0 /\ una >= m_size
                        THEN completions + 1 ELSE completions
      /\ snd_nxt' = IF a.nack THEN una ELSE snd_nxt
      /\ UNCHANGED <<receiver, data, divided_by_zero, spent>>
  BY DEF ReceiveAck
<1>2. acks \in Seq(AckPacket)
  BY Typed
<1>3. /\ a = acks[1] /\ 1 \in DOMAIN acks /\ acks' \in Seq(AckPacket)
      /\ \A k \in DOMAIN acks' : k + 1 \in DOMAIN acks /\ acks'[k] = acks[k + 1]
  BY <1>1, <1>2, TailProperties
<1>4. /\ a.seq \in Nat /\ Acknowledged(a.seq) \in Nat /\ Acknowledged(a.seq) <= expected
      /\ a.nack \in BOOLEAN
  BY <1>3, Typed
<1>5. una \in Nat /\ snd_una <= una /\ una <= expected /\ una <= m_size /\ snd_nxt' \in Nat /\ snd_nxt' <= m_size
  <2>1. snd_una <= expected
    BY DEF IInv, AckedIsReceived
  <2> QED BY <1>1, <1>4, <2>1, Typed, SMTT(40)
<1>6. Acknowledged(una) = una
  <2>1. Acknowledged(Acknowledged(a.seq)) = Acknowledged(a.seq)
    BY <1>4, AcknowledgedProperties
  <2>2. Acknowledged(snd_una) = snd_una
    BY DEF IInv, WholeChunks
  <2> QED BY <2>1, <2>2
<1> HIDE DEF a, una
<1>7. TypeOK' /\ SpentOK' /\ DataInside'
  BY <1>1, <1>3, <1>5, Typed DEF IInv, TypeOK, SpentOK, DataInside, receiver, AckPacket
<1>8. AckedIsReceived'
  <2>1. \A k \in DOMAIN acks' : Acknowledged(acks'[k].seq) <= expected
    BY <1>3, Typed
  <2> QED BY <1>1, <1>5, <2>1 DEF AckedIsReceived, receiver, Acknowledged, StartOfChunk
<1>9. WholeChunks'
  BY <1>1, <1>6 DEF WholeChunks, Acknowledged, StartOfChunk
<1>10. CompleteMeansAcked'
  BY <1>1, <1>5, Typed DEF IInv, CompleteMeansAcked
<1> QED BY <1>7, <1>8, <1>9, <1>10 DEF IInv

(* The receiver answers with a number that acknowledges no more than it    *)
(* holds, also when it has just given up part of a chunk: what it gives up *)
(* no ACK on its way acknowledges.                                         *)
LEMMA ReceiveUdpStep == IInv /\ ReceiveUdp => IInv'
<1> SUFFICES ASSUME IInv, ReceiveUdp PROVE IInv'
  OBVIOUS
<1> USE TransportSizes
<1> DEFINE p == Head(data)
<1>1. data # <<>> /\ data' = Tail(data) /\ UNCHANGED <<sender, spent>>
  BY DEF ReceiveUdp
<1>2. data \in Seq(DataPacket) /\ acks \in Seq(AckPacket)
  BY Typed
<1>3. /\ p = data[1] /\ 1 \in DOMAIN data /\ data' \in Seq(DataPacket)
      /\ \A k \in DOMAIN data' : k + 1 \in DOMAIN data /\ data'[k] = data[k + 1]
  BY <1>1, <1>2, TailProperties
<1>4. p.seq \in Nat /\ p.size \in Nat /\ p.size > 0 /\ p.seq + p.size <= m_size
  BY <1>3, Typed
<1>5. DataInside'
  <2>1. \A k \in DOMAIN data' : data'[k].seq + data'[k].size <= m_size
    BY <1>3, Typed
  <2> QED BY <2>1 DEF DataInside
<1>6. SpentOK' /\ WholeChunks' /\ CompleteMeansAcked'
  BY <1>1 DEF IInv, sender, SpentOK, WholeChunks, CompleteMeansAcked, Acknowledged, StartOfChunk
<1>7. snd_una <= expected /\ Acknowledged(snd_una) = snd_una
  BY DEF IInv, AckedIsReceived, WholeChunks
<1> HIDE DEF p
<1> SUFFICES TypeOK' /\ AckedIsReceived'
  BY <1>5, <1>6 DEF IInv
<1>8. ASSUME expected' \in 0..m_size, m_lastNACK' \in 0..m_size,
             nack_timer' \in BOOLEAN, divided_by_zero' \in BOOLEAN,
             snd_una <= expected',
             \A k \in DOMAIN acks : Acknowledged(acks[k].seq) <= expected',
             \/ acks' = acks
             \/ \E nack \in BOOLEAN : acks' = Append(acks, Reply(nack, expected'))
      PROVE  TypeOK' /\ AckedIsReceived'
  <2>1. Acknowledged(expected') <= expected'
    BY <1>8, AcknowledgedProperties
  <2>2. \A nack \in BOOLEAN : Reply(nack, expected') \in AckPacket /\ Reply(nack, expected').seq = expected'
    BY <1>8 DEF Reply, AckPacket
  <2>3. acks' \in Seq(AckPacket) /\ \A k \in DOMAIN acks' : Acknowledged(acks'[k].seq) <= expected'
    <3>1. CASE acks' = acks
      BY <3>1, <1>2, <1>8
    <3>2. ASSUME NEW nack \in BOOLEAN, acks' = Append(acks, Reply(nack, expected'))
          PROVE  acks' \in Seq(AckPacket) /\ \A k \in DOMAIN acks' : Acknowledged(acks'[k].seq) <= expected'
      <4>1. acks' \in Seq(AckPacket)
        BY <1>2, <2>2, <3>2, AppendedProperties
      <4>2. \A k \in DOMAIN acks' : \/ k \in DOMAIN acks /\ acks'[k] = acks[k]
                                    \/ acks'[k] = Reply(nack, expected')
        BY <1>2, <2>2, <3>2, AppendedProperties
      <4> QED BY <4>1, <4>2, <1>8, <2>1, <2>2
    <3> QED BY <3>1, <3>2, <1>8
  <2>4. AckedIsReceived'
    BY <1>1, <1>8, <2>3 DEF AckedIsReceived, sender, Acknowledged, StartOfChunk
  <2>5. TypeOK'
    BY <1>1, <1>3, <1>8, <2>3 DEF IInv, TypeOK, sender, DataPacket, AckPacket
  <2> QED BY <2>4, <2>5
<1>9. CASE AcceptInOrder(p)
  <2> DEFINE next == p.seq + p.size
  <2>1. /\ p.seq = expected /\ expected' = next
        /\ divided_by_zero' \in BOOLEAN
        /\ acks' = acks \/ acks' = Append(acks, Reply(FALSE, next))
        /\ UNCHANGED <<m_lastNACK, nack_timer>>
    BY <1>9 DEF AcceptInOrder
  <2>2. expected' \in 0..m_size /\ expected <= expected'
    BY <1>4, <2>1, Typed, SMTT(40)
  <2>3. \A k \in DOMAIN acks : Acknowledged(acks[k].seq) <= expected'
    BY <2>2, Typed, SMTT(40)
  <2>4. m_lastNACK' \in 0..m_size /\ nack_timer' \in BOOLEAN
    BY <2>1 DEF IInv, TypeOK
  <2>5. snd_una <= expected'
    BY <1>7, <2>2, Typed
  <2>6. acks' = acks \/ \E nack \in BOOLEAN : acks' = Append(acks, Reply(nack, expected'))
    BY <2>1
  <2> HIDE DEF next
  <2> QED BY <1>8, <2>1, <2>2, <2>3, <2>4, <2>5, <2>6
<1>10. CASE RejectGap(p)
  <2>1. CASE UNCHANGED <<receiver, acks>>
    BY <1>8, <1>10, <2>1, Typed DEF RejectGap, IInv, TypeOK, AckedIsReceived, receiver
  <2>2. CASE ~UNCHANGED <<receiver, acks>>
    <3>1. /\ nack_timer' = TRUE /\ m_lastNACK' = expected /\ divided_by_zero' = divided_by_zero
          /\ expected' = Acknowledged(expected) /\ acks' = Append(acks, Reply(TRUE, expected'))
      BY <1>10, <2>2 DEF RejectGap, Acknowledged
    <3>2. /\ expected' \in Nat /\ expected' <= expected
          /\ \A n \in Nat : Acknowledged(n) <= expected => Acknowledged(n) <= expected'
      BY <3>1, AcknowledgedProperties, Typed
    <3>3. snd_una <= expected' /\ \A k \in DOMAIN acks : Acknowledged(acks[k].seq) <= expected'
      BY <1>7, <3>2, Typed
    <3>4. expected' \in 0..m_size /\ m_lastNACK' \in 0..m_size /\ nack_timer' \in BOOLEAN
      BY <3>1, <3>2, Typed
    <3>5. divided_by_zero' \in BOOLEAN
      BY <3>1 DEF IInv, TypeOK
    <3>6. \E nack \in BOOLEAN : acks' = Append(acks, Reply(nack, expected'))
      BY <3>1
    <3> QED BY <1>8, <3>3, <3>4, <3>5, <3>6
  <2> QED BY <2>1, <2>2
<1>11. CASE IgnoreDuplicate(p)
  BY <1>8, <1>11, Typed DEF IgnoreDuplicate, IInv, TypeOK, AckedIsReceived, receiver
<1> QED BY <1>9, <1>10, <1>11 DEF ReceiveUdp, p

LEMMA NackTimerExpiresStep == IInv /\ NackTimerExpires => IInv'
  BY DEF IInv, NackTimerExpires, sender, TypeOK, SpentOK, DataInside, AckedIsReceived,
         WholeChunks, CompleteMeansAcked, Acknowledged, StartOfChunk

(* A path that loses a packet keeps packets it had. *)
LEMMA LoseDataStep == IInv /\ LoseData => IInv'
<1> SUFFICES ASSUME IInv, LoseData PROVE IInv'
  OBVIOUS
<1>1. PICK k \in DOMAIN data : data' = RemoveAt(data, k)
  BY DEF LoseData
<1>2. data \in Seq(DataPacket)
  BY Typed
<1>3. /\ data' \in Seq(DataPacket) /\ Len(data') = Len(data) - 1
      /\ \A i \in 1..(Len(data) - 1) : data'[i] = IF i < k THEN data[i] ELSE data[i + 1]
  BY <1>1, <1>2, RemoveAtProperties
<1>4. \A i \in DOMAIN data' : \E j \in DOMAIN data : data'[i] = data[j]
  <2> SUFFICES ASSUME NEW i \in DOMAIN data' PROVE \E j \in DOMAIN data : data'[i] = data[j]
    OBVIOUS
  <2>1. Len(data) \in Nat /\ Len(data') \in Nat
        /\ DOMAIN data = 1..Len(data) /\ DOMAIN data' = 1..Len(data')
    BY <1>2, <1>3, LenProperties
  <2>2. i \in 1..(Len(data) - 1) /\ i \in DOMAIN data /\ i + 1 \in DOMAIN data
    BY <1>3, <2>1
  <2> QED BY <1>3, <2>2
<1>5. DataInside'
  <2>1. \A i \in DOMAIN data' : data'[i].seq + data'[i].size <= m_size
    BY <1>4, Typed
  <2> QED BY <2>1 DEF DataInside
<1>6. TypeOK'
  BY <1>3 DEF IInv, LoseData, TypeOK, DataPacket, sender, receiver
<1>7. SpentOK'
  BY DEF IInv, LoseData, SpentOK
<1> QED
  BY <1>5, <1>6, <1>7 DEF IInv, LoseData, sender, receiver, AckedIsReceived,
                          WholeChunks, CompleteMeansAcked, Acknowledged, StartOfChunk

(* A step of the path of the ACKs leaves or reorders packets it had. *)
LEMMA AckPathStep ==
  ASSUME IInv, acks' \in Seq(AckPacket),
         \A i \in DOMAIN acks' : \E j \in DOMAIN acks : acks'[i] = acks[j],
         SpentOK', UNCHANGED <<sender, receiver, data, divided_by_zero>>
  PROVE  IInv'
<1>1. TypeOK'
  BY DEF IInv, TypeOK, AckPacket, sender, receiver
<1>2. AckedIsReceived'
  <2>1. \A i \in DOMAIN acks' : Acknowledged(acks'[i].seq) <= expected
    BY Typed
  <2> QED BY <2>1 DEF IInv, AckedIsReceived, sender, receiver, Acknowledged, StartOfChunk
<1> QED
  BY <1>1, <1>2 DEF IInv, DataInside, WholeChunks, CompleteMeansAcked, sender, Acknowledged, StartOfChunk

LEMMA LoseAckStep == IInv /\ LoseAck => IInv'
<1> SUFFICES ASSUME IInv, LoseAck PROVE IInv'
  OBVIOUS
<1>1. PICK k \in DOMAIN acks : acks' = RemoveAt(acks, k)
  BY DEF LoseAck
<1>2. acks \in Seq(AckPacket)
  BY Typed
<1>3. /\ acks' \in Seq(AckPacket) /\ Len(acks') = Len(acks) - 1
      /\ \A i \in 1..(Len(acks) - 1) : acks'[i] = IF i < k THEN acks[i] ELSE acks[i + 1]
  BY <1>1, <1>2, RemoveAtProperties
<1>4. \A i \in DOMAIN acks' : \E j \in DOMAIN acks : acks'[i] = acks[j]
  <2> SUFFICES ASSUME NEW i \in DOMAIN acks' PROVE \E j \in DOMAIN acks : acks'[i] = acks[j]
    OBVIOUS
  <2>1. Len(acks) \in Nat /\ Len(acks') \in Nat
        /\ DOMAIN acks = 1..Len(acks) /\ DOMAIN acks' = 1..Len(acks')
    BY <1>2, <1>3, LenProperties
  <2>2. i \in 1..(Len(acks) - 1) /\ i \in DOMAIN acks /\ i + 1 \in DOMAIN acks
    BY <1>3, <2>1
  <2> QED BY <1>3, <2>2
<1>5. SpentOK'
  BY DEF IInv, LoseAck, SpentOK
<1> QED BY <1>3, <1>4, <1>5, AckPathStep DEF LoseAck

LEMMA OvertakeAckStep == IInv /\ OvertakeAck => IInv'
<1> SUFFICES ASSUME IInv, OvertakeAck PROVE IInv'
  OBVIOUS
<1>1. PICK k \in 1..(Len(acks) - 1) :
        acks' = [acks EXCEPT ![k] = acks[k + 1], ![k + 1] = acks[k]]
  BY DEF OvertakeAck
<1>2. acks \in Seq(AckPacket) /\ Len(acks) \in Nat /\ DOMAIN acks = 1..Len(acks)
  BY Typed, LenProperties
<1>3. k \in DOMAIN acks /\ k + 1 \in DOMAIN acks
  BY <1>2
<1>4. acks' \in Seq(AckPacket)
  <2>1. acks[k] \in AckPacket /\ acks[k + 1] \in AckPacket
    BY <1>2, <1>3
  <2> QED BY <1>1, <1>2, <1>3, <2>1
<1>5. \A i \in DOMAIN acks' : \E j \in DOMAIN acks : acks'[i] = acks[j]
  <2>1. DOMAIN acks' = DOMAIN acks
    BY <1>1
  <2>2. \A i \in DOMAIN acks : \/ acks'[i] = acks[k] \/ acks'[i] = acks[k + 1] \/ acks'[i] = acks[i]
    BY <1>1, <1>2, <1>3
  <2> QED BY <1>3, <2>1, <2>2
<1>6. SpentOK'
  BY DEF IInv, OvertakeAck, SpentOK
<1> QED BY <1>4, <1>5, <1>6, AckPathStep DEF OvertakeAck

THEOREM IInvStep == IInv /\ [Next]_vars => IInv'
<1> SUFFICES ASSUME IInv, [Next]_vars PROVE IInv'
  OBVIOUS
<1>1. CASE UNCHANGED vars
  BY <1>1 DEF vars, sender, receiver, IInv, TypeOK, SpentOK, DataInside, AckedIsReceived,
              WholeChunks, CompleteMeansAcked, Acknowledged, StartOfChunk
<1>2. CASE Next
  BY <1>2, SendPacketStep, ReceiveAckStep, ReceiveUdpStep, NackTimerExpiresStep,
     LoseDataStep, LoseAckStep, OvertakeAckStep DEF Next
<1> QED BY <1>1, <1>2

LEMMA IInvAlways == Spec => []IInv
  BY InitIInv, IInvStep, PTL DEF Spec

-----------------------------------------------------------------------------
(* What is invariant, whatever is lost and overtaken.                      *)

(* The variables keep their types and ranges: no sequence number leaves    *)
(* the flow. *)
THEOREM TransportTypeCorrect == Spec => []TypeOK
<1>1. IInv => TypeOK
  BY DEF IInv
<1> QED BY <1>1, IInvAlways, PTL

(* What the sender has acknowledged, or will when an ACK or NACK arrives,  *)
(* the receiver holds: RecoverQueue never skips bytes, and in go-back-to-  *)
(* chunk mode the receiver never gives up what it will not be sent again   *)
(* (rdma-hw.cc:396-411, 456-466). *)
THEOREM AcknowledgedIsReceived == Spec => []AckedIsReceived
<1>1. IInv => AckedIsReceived
  BY DEF IInv
<1> QED BY <1>1, IInvAlways, PTL

(* QpComplete is called only when the receiver has the whole flow          *)
(* (rdma-hw.cc:403-405). *)
THEOREM CompletionIsTrue == Spec => []CompleteMeansReceived
<1>1. IInv => CompleteMeansReceived
  BY Typed DEF IInv, CompleteMeansAcked, AckedIsReceived, CompleteMeansReceived
<1> QED BY <1>1, IInvAlways, PTL

(* Both: no acknowledgement and no completion the sender believes in is    *)
(* ahead of what the receiver holds, whatever is lost or overtaken         *)
(* (rdma-hw.cc:380-411, 444-471). *)
THEOREM SenderNeverWrong == Spec => []SenderIsRight
<1>1. AckedIsReceived /\ CompleteMeansReceived => SenderIsRight
  BY DEF SenderIsRight
<1> QED BY <1>1, AcknowledgedIsReceived, CompletionIsTrue, PTL

-----------------------------------------------------------------------------
(* The promise of RdmaDelivery, when ACKs are not overtaken.               *)

InOrder == IInv /\ FinalAckIsLast

LEMMA InitInOrder == Init => InOrder
<1> SUFFICES ASSUME Init PROVE FinalAckIsLast
  BY InitIInv DEF InOrder
<1> QED BY TransportSizes DEF Init, FinalAckIsLast

LEMMA InOrderSendPacket == InOrder /\ SendPacket => FinalAckIsLast'
  BY DEF InOrder, SendPacket, FinalAckIsLast, receiver

LEMMA InOrderReceiveAck == InOrder /\ ReceiveAck => FinalAckIsLast'
<1> SUFFICES ASSUME InOrder, ReceiveAck PROVE FinalAckIsLast'
  OBVIOUS
<1> DEFINE a == Head(acks)
           una == IF m_ack_interval > 0 /\ Acknowledged(a.seq) > snd_una
                  THEN Acknowledged(a.seq) ELSE snd_una
<1>1. /\ acks # <<>> /\ acks' = Tail(acks) /\ snd_una' = una /\ expected' = expected
  BY DEF ReceiveAck, receiver
<1>2. acks \in Seq(AckPacket) /\ Len(acks) \in Nat /\ IInv
  BY Typed, LenProperties DEF InOrder
<1>3. /\ a = acks[1] /\ 1 \in DOMAIN acks /\ Len(acks') = Len(acks) - 1 /\ acks' \in Seq(AckPacket)
      /\ \A k \in DOMAIN acks' : k + 1 \in DOMAIN acks /\ acks'[k] = acks[k + 1]
  BY <1>1, <1>2, TailProperties
<1>4. ASSUME NEW k \in DOMAIN acks', acks'[k].seq = m_size
      PROVE  expected' = m_size /\ k = Len(acks')
  <2>1. k + 1 \in DOMAIN acks /\ acks[k + 1].seq = m_size
    BY <1>3, <1>4
  <2>2. expected = m_size /\ k + 1 = Len(acks)
    BY <2>1 DEF InOrder, FinalAckIsLast
  <2>3. k \in Nat
    BY <1>3, <1>4, LenProperties
  <2> QED BY <1>1, <1>2, <1>3, <2>2, <2>3
<1>5. ASSUME una = m_size PROVE acks' = <<>>
  <2>1. snd_una # m_size
    BY <1>1 DEF InOrder, FinalAckIsLast
  <2>2. Acknowledged(a.seq) = m_size
    BY <1>5, <2>1
  <2>3. a.seq \in Nat /\ a.seq <= m_size /\ Acknowledged(a.seq) <= a.seq /\ m_size \in Nat
    BY <1>2, <1>3, Typed, AcknowledgedProperties
  <2>4. a.seq = m_size
    BY <2>2, <2>3
  <2>5. Len(acks) = 1
    BY <1>3, <2>4 DEF InOrder, FinalAckIsLast
  <2> HIDE DEF a
  <2> QED BY <1>3, <2>5, EmptySeq
<1> HIDE DEF una
<1> QED BY <1>1, <1>4, <1>5 DEF FinalAckIsLast

LEMMA InOrderReceiveUdp == InOrder /\ ReceiveUdp => FinalAckIsLast'
<1> SUFFICES ASSUME InOrder, ReceiveUdp PROVE FinalAckIsLast'
  OBVIOUS
<1> DEFINE p == Head(data)
<1>1. IInv /\ FinalAckIsLast /\ data # <<>> /\ snd_una' = snd_una
  BY DEF InOrder, ReceiveUdp, sender
<1>2. acks \in Seq(AckPacket) /\ data \in Seq(DataPacket) /\ Len(acks) \in Nat
  BY <1>1, Typed, LenProperties
<1>3. p = data[1] /\ 1 \in DOMAIN data
  BY <1>1, <1>2, TailProperties
<1>4. /\ p.seq \in Nat /\ p.size \in Nat /\ p.size > 0 /\ p.seq + p.size <= m_size
      /\ m_size \in Nat /\ expected \in Nat /\ expected <= m_size
      /\ snd_una \in Nat
  BY <1>1, <1>3, Typed
<1> HIDE DEF p
<1>5. snd_una <= expected
  BY <1>1 DEF IInv, AckedIsReceived
<1>6. CASE expected' = expected /\ acks' = acks
  BY <1>1, <1>6 DEF FinalAckIsLast
<1>7. ASSUME expected < m_size, expected' \in Nat, expected' <= m_size,
             \/ acks' = acks
             \/ \E nack \in BOOLEAN : acks' = Append(acks, Reply(nack, expected'))
      PROVE  FinalAckIsLast'
  <2>1. \A k \in DOMAIN acks : acks[k].seq # m_size
    BY <1>1, <1>4, <1>7 DEF FinalAckIsLast
  <2>2. snd_una' # m_size
    BY <1>1, <1>4, <1>5, <1>7
  <2>3. CASE acks' = acks
    BY <2>1, <2>2, <2>3 DEF FinalAckIsLast
  <2>4. ASSUME NEW nack \in BOOLEAN, acks' = Append(acks, Reply(nack, expected'))
        PROVE  FinalAckIsLast'
    <3>1. Reply(nack, expected') \in AckPacket /\ Reply(nack, expected').seq = expected'
      BY <1>4, <1>7 DEF Reply, AckPacket
    <3>2. /\ Len(acks') = Len(acks) + 1
          /\ \A k \in DOMAIN acks' : \/ k \in DOMAIN acks /\ acks'[k] = acks[k]
                                     \/ k = Len(acks) + 1 /\ acks'[k] = Reply(nack, expected')
      BY <1>2, <2>4, <3>1, AppendedProperties
    <3> QED BY <2>1, <2>2, <3>1, <3>2 DEF FinalAckIsLast
  <2> QED BY <1>7, <2>3, <2>4
<1>8. CASE AcceptInOrder(p)
  <2>1. expected < m_size /\ expected' \in Nat /\ expected' <= m_size
    BY <1>4, <1>8 DEF AcceptInOrder
  <2>2. acks' = acks \/ acks' = Append(acks, Reply(FALSE, expected'))
    BY <1>8 DEF AcceptInOrder
  <2>3. acks' = acks \/ \E nack \in BOOLEAN : acks' = Append(acks, Reply(nack, expected'))
    BY <2>2
  <2> QED BY <1>7, <2>1, <2>3
<1>9. CASE RejectGap(p)
  <2>1. expected < m_size
    BY <1>4, <1>9 DEF RejectGap
  <2>2. CASE UNCHANGED <<receiver, acks>>
    BY <1>6, <2>2 DEF receiver
  <2>3. CASE ~UNCHANGED <<receiver, acks>>
    <3>1. expected' = Acknowledged(expected) /\ acks' = Append(acks, Reply(TRUE, expected'))
      BY <1>9, <2>3 DEF RejectGap, Acknowledged
    <3>2. expected' \in Nat /\ expected' <= expected
      BY <1>4, <3>1, AcknowledgedProperties
    <3>3. \E nack \in BOOLEAN : acks' = Append(acks, Reply(nack, expected'))
      BY <3>1
    <3>4. expected' <= m_size
      BY <1>4, <3>2
    <3> QED BY <1>7, <2>1, <3>2, <3>3, <3>4
  <2> QED BY <2>2, <2>3
<1>10. CASE IgnoreDuplicate(p)
  BY <1>6, <1>10 DEF IgnoreDuplicate, receiver
<1> QED BY <1>8, <1>9, <1>10 DEF ReceiveUdp, p

LEMMA InOrderLoseAck == InOrder /\ LoseAck => FinalAckIsLast'
<1> SUFFICES ASSUME InOrder, LoseAck PROVE FinalAckIsLast'
  OBVIOUS
<1>1. PICK k \in DOMAIN acks : acks' = RemoveAt(acks, k)
  BY DEF LoseAck
<1>2. acks \in Seq(AckPacket) /\ Len(acks) \in Nat /\ DOMAIN acks = 1..Len(acks)
  BY Typed, LenProperties DEF InOrder
<1>3. /\ acks' \in Seq(AckPacket) /\ Len(acks') = Len(acks) - 1 /\ DOMAIN acks' = 1..Len(acks')
      /\ \A i \in 1..(Len(acks) - 1) : acks'[i] = IF i < k THEN acks[i] ELSE acks[i + 1]
  BY <1>1, <1>2, RemoveAtProperties, LenProperties, ZenonT(40)
<1>4. snd_una' = snd_una /\ expected' = expected
  BY DEF LoseAck, sender, receiver
<1>5. snd_una # m_size
  BY <1>1, <1>2 DEF InOrder, FinalAckIsLast
<1>6. ASSUME NEW i \in DOMAIN acks', acks'[i].seq = m_size
      PROVE  expected' = m_size /\ i = Len(acks')
  <2>1. i \in 1..(Len(acks) - 1)
    BY <1>2, <1>3
  <2>2. CASE i < k
    <3>1. acks[i].seq = m_size /\ i \in DOMAIN acks
      BY <1>2, <1>3, <1>6, <2>1, <2>2
    <3>2. i = Len(acks)
      BY <3>1 DEF InOrder, FinalAckIsLast
    <3> QED BY <1>2, <2>1, <3>2
  <2>3. CASE ~(i < k)
    <3>1. acks[i + 1].seq = m_size /\ i + 1 \in DOMAIN acks
      BY <1>2, <1>3, <1>6, <2>1, <2>3
    <3>2. expected = m_size /\ i + 1 = Len(acks)
      BY <3>1 DEF InOrder, FinalAckIsLast
    <3> QED BY <1>2, <1>3, <1>4, <2>1, <3>2
  <2> QED BY <2>2, <2>3
<1> QED BY <1>4, <1>5, <1>6 DEF FinalAckIsLast

LEMMA InOrderStep ==
  ASSUME MaxOvertake = 0, InOrder, [Next]_vars
  PROVE  InOrder'
<1>1. IInv'
  BY IInvStep DEF InOrder
<1> SUFFICES FinalAckIsLast'
  BY <1>1 DEF InOrder
<1>2. CASE UNCHANGED vars
  BY <1>2 DEF vars, sender, receiver, InOrder, FinalAckIsLast
<1>3. CASE NackTimerExpires
  BY <1>3 DEF NackTimerExpires, sender, InOrder, FinalAckIsLast
<1>4. CASE LoseData
  BY <1>4 DEF LoseData, sender, receiver, InOrder, FinalAckIsLast
<1>5. CASE OvertakeAck
  <2>1. spent.overtake \in Nat /\ spent.overtake < 0
    BY <1>5 DEF OvertakeAck, InOrder, IInv, SpentOK
  <2> QED BY <2>1
<1> QED
  BY <1>2, <1>3, <1>4, <1>5, InOrderSendPacket, InOrderReceiveAck, InOrderReceiveUdp,
     InOrderLoseAck DEF Next

(* Every step is a step of the promise or leaves it alone: an ACK past the *)
(* end of the flow, which would report completion again, does not exist.   *)
LEMMA DeliveryStep ==
  ASSUME MaxOvertake = 0, InOrder, [Next]_vars
  PROVE  [Delivery!Next]_(Delivery!delivery_vars)
<1> DEFINE same == UNCHANGED <<expected, snd_una, completions>>
<1> USE DEF InOrder
<1>1. CASE same
  BY <1>1 DEF Delivery!delivery_vars
<1>2. CASE UNCHANGED vars
  BY <1>1, <1>2 DEF vars, sender, receiver
<1>3. CASE SendPacket
  BY <1>1, <1>3 DEF SendPacket, receiver
<1>4. CASE NackTimerExpires \/ LoseData \/ LoseAck \/ OvertakeAck
  BY <1>1, <1>4 DEF NackTimerExpires, LoseData, LoseAck, OvertakeAck, sender, receiver
<1>5. CASE ReceiveAck
  <2> DEFINE a == Head(acks)
             una == IF m_ack_interval > 0 /\ Acknowledged(a.seq) > snd_una
                    THEN Acknowledged(a.seq) ELSE snd_una
  <2>1. /\ acks # <<>> /\ snd_una' = una /\ expected' = expected
        /\ completions' = IF m_ack_interval > 0 /\ una >= m_size
                          THEN completions + 1 ELSE completions
    BY <1>5 DEF ReceiveAck, receiver
  <2>2. /\ snd_una \in Nat /\ snd_una <= m_size /\ snd_una # m_size
        /\ m_size \in Nat /\ expected \in Nat /\ expected <= m_size
    BY <2>1, Typed DEF FinalAckIsLast
  <2>3. Acknowledged(a.seq) \in Nat /\ Acknowledged(a.seq) <= expected
    <3>1. a = acks[1] /\ 1 \in DOMAIN acks
      BY <2>1, Typed, TailProperties
    <3> QED BY <3>1, Typed
  <2>4. CASE una = snd_una
    BY <1>1, <2>1, <2>2, <2>4
  <2>5. CASE una # snd_una
    <3>1. /\ snd_una' \in (snd_una + 1)..expected
          /\ completions' = IF snd_una' = m_size THEN completions + 1 ELSE completions
      <4>1. m_ack_interval > 0 /\ una = Acknowledged(a.seq) /\ una > snd_una
        BY <2>5
      <4> HIDE DEF una
      <4> QED BY <2>1, <2>2, <2>3, <4>1
    <3> QED BY <2>1, <3>1 DEF Delivery!Next, Delivery!Acknowledge
  <2> QED BY <2>4, <2>5
<1>6. CASE ReceiveUdp
  <2> DEFINE p == Head(data)
  <2>1. data # <<>> /\ UNCHANGED <<snd_una, completions>>
    BY <1>6 DEF ReceiveUdp, sender
  <2>2. p = data[1] /\ 1 \in DOMAIN data
    BY <2>1, Typed, TailProperties
  <2>3. /\ p.seq \in Nat /\ p.size \in Nat /\ p.size > 0 /\ p.seq + p.size <= m_size
        /\ m_size \in Nat /\ expected \in Nat /\ snd_una \in Nat
    BY <2>2, Typed
  <2> HIDE DEF p
  <2>4. CASE AcceptInOrder(p)
    <3>1. expected' \in (expected + 1)..m_size
      BY <2>3, <2>4 DEF AcceptInOrder
    <3> QED BY <2>1, <3>1 DEF Delivery!Next, Delivery!Deliver
  <2>5. CASE RejectGap(p)
    <3>1. CASE UNCHANGED <<receiver, acks>>
      BY <1>1, <2>1, <3>1 DEF receiver
    <3>2. CASE ~UNCHANGED <<receiver, acks>>
      <4>1. expected' = Acknowledged(expected)
        BY <2>5, <3>2 DEF RejectGap, Acknowledged
      <4>2. snd_una <= expected /\ Acknowledged(snd_una) = snd_una
        BY DEF IInv, AckedIsReceived, WholeChunks
      <4>3. expected' \in snd_una..expected
        BY <2>3, <4>1, <4>2, AcknowledgedProperties
      <4> QED BY <2>1, <4>3 DEF Delivery!Next, Delivery!GiveUpPartOfChunk
    <3> QED BY <3>1, <3>2
  <2>6. CASE IgnoreDuplicate(p)
    BY <1>1, <2>1, <2>6 DEF IgnoreDuplicate, receiver
  <2> QED BY <1>6, <2>4, <2>5, <2>6 DEF ReceiveUdp, p
<1> QED BY <1>2, <1>3, <1>4, <1>5, <1>6 DEF Next

(* The queue pair implements RdmaDelivery when the path of the ACKs keeps  *)
(* their order: whatever is lost, the receiver holds a prefix of the flow, *)
(* nothing acknowledged is given up and QpComplete runs once               *)
(* (rdma-hw.cc:380-411, 444-471). *)
THEOREM DeliveryKept == ASSUME MaxOvertake = 0 PROVE Spec => KeepsDelivery
<1>1. Init => InOrder /\ Delivery!Init
  BY InitInOrder DEF Init, Delivery!Init
<1>2. InOrder /\ [Next]_vars => InOrder' /\ [Delivery!Next]_(Delivery!delivery_vars)
  BY InOrderStep, DeliveryStep
<1> QED BY <1>1, <1>2, PTL DEF Spec, KeepsDelivery, Delivery!Spec

-----------------------------------------------------------------------------
(* Congestion control.                                                     *)


(* The congestion control follows the transport and never disturbs it. *)
LEMMA TransportStep == [RateNext]_rate_vars => [Next]_vars
<1> SUFFICES ASSUME [RateNext]_rate_vars PROVE [Next]_vars
  OBVIOUS
<1>1. CASE Send
  BY <1>1 DEF Send, Next
<1>2. CASE ReceiveAckAndControl
  BY <1>2 DEF ReceiveAckAndControl, Next
<1>3. CASE Receive
  BY <1>3 DEF Receive, Next
<1>4. CASE TimerOfReceiver
  BY <1>4 DEF TimerOfReceiver, Next
<1>5. CASE Lose
  BY <1>5 DEF Lose, Next
<1>6. CASE CheckRateDecreaseMlx
  BY <1>6 DEF CheckRateDecreaseMlx
<1>7. CASE RateIncEventTimerMlx
  BY <1>7 DEF RateIncEventTimerMlx
<1>8. CASE UNCHANGED rate_vars
  BY <1>8 DEF rate_vars
<1> QED BY <1>1, <1>2, <1>3, <1>4, <1>5, <1>6, <1>7, <1>8 DEF RateNext

LEMMA IInvKept == IInv /\ [RateNext]_rate_vars => IInv'
  BY TransportStep, IInvStep

-----------------------------------------------------------------------------
(* The rates and timers of DCQCN.                                          *)

Mlx == [m_rate : Nat, m_targetRate : Nat, m_first_cnp : BOOLEAN,
        m_decrease_cnp_arrived : BOOLEAN, m_rpTimeStage : 0..(m_rpgThreshold + 1)]

RatesInOrder ==
  /\ mlx \in Mlx
  /\ m_minRate <= mlx.m_rate /\ mlx.m_rate <= mlx.m_targetRate /\ mlx.m_targetRate <= LineRate

TimersKept ==
  /\ m_cc_mode \in Modes /\ late_cnp \in BOOLEAN
  /\ timers \subseteq {"alpha", "decrease", "rp"}
  /\ timers # {} => m_cc_mode = DCQCN
  /\ TimersEndWithFlow

Rates == RatesInOrder /\ TimersKept

LEMMA InitRates == RateInit => Rates
<1> SUFFICES ASSUME RateInit PROVE Rates
  OBVIOUS
<1>1. RatesInOrder
  BY RateNumbers DEF RateInit, RatesInOrder, Mlx
<1>2. TimersKept
  BY DEF RateInit, TimersKept, TimersEndWithFlow
<1> QED BY <1>1, <1>2 DEF Rates

(* The halves of two numbers that are no less than an even one are         *)
(* together no less than it. *)
LEMMA Halves ==
  ASSUME NEW least \in Nat, least % 2 = 0, NEW a \in Nat, NEW b \in Nat, least <= a, a <= b
  PROVE  /\ a \div 2 + b \div 2 \in Nat
         /\ least <= a \div 2 + b \div 2 /\ a \div 2 + b \div 2 <= b
  OBVIOUS

LEMMA DecreaseRates == Rates /\ CheckRateDecreaseMlx => Rates'
<1> SUFFICES ASSUME Rates, CheckRateDecreaseMlx PROVE Rates'
  OBVIOUS
<1>1. PICK rate \in Decreased, target \in {mlx.m_rate, mlx.m_targetRate} :
        mlx' = [mlx EXCEPT !.m_targetRate = target, !.m_rate = rate,
                           !.m_rpTimeStage = 0, !.m_decrease_cnp_arrived = FALSE]
  BY ZenonT(40) DEF CheckRateDecreaseMlx
<1>2. mlx \in Mlx /\ {m_minRate, LineRate, m_rpgThreshold} \subseteq Nat
  BY RateNumbers DEF Rates, RatesInOrder
<1>3. /\ {mlx.m_rate, mlx.m_targetRate} \subseteq Nat
      /\ m_minRate <= mlx.m_rate /\ mlx.m_rate <= mlx.m_targetRate /\ mlx.m_targetRate <= LineRate
  BY <1>2 DEF Rates, RatesInOrder, Mlx
<1>4. rate \in Nat /\ m_minRate <= rate /\ rate <= mlx.m_rate
  BY <1>2, <1>3 DEF Decreased, Greater
<1>5. RatesInOrder'
  <2>1. target \in Nat /\ rate <= target /\ target <= LineRate
    <3>1. target = mlx.m_rate \/ target = mlx.m_targetRate
      BY <1>1
    <3> QED BY <1>2, <1>3, <1>4, <3>1
  <2>2. mlx' \in Mlx
    <3>1. 0 \in 0..(m_rpgThreshold + 1)
      BY <1>2
    <3> QED BY <1>1, <1>2, <1>4, <2>1, <3>1 DEF Mlx
  <2>3. mlx'.m_rate = rate /\ mlx'.m_targetRate = target
    BY <1>1, <1>2 DEF Mlx
  <2> QED BY <1>4, <2>1, <2>2, <2>3 DEF RatesInOrder
<1>6. "decrease" \in timers /\ timers' = timers \cup {"rp"}
  BY DEF CheckRateDecreaseMlx
<1>7. TimersKept'
  BY <1>6 DEF Rates, TimersKept, TimersEndWithFlow, CheckRateDecreaseMlx, config, vars, sender
<1> QED BY <1>5, <1>7 DEF Rates

LEMMA IncreaseRates == Rates /\ RateIncEventTimerMlx => Rates'
<1> SUFFICES ASSUME Rates, RateIncEventTimerMlx PROVE Rates'
  OBVIOUS
<1> DEFINE raised == RaisedTarget
           half == mlx.m_rate \div 2 + raised \div 2
           stage == Lesser(mlx.m_rpTimeStage + 1, m_rpgThreshold + 1)
<1>1. mlx' = [mlx EXCEPT !.m_targetRate = raised, !.m_rate = half, !.m_rpTimeStage = stage]
  BY DEF RateIncEventTimerMlx
<1>2. /\ mlx \in Mlx /\ m_minRate \in Nat /\ m_minRate % 2 = 0 /\ LineRate \in Nat
      /\ {m_rai, m_rhai, m_rpgThreshold} \subseteq Nat
  BY RateNumbers DEF Rates, RatesInOrder
<1>3. /\ {mlx.m_rate, mlx.m_targetRate} \subseteq Nat /\ mlx.m_rpTimeStage \in Nat
      /\ m_minRate <= mlx.m_rate /\ mlx.m_rate <= mlx.m_targetRate /\ mlx.m_targetRate <= LineRate
  BY <1>2 DEF Rates, RatesInOrder, Mlx
<1>4. raised \in Nat /\ mlx.m_targetRate <= raised /\ raised <= LineRate
  BY <1>2, <1>3 DEF RaisedTarget, Lesser
<1>5. stage \in 0..(m_rpgThreshold + 1)
  BY <1>2, <1>3 DEF Lesser
<1> HIDE DEF raised, stage
<1>6. mlx.m_rate <= raised
  BY <1>3, <1>4
<1>7. half \in Nat /\ m_minRate <= half /\ half <= raised
  BY <1>2, <1>3, <1>4, <1>6, Halves
<1> HIDE DEF half
<1>8. RatesInOrder'
  BY <1>1, <1>2, <1>3, <1>4, <1>5, <1>7 DEF RatesInOrder, Mlx
<1>9. TimersKept'
  BY DEF Rates, TimersKept, TimersEndWithFlow, RateIncEventTimerMlx, config, vars, sender
<1> QED BY <1>8, <1>9 DEF Rates

LEMMA AckRates == IInv /\ Rates /\ ReceiveAckAndControl => Rates'
<1> SUFFICES ASSUME IInv, Rates, ReceiveAckAndControl PROVE Rates'
  OBVIOUS
<1>1. PICK cnp \in BOOLEAN :
        /\ IF m_cc_mode = DCQCN THEN CnpReceivedMlx(cnp) ELSE UNCHANGED <<mlx, timers>>
        /\ late_cnp' = (late_cnp \/ (cnp /\ mlx.m_first_cnp /\ completions' > 0))
  BY DEF ReceiveAckAndControl
<1>2. m_cc_mode' = m_cc_mode
  BY DEF ReceiveAckAndControl, config
<1>3. mlx \in Mlx /\ {m_minRate, LineRate, m_rpgThreshold} \subseteq Nat
  BY RateNumbers DEF Rates, RatesInOrder
<1>4. ASSUME mlx' = mlx PROVE RatesInOrder'
  BY <1>4 DEF Rates, RatesInOrder, Mlx
<1>5. ASSUME NEW target \in {mlx.m_rate, mlx.m_targetRate},
             mlx' = [mlx EXCEPT !.m_first_cnp = FALSE, !.m_decrease_cnp_arrived = TRUE,
                                !.m_targetRate = target]
      PROVE  RatesInOrder'
  <2>1. /\ mlx.m_rate \in Nat /\ m_minRate <= mlx.m_rate
        /\ target \in Nat /\ mlx.m_rate <= target /\ target <= LineRate
    BY <1>3 DEF Rates, RatesInOrder, Mlx
  <2>2. mlx' \in Mlx
    BY <1>3, <1>5, <2>1 DEF Mlx
  <2>3. mlx'.m_rate = mlx.m_rate /\ mlx'.m_targetRate = target
    BY <1>3, <1>5 DEF Mlx
  <2> QED BY <2>1, <2>2, <2>3 DEF RatesInOrder
<1>6. /\ m_cc_mode \in Modes /\ late_cnp \in BOOLEAN /\ mlx.m_first_cnp \in BOOLEAN
      /\ timers \subseteq {"alpha", "decrease", "rp"} /\ (timers # {} => m_cc_mode = DCQCN)
      /\ (completions > 0 /\ ~late_cnp => timers = {})
  BY <1>3 DEF Rates, TimersKept, TimersEndWithFlow, Mlx
<1>7. completions \in Nat /\ completions' \in Nat
  BY Typed DEF ReceiveAckAndControl, ReceiveAck
<1>8. late_cnp' \in BOOLEAN /\ timers' \subseteq {"alpha", "decrease", "rp"}
      /\ (timers' # {} => m_cc_mode = DCQCN)
  BY <1>1, <1>6 DEF CnpReceivedMlx, AfterQpComplete
<1>9. ASSUME completions' > 0, ~late_cnp' PROVE timers' = {}
  <2>1. ~late_cnp /\ ~(cnp /\ mlx.m_first_cnp)
    BY <1>1, <1>9
  <2>2. CASE m_cc_mode # DCQCN
    BY <1>1, <1>6, <2>2
  <2>3. CASE m_cc_mode = DCQCN
    <3>1. timers' = IF completions' > completions THEN {} ELSE timers
      BY <1>1, <2>1, <2>3 DEF CnpReceivedMlx, AfterQpComplete, CompletesFlow
    <3>2. completions' > completions \/ completions > 0
      BY <1>7, <1>9
    <3> QED BY <1>6, <2>1, <3>1, <3>2
  <2> QED BY <2>2, <2>3
<1>10. TimersKept'
  BY <1>2, <1>6, <1>8, <1>9 DEF TimersKept, TimersEndWithFlow
<1>11. CASE mlx' # mlx
  <2>1. m_cc_mode = DCQCN /\ CnpReceivedMlx(cnp) /\ cnp
    BY <1>1, <1>11 DEF CnpReceivedMlx
  <2>2. PICK target \in {mlx.m_rate, mlx.m_targetRate} :
          mlx' = [mlx EXCEPT !.m_first_cnp = FALSE, !.m_decrease_cnp_arrived = TRUE,
                             !.m_targetRate = target]
    BY <2>1 DEF CnpReceivedMlx
  <2> QED BY <1>5, <1>10, <2>2 DEF Rates
<1> QED BY <1>4, <1>10, <1>11 DEF Rates

LEMMA RatesStep == IInv /\ Rates /\ [RateNext]_rate_vars => Rates'
<1> SUFFICES ASSUME IInv, Rates, [RateNext]_rate_vars PROVE Rates'
  OBVIOUS
<1>1. ASSUME UNCHANGED <<m_cc_mode, mlx, timers, completions, late_cnp>> PROVE Rates'
  BY <1>1 DEF Rates, RatesInOrder, TimersKept, TimersEndWithFlow
<1>2. CASE Send
  BY <1>1, <1>2 DEF Send, SendPacket, config, control
<1>3. CASE Receive
  BY <1>1, <1>3 DEF Receive, ReceiveUdp, sender, config, control
<1>4. CASE TimerOfReceiver
  BY <1>1, <1>4 DEF TimerOfReceiver, NackTimerExpires, sender, config, control
<1>5. CASE Lose
  BY <1>1, <1>5 DEF Lose, LoseData, LoseAck, sender, config, control
<1>6. CASE UNCHANGED rate_vars
  BY <1>1, <1>6 DEF rate_vars, vars, sender, config, control, history
<1> QED
  BY <1>2, <1>3, <1>4, <1>5, <1>6, AckRates, DecreaseRates, IncreaseRates DEF RateNext

-----------------------------------------------------------------------------
(* The history goes with the packets.                                      *)

Tags == SUBSET {"update", "cut"}

TagsKept ==
  /\ stale_data \in Seq(Tags) /\ Len(stale_data) = Len(data)
  /\ stale_acks \in Seq(Tags) /\ Len(stale_acks) = Len(acks)
  /\ nacked_again \in BOOLEAN

LEMMA InitTags == RateInit => TagsKept
<1> SUFFICES ASSUME RateInit PROVE TagsKept
  OBVIOUS
<1>1. <<>> \in Seq(Tags) /\ data = <<>> /\ acks = <<>>
  BY DEF RateInit, Init
<1> QED BY <1>1 DEF RateInit, TagsKept

LEMMA OutdatedProperties ==
  ASSUME NEW s \in Seq(Tags), NEW changes \in Tags
  PROVE  /\ Outdated(s, changes) \in Seq(Tags)
         /\ Len(Outdated(s, changes)) = Len(s)
         /\ \A k \in DOMAIN s : Outdated(s, changes)[k] = s[k] \cup changes
<1>1. Len(s) \in Nat /\ DOMAIN s = 1..Len(s)
  BY LenProperties
<1>2. Outdated(s, changes) = [k \in 1..Len(s) |-> s[k] \cup changes]
  BY <1>1 DEF Outdated
<1>3. ASSUME NEW k \in 1..Len(s) PROVE s[k] \cup changes \in Tags
  <2>1. s[k] \in Tags
    BY <1>1
  <2> QED BY <2>1 DEF Tags
<1> QED BY <1>1, <1>2, <1>3

(* What the congestion control of each mode does with an ACK for seq.      *)
ControlOK ==
  /\ m_lastUpdateSeq \in 0..m_size
  /\ dctcp.m_caState \in {0, 1} /\ dctcp.m_highSeq \in 0..m_size

OpenWindow(seq) == dctcp.m_caState = 1 /\ seq <= dctcp.m_highSeq

ControlStep(seq) ==
  /\ ControlOK'
  /\ reaction' \subseteq {"update", "cut", "fast"}
  /\ "update" \in reaction' => seq > m_lastUpdateSeq /\ m_lastUpdateSeq' >= snd_nxt'
  /\ "update" \notin reaction' => m_lastUpdateSeq' >= m_lastUpdateSeq
  /\ "cut" \in reaction' =>
       ~OpenWindow(seq) /\ dctcp'.m_caState = 1 /\ dctcp'.m_highSeq = snd_nxt'
  /\ "cut" \notin reaction' =>
       dctcp'.m_highSeq = dctcp.m_highSeq /\ (OpenWindow(seq) => dctcp'.m_caState = 1)

LEMMA AckControls ==
  ASSUME ControlOK, IInv, IInv', ReceiveAckAndControl
  PROVE  ControlStep(Head(acks).seq)
<1> DEFINE seq == Head(acks).seq
<1> SUFFICES ControlStep(seq)
  OBVIOUS
<1>1. PICK cnp \in BOOLEAN :
       /\ \/ m_cc_mode = HPCC /\ HandleAckHp(seq)
          \/ m_cc_mode = TIMELY /\ HandleAckTimely(seq)
          \/ m_cc_mode = DCTCP /\ HandleAckDctcp(seq, cnp)
          \/ m_cc_mode = HPCC_PINT /\ HandleAckHpPint(seq)
          \/ m_cc_mode = DCQCN /\ NoReaction
       /\ m_cc_mode # DCTCP => UNCHANGED dctcp
  BY DEF ReceiveAckAndControl
<1>2. /\ m_size \in Nat /\ snd_nxt' \in Nat /\ snd_nxt' <= m_size
      /\ m_lastUpdateSeq \in Nat /\ m_lastUpdateSeq <= m_size
      /\ dctcp.m_highSeq \in Nat /\ dctcp.m_highSeq <= m_size /\ dctcp.m_caState \in {0, 1}
  BY TransportSizes DEF IInv, TypeOK, ControlOK
<1>3. seq \in Nat
  <2>1. acks # <<>>
    BY DEF ReceiveAckAndControl, ReceiveAck
  <2> QED BY <2>1, Typed, TailProperties
<1> HIDE DEF seq
<1>4. ASSUME UNCHANGED dctcp, FullUpdate(seq) PROVE ControlStep(seq)
  BY <1>2, <1>3, <1>4 DEF FullUpdate, Greater, ControlStep, ControlOK, OpenWindow
<1>5. ASSUME UNCHANGED dctcp, FastReact(seq) PROVE ControlStep(seq)
  BY <1>2, <1>3, <1>5 DEF FastReact, ControlStep, ControlOK, OpenWindow
<1>6. ASSUME UNCHANGED dctcp, NoReaction PROVE ControlStep(seq)
  BY <1>2, <1>3, <1>6 DEF NoReaction, ControlStep, ControlOK, OpenWindow
<1>7. CASE HandleAckDctcp(seq, cnp)
  <2> DEFINE new_batch == seq > m_lastUpdateSeq
             in_cwr == OpenWindow(seq)
             cut == cnp /\ ~in_cwr
  <2>1. /\ m_lastUpdateSeq' = IF new_batch THEN snd_nxt' ELSE m_lastUpdateSeq
        /\ dctcp'.m_caState = IF in_cwr \/ cut THEN 1 ELSE 0
        /\ dctcp'.m_highSeq = IF cut THEN snd_nxt' ELSE dctcp.m_highSeq
        /\ reaction' \subseteq {"update", "cut"}
        /\ "update" \in reaction' <=> new_batch
        /\ "cut" \in reaction' <=> cut
    BY <1>7 DEF HandleAckDctcp, OpenWindow
  <2>2. ControlOK'
    BY <1>2, <2>1 DEF ControlOK
  <2> QED BY <1>2, <1>3, <2>1, <2>2 DEF ControlStep
<1>8. CASE m_cc_mode # DCTCP
  BY <1>1, <1>4, <1>5, <1>6, <1>8 DEF HandleAckHp, HandleAckTimely, HandleAckHpPint
<1>9. CASE m_cc_mode = DCTCP
  BY <1>1, <1>7, <1>9 DEF DCTCP, HPCC, TIMELY, HPCC_PINT, DCQCN
<1> QED BY <1>8, <1>9

LEMMA ControlKept == ControlOK /\ IInv /\ [RateNext]_rate_vars => ControlOK'
<1> SUFFICES ASSUME ControlOK, IInv, [RateNext]_rate_vars PROVE ControlOK'
  OBVIOUS
<1>1. ASSUME UNCHANGED <<m_lastUpdateSeq, dctcp>> PROVE ControlOK'
  BY <1>1 DEF ControlOK
<1>2. CASE ReceiveAckAndControl
  BY <1>2, AckControls, IInvKept DEF ControlStep
<1> QED
  BY <1>1, <1>2, ZenonT(40) DEF RateNext, Send, Receive, TimerOfReceiver, Lose, CheckRateDecreaseMlx,
                    RateIncEventTimerMlx, rate_vars, control

-----------------------------------------------------------------------------
(* Each step moves the packets and their histories together.               *)

LEMMA TagsTyped ==
  ASSUME IInv, TagsKept
  PROVE  /\ data \in Seq(DataPacket) /\ stale_data \in Seq(Tags)
         /\ Len(data) \in Nat /\ DOMAIN data = 1..Len(data)
         /\ Len(stale_data) = Len(data) /\ DOMAIN stale_data = 1..Len(data)
         /\ acks \in Seq(AckPacket) /\ stale_acks \in Seq(Tags)
         /\ Len(acks) \in Nat /\ DOMAIN acks = 1..Len(acks)
         /\ Len(stale_acks) = Len(acks) /\ DOMAIN stale_acks = 1..Len(acks)
         /\ nacked_again \in BOOLEAN
  BY Typed, LenProperties DEF TagsKept

LEMMA ReceiveEither ==
  ASSUME ReceiveUdp
  PROVE  acks' = acks \/ \E nack \in BOOLEAN : acks' = Append(acks, Reply(nack, expected'))
  BY DEF ReceiveUdp, AcceptInOrder, RejectGap, IgnoreDuplicate

LEMMA Silent ==
  ASSUME IInv, Receive, acks' = acks
  PROVE  UNCHANGED <<stale_acks, nacked, nacked_again>>
<1>1. ~(Len(acks') > Len(acks))
  BY Typed, LenProperties
<1> QED BY <1>1 DEF Receive

LEMMA Replied ==
  ASSUME IInv, TagsKept, Receive, NEW nack \in BOOLEAN,
         acks' = Append(acks, Reply(nack, expected')), expected' \in 0..m_size
  PROVE  /\ stale_acks' = Append(stale_acks, stale_data[1])
         /\ nacked' = IF nack THEN nacked \cup {expected'} ELSE nacked
         /\ nacked_again' = (nacked_again \/ (nack /\ expected' \in nacked))
<1> DEFINE r == Reply(nack, expected')
<1>1. r \in AckPacket /\ r.nack = nack /\ r.seq = expected'
  BY DEF Reply, AckPacket
<1> HIDE DEF r
<1>2. acks' = Append(acks, r) /\ acks \in Seq(AckPacket) /\ Len(acks) \in Nat
  BY TagsTyped DEF r
<1>3. Len(acks') = Len(acks) + 1 /\ Last(acks') = r
  BY <1>1, <1>2 DEF Last
<1>4. Head(stale_data) = stale_data[1]
  <2>1. data # <<>>
    BY DEF Receive, ReceiveUdp
  <2>2. stale_data # <<>>
    BY <2>1, TagsTyped, EmptySeq
  <2> QED BY <2>2, TagsTyped, TailProperties
<1>5. Len(acks') > Len(acks)
  BY <1>2, <1>3
<1> QED BY <1>1, <1>3, <1>4, <1>5 DEF Receive

LEMMA LostData ==
  ASSUME IInv, TagsKept, Lose, LoseData
  PROVE  /\ UNCHANGED <<acks, stale_acks>>
         /\ \E k \in DOMAIN data :
              data' = RemoveAt(data, k) /\ stale_data' = RemoveAt(stale_data, k)
<1>1. UNCHANGED acks /\ Len(data') = Len(data) - 1
  BY TagsTyped, RemoveAtProperties, ZenonT(40) DEF LoseData
<1>2. ~LoseAck
  BY <1>1, TagsTyped DEF LoseAck
<1> QED BY <1>1, <1>2 DEF Lose

LEMMA LostAck ==
  ASSUME IInv, TagsKept, Lose, LoseAck
  PROVE  /\ UNCHANGED <<data, stale_data>>
         /\ \E k \in DOMAIN acks :
              acks' = RemoveAt(acks, k) /\ stale_acks' = RemoveAt(stale_acks, k)
<1>1. UNCHANGED data
  BY DEF LoseAck
<1>2. ~LoseData
  <2>1. SUFFICES ASSUME LoseData PROVE FALSE
    OBVIOUS
  <2>2. Len(data') = Len(data) - 1
    BY <2>1, TagsTyped, RemoveAtProperties, ZenonT(40) DEF LoseData
  <2> QED BY <1>1, <2>2, TagsTyped
<1> QED BY <1>1, <1>2 DEF Lose

LEMMA AckTaken ==
  ASSUME IInv, TagsKept, ControlOK, ReceiveAckAndControl
  PROVE  /\ acks # <<>> /\ 1 \in DOMAIN acks /\ Head(acks) = acks[1]
         /\ Head(stale_acks) = stale_acks[1] /\ stale_acks[1] \in Tags
         /\ Len(acks') = Len(acks) - 1 /\ acks' = Tail(acks)
         /\ stale_acks' \in Seq(Tags) /\ Len(stale_acks') = Len(acks')
         /\ stale_data' \in Seq(Tags) /\ Len(stale_data') = Len(data)
         /\ \A k \in DOMAIN acks' :
              /\ k + 1 \in DOMAIN acks /\ acks'[k] = acks[k + 1]
              /\ stale_acks'[k] = stale_acks[k + 1] \cup (reaction' \ {"fast"})
         /\ \A k \in DOMAIN data : stale_data'[k] = stale_data[k] \cup (reaction' \ {"fast"})
         /\ UNCHANGED <<data, expected, nacked, nacked_again>>
<1>1. /\ acks # <<>> /\ acks' = Tail(acks) /\ UNCHANGED <<data, expected, nacked, nacked_again>>
      /\ stale_data' = Outdated(stale_data, reaction' \ {"fast"})
      /\ stale_acks' = Outdated(Tail(stale_acks), reaction' \ {"fast"})
  BY DEF ReceiveAckAndControl, ReceiveAck, receiver
<1>2. reaction' \ {"fast"} \in Tags
  BY AckControls, IInvKept DEF ControlStep, Tags, RateNext
<1>3. stale_acks # <<>>
  BY <1>1, TagsTyped, EmptySeq
<1>4. /\ Head(acks) = acks[1] /\ 1 \in DOMAIN acks /\ Len(acks') = Len(acks) - 1
      /\ acks' \in Seq(AckPacket)
      /\ \A k \in DOMAIN acks' : k + 1 \in DOMAIN acks /\ acks'[k] = acks[k + 1]
  BY <1>1, TagsTyped, TailProperties
<1>5. /\ Head(stale_acks) = stale_acks[1] /\ stale_acks[1] \in Tags
      /\ Tail(stale_acks) \in Seq(Tags) /\ Len(Tail(stale_acks)) = Len(acks')
      /\ \A k \in DOMAIN Tail(stale_acks) : Tail(stale_acks)[k] = stale_acks[k + 1]
  BY <1>3, <1>4, TagsTyped, TailProperties
<1>6. DOMAIN Tail(stale_acks) = DOMAIN acks'
  BY <1>4, <1>5, LenProperties
<1>7. /\ stale_acks' \in Seq(Tags) /\ Len(stale_acks') = Len(acks')
      /\ \A k \in DOMAIN acks' :
           stale_acks'[k] = Tail(stale_acks)[k] \cup (reaction' \ {"fast"})
  BY <1>1, <1>2, <1>5, <1>6, OutdatedProperties
<1>8. /\ stale_data' \in Seq(Tags) /\ Len(stale_data') = Len(data)
      /\ \A k \in DOMAIN data : stale_data'[k] = stale_data[k] \cup (reaction' \ {"fast"})
  BY <1>1, <1>2, TagsTyped, OutdatedProperties
<1>9. \A k \in DOMAIN acks' :
        stale_acks'[k] = stale_acks[k + 1] \cup (reaction' \ {"fast"})
  BY <1>5, <1>6, <1>7
<1> QED BY <1>1, <1>4, <1>5, <1>7, <1>8, <1>9, ZenonT(40)

LEMMA TagsStep == IInv /\ ControlOK /\ TagsKept /\ [RateNext]_rate_vars => TagsKept'
<1> SUFFICES ASSUME IInv, ControlOK, TagsKept, [RateNext]_rate_vars PROVE TagsKept'
  OBVIOUS
<1>1. CASE Send
  <2>1. data' = Append(data, [seq |-> snd_nxt, size |-> Lesser(GetBytesLeft, m_mtu)])
        /\ stale_data' = Append(stale_data, {}) /\ UNCHANGED <<acks, stale_acks, nacked_again>>
    BY <1>1 DEF Send, SendPacket
  <2>2. {} \in Tags /\ Len(data') = Len(data) + 1
    BY <2>1, TagsTyped DEF Tags
  <2>3. stale_data' \in Seq(Tags) /\ Len(stale_data') = Len(stale_data) + 1
    BY <2>1, <2>2, TagsTyped, AppendedProperties
  <2> QED BY <2>1, <2>2, <2>3 DEF TagsKept
<1>2. CASE ReceiveAckAndControl
  BY <1>2, AckTaken DEF TagsKept
<1>3. CASE Receive
  <2>1. data # <<>> /\ data' = Tail(data) /\ stale_data' = Tail(stale_data)
    BY <1>3 DEF Receive, ReceiveUdp
  <2>2. stale_data # <<>>
    BY <2>1, TagsTyped, EmptySeq
  <2>3. /\ stale_data' \in Seq(Tags) /\ Len(stale_data') = Len(data')
        /\ stale_data[1] \in Tags
    BY <2>1, <2>2, TagsTyped, TailProperties
  <2>4. CASE acks' = acks
    BY <1>3, <2>3, <2>4, Silent DEF TagsKept
  <2>5. ASSUME NEW nack \in BOOLEAN, acks' = Append(acks, Reply(nack, expected')) PROVE TagsKept'
    <3>1. expected' \in 0..m_size
      BY IInvKept DEF IInv, TypeOK
    <3>2. /\ stale_acks' = Append(stale_acks, stale_data[1])
          /\ nacked_again' = (nacked_again \/ (nack /\ expected' \in nacked))
      BY <1>3, <2>5, <3>1, Replied
    <3>3. nacked_again' \in BOOLEAN
      BY <3>2, TagsTyped
    <3>4. Len(acks') = Len(acks) + 1
      BY <2>5, TagsTyped
    <3>5. stale_acks' \in Seq(Tags) /\ Len(stale_acks') = Len(stale_acks) + 1
      BY <2>3, <3>2, TagsTyped, AppendedProperties
    <3> QED BY <2>3, <3>3, <3>4, <3>5 DEF TagsKept
  <2> QED BY <1>3, <2>4, <2>5, ReceiveEither DEF Receive
<1>4. CASE Lose
  <2>1. nacked_again' = nacked_again
    BY <1>4 DEF Lose
  <2>2. CASE LoseData
    <3>1. PICK k \in DOMAIN data : data' = RemoveAt(data, k) /\ stale_data' = RemoveAt(stale_data, k)
      BY <1>4, <2>2, LostData
    <3>2. stale_data' \in Seq(Tags) /\ Len(stale_data') = Len(data')
      BY <3>1, TagsTyped, RemoveAtProperties
    <3> QED BY <1>4, <2>1, <2>2, <3>2, LostData DEF TagsKept
  <2>3. CASE LoseAck
    <3>1. PICK k \in DOMAIN acks : acks' = RemoveAt(acks, k) /\ stale_acks' = RemoveAt(stale_acks, k)
      BY <1>4, <2>3, LostAck
    <3>2. stale_acks' \in Seq(Tags) /\ Len(stale_acks') = Len(acks')
      BY <3>1, TagsTyped, RemoveAtProperties
    <3> QED BY <1>4, <2>1, <2>3, <3>2, LostAck DEF TagsKept
  <2> QED BY <1>4, <2>2, <2>3 DEF Lose
<1>5. CASE TimerOfReceiver
  BY <1>5 DEF TimerOfReceiver, NackTimerExpires, TagsKept
<1>6. CASE CheckRateDecreaseMlx \/ RateIncEventTimerMlx \/ UNCHANGED rate_vars
  BY <1>6, ZenonT(40) DEF CheckRateDecreaseMlx, RateIncEventTimerMlx, rate_vars, vars, history, TagsKept
<1> QED BY <1>1, <1>2, <1>3, <1>4, <1>5, <1>6 DEF RateNext

-----------------------------------------------------------------------------
(* Round trips.  While the receiver has not asked twice for a packet, the  *)
(* packets on their way are those sent before the last NACK was obeyed,    *)
(* which it passes over, and behind them a stream without repetitions.     *)

EndOf(p) == p.seq + p.size

(* Nothing of a chunk is given up when the receiver asks for this one. *)
ExpectsChunk == Acknowledged(expected) = expected

PassedOver(b) ==
  /\ \A k \in 1..b : data[k].seq > expected
  /\ b > 0 => expected \in nacked /\ ExpectsChunk

(* What was sent before a change lies below the mark the change set. *)
Stream(b) ==
  \A j \in DOMAIN data : j > b =>
    /\ EndOf(data[j]) <= snd_nxt
    /\ \A i \in DOMAIN data : b < i /\ i < j => EndOf(data[i]) <= data[j].seq
    /\ "update" \in stale_data[j] => EndOf(data[j]) <= m_lastUpdateSeq
    /\ "cut" \in stale_data[j] => EndOf(data[j]) <= dctcp.m_highSeq

Replies ==
  \A k \in DOMAIN acks :
    /\ acks[k].seq <= snd_nxt
    /\ "update" \in stale_acks[k] => acks[k].seq <= m_lastUpdateSeq
    /\ "cut" \in stale_acks[k] => acks[k].seq <= dctcp.m_highSeq

(* A NACK is the last reply, and all data on its way will be passed over. *)
NackIsLast ==
  \A k \in DOMAIN acks : acks[k].nack =>
    /\ k = Len(acks) /\ acks[k].seq = expected
    /\ expected \in nacked /\ ExpectsChunk /\ snd_nxt > expected
    /\ \A j \in DOMAIN data : data[j].seq > expected

(* What was sent before a cut of DCTCP comes back before what follows, and *)
(* the window of that cut is open until then. *)
CutsFirst ==
  /\ \A j \in DOMAIN acks : "cut" \in stale_acks[j] =>
       /\ dctcp.m_caState = 1
       /\ \A i \in DOMAIN acks : i <= j => "cut" \in stale_acks[i]
  /\ \A j \in DOMAIN data : "cut" \in stale_data[j] =>
       /\ dctcp.m_caState = 1
       /\ \A i \in DOMAIN data : i <= j => "cut" \in stale_data[i]
       /\ \A i \in DOMAIN acks : "cut" \in stale_acks[i]

RoundTrips ==
  /\ Replies /\ NackIsLast /\ CutsFirst
  /\ \E b \in 0..Len(data) : PassedOver(b) /\ Stream(b)

RateInv ==
  /\ IInv /\ Rates /\ ControlOK /\ TagsKept
  /\ ~nacked_again => RoundTrips

LEMMA InitRateInv == RateInit => RateInv
<1> SUFFICES ASSUME RateInit PROVE RateInv
  OBVIOUS
<1>1. IInv /\ Rates /\ TagsKept
  BY InitIInv, InitRates, InitTags DEF RateInit
<1>2. ControlOK
  BY TransportSizes DEF RateInit, ControlOK
<1>3. data = <<>> /\ acks = <<>> /\ Len(data) = 0
  BY DEF RateInit, Init
<1>4. Replies /\ NackIsLast /\ CutsFirst
  BY <1>3 DEF Replies, NackIsLast, CutsFirst
<1>5. PassedOver(0) /\ Stream(0) /\ 0 \in 0..Len(data)
  BY <1>3 DEF PassedOver, Stream
<1> QED BY <1>1, <1>2, <1>4, <1>5 DEF RateInv, RoundTrips

LEMMA ExpectsChunkKept == expected' = expected => (ExpectsChunk' <=> ExpectsChunk)
  BY DEF ExpectsChunk, Acknowledged, StartOfChunk

(* What is said of the packets on their way holds of some of them in the   *)
(* same order: j of those that are left was From[j] before.                *)
Some(s, From, t) ==
  /\ From \in [DOMAIN t -> DOMAIN s]
  /\ \A i, j \in DOMAIN t : i < j => From[i] < From[j]
  /\ \A i \in DOMAIN t : t[i] = s[From[i]]

LEMMA StreamOfSome ==
  ASSUME NEW b, NEW c, NEW From, Stream(b),
         Some(data, From, data'), \A i \in DOMAIN data' : stale_data'[i] = stale_data[From[i]],
         \A i \in DOMAIN data' : i > c => From[i] > b,
         UNCHANGED <<snd_nxt, m_lastUpdateSeq, dctcp>>
  PROVE  Stream(c)'
<1> SUFFICES ASSUME NEW j \in DOMAIN data', j > c
             PROVE  /\ EndOf(data'[j]) <= snd_nxt
                    /\ \A i \in DOMAIN data' : c < i /\ i < j => EndOf(data'[i]) <= data'[j].seq
                    /\ "update" \in stale_data'[j] => EndOf(data'[j]) <= m_lastUpdateSeq
                    /\ "cut" \in stale_data'[j] => EndOf(data'[j]) <= dctcp.m_highSeq
  BY DEF Stream, EndOf
<1>1. From[j] \in DOMAIN data /\ From[j] > b /\ data'[j] = data[From[j]]
  BY DEF Some
<1>2. ASSUME NEW i \in DOMAIN data', c < i, i < j PROVE EndOf(data'[i]) <= data'[j].seq
  <2>1. From[i] \in DOMAIN data /\ b < From[i] /\ From[i] < From[j] /\ data'[i] = data[From[i]]
    BY <1>2 DEF Some
  <2> QED BY <1>1, <2>1 DEF Stream
<1> QED BY <1>1, <1>2 DEF Stream

LEMMA PassedOverOfSome ==
  ASSUME TagsKept', IInv', NEW b \in Nat, NEW c \in 0..Len(data'), NEW From, PassedOver(b),
         Some(data, From, data'), \A i \in DOMAIN data' : i <= c => From[i] <= b,
         \A i \in DOMAIN data' : From[i] \in Nat \ {0},
         c > 0 => UNCHANGED <<expected, nacked>>
  PROVE  PassedOver(c)'
<1>1. DOMAIN data' = 1..Len(data') /\ Len(data') \in Nat
  BY Typed, LenProperties DEF IInv, TypeOK
<1>2. ASSUME c > 0 PROVE expected' \in nacked' /\ ExpectsChunk'
  <2>1. 1 \in DOMAIN data' /\ From[1] <= b /\ From[1] \in Nat \ {0}
    BY <1>1, <1>2
  <2>2. b > 0
    BY <2>1
  <2> QED BY <1>2, <2>2, ExpectsChunkKept DEF PassedOver
<1>3. ASSUME NEW k \in 1..c PROVE data'[k].seq > expected'
  <2>1. k \in DOMAIN data' /\ From[k] \in 1..b /\ c > 0
    BY <1>1, <1>3
  <2> QED BY <1>3, <2>1 DEF PassedOver, Some
<1> QED BY <1>2, <1>3 DEF PassedOver

LEMMA RepliesOfSome ==
  ASSUME NEW From, Replies,
         Some(acks, From, acks'), \A i \in DOMAIN acks' : stale_acks'[i] = stale_acks[From[i]],
         UNCHANGED <<snd_nxt, m_lastUpdateSeq, dctcp>>
  PROVE  Replies'
  BY DEF Replies, Some

LEMMA NackOfSome ==
  ASSUME IInv, IInv', NackIsLast, NEW FromA, NEW FromD,
         Some(acks, FromA, acks'), Some(data, FromD, data'),
         UNCHANGED <<snd_nxt, expected, nacked>>
  PROVE  NackIsLast'
<1>1. /\ DOMAIN acks = 1..Len(acks) /\ Len(acks) \in Nat
      /\ DOMAIN acks' = 1..Len(acks') /\ Len(acks') \in Nat
  BY LenProperties DEF IInv, TypeOK
<1> SUFFICES ASSUME NEW k \in DOMAIN acks', acks'[k].nack
             PROVE  /\ k = Len(acks') /\ acks'[k].seq = expected
                    /\ expected \in nacked /\ ExpectsChunk /\ snd_nxt > expected
                    /\ \A j \in DOMAIN data' : data'[j].seq > expected
  BY ExpectsChunkKept DEF NackIsLast
<1>2. FromA[k] \in DOMAIN acks /\ acks[FromA[k]] = acks'[k]
  BY DEF Some
<1>3. FromA[k] = Len(acks)
  BY <1>2 DEF NackIsLast
<1>4. k = Len(acks')
  <2>1. SUFFICES ASSUME k # Len(acks') PROVE FALSE
    OBVIOUS
  <2>2. Len(acks') \in DOMAIN acks' /\ k < Len(acks')
    BY <1>1, <2>1
  <2>3. FromA[k] < FromA[Len(acks')] /\ FromA[Len(acks')] \in DOMAIN acks
    BY <2>2 DEF Some
  <2> QED BY <1>1, <1>3, <2>3
<1>5. \A j \in DOMAIN data' : data'[j].seq > expected
  BY <1>2 DEF NackIsLast, Some
<1> QED BY <1>2, <1>4, <1>5 DEF NackIsLast

LEMMA CutsOfSome ==
  ASSUME IInv, IInv', CutsFirst, NEW FromA, NEW FromD,
         Some(acks, FromA, acks'), \A i \in DOMAIN acks' : stale_acks'[i] = stale_acks[FromA[i]],
         Some(data, FromD, data'), \A i \in DOMAIN data' : stale_data'[i] = stale_data[FromD[i]],
         UNCHANGED dctcp
  PROVE  CutsFirst'
<1>1. /\ DOMAIN acks = 1..Len(acks) /\ DOMAIN acks' = 1..Len(acks')
      /\ DOMAIN data = 1..Len(data) /\ DOMAIN data' = 1..Len(data')
      /\ {Len(acks), Len(acks'), Len(data), Len(data')} \subseteq Nat
  BY LenProperties DEF IInv, TypeOK
<1>2. ASSUME NEW i \in DOMAIN acks', NEW j \in DOMAIN acks', i <= j
      PROVE  FromA[i] <= FromA[j]
  <2>1. FromA[i] \in Nat /\ (i < j => FromA[i] < FromA[j]) /\ FromA[j] \in Nat
    BY <1>1, <1>2 DEF Some
  <2>2. i = j \/ i < j
    BY <1>1, <1>2
  <2> QED BY <2>1, <2>2
<1>3. ASSUME NEW i \in DOMAIN data', NEW j \in DOMAIN data', i <= j
      PROVE  FromD[i] <= FromD[j]
  <2>1. FromD[i] \in Nat /\ (i < j => FromD[i] < FromD[j]) /\ FromD[j] \in Nat
    BY <1>1, <1>3 DEF Some
  <2>2. i = j \/ i < j
    BY <1>1, <1>3
  <2> QED BY <2>1, <2>2
<1> QED BY <1>2, <1>3 DEF CutsFirst, Some

LEMMA SomeSame ==
  ASSUME NEW S, NEW s \in Seq(S) PROVE Some(s, [i \in DOMAIN s |-> i], s)
  BY DEF Some

LEMMA SomeTail ==
  ASSUME NEW S, NEW s \in Seq(S), s # <<>>
  PROVE  Some(s, [i \in DOMAIN Tail(s) |-> i + 1], Tail(s))
<1>1. /\ Tail(s) \in Seq(S) /\ Len(Tail(s)) \in Nat /\ DOMAIN Tail(s) = 1..Len(Tail(s))
      /\ \A i \in DOMAIN Tail(s) : i + 1 \in DOMAIN s /\ Tail(s)[i] = s[i + 1]
  BY TailProperties, LenProperties
<1> QED BY <1>1 DEF Some

LEMMA SomeRemoved ==
  ASSUME NEW S, NEW s \in Seq(S), NEW k \in DOMAIN s
  PROVE  /\ Some(s, [i \in DOMAIN RemoveAt(s, k) |-> IF i < k THEN i ELSE i + 1], RemoveAt(s, k))
         /\ DOMAIN RemoveAt(s, k) = 1..(Len(s) - 1)
<1>1. /\ RemoveAt(s, k) \in Seq(S) /\ Len(RemoveAt(s, k)) = Len(s) - 1
      /\ \A i \in 1..(Len(s) - 1) : RemoveAt(s, k)[i] = IF i < k THEN s[i] ELSE s[i + 1]
  BY RemoveAtProperties
<1>2. /\ DOMAIN RemoveAt(s, k) = 1..(Len(s) - 1) /\ DOMAIN s = 1..Len(s) /\ Len(s) \in Nat
  BY <1>1, LenProperties
<1> DEFINE From == [i \in 1..(Len(s) - 1) |-> IF i < k THEN i ELSE i + 1]
<1>3. From \in [1..(Len(s) - 1) -> 1..Len(s)]
  BY <1>2
<1>4. \A i, j \in 1..(Len(s) - 1) : i < j => From[i] < From[j]
  BY <1>2
<1>5. \A i \in 1..(Len(s) - 1) : RemoveAt(s, k)[i] = s[From[i]]
  BY <1>1, <1>2
<1> QED BY <1>2, <1>3, <1>4, <1>5 DEF Some

-----------------------------------------------------------------------------
(* Each action keeps the round trips.                                      *)

LEMMA SendRoundTrips ==
  ASSUME IInv, IInv', ControlOK, TagsKept, TagsKept', RoundTrips, Send
  PROVE  RoundTrips'
<1> DEFINE size == Lesser(GetBytesLeft, m_mtu)
           p == [seq |-> snd_nxt, size |-> size]
<1>1. /\ data' = Append(data, p) /\ snd_nxt' = snd_nxt + size /\ stale_data' = Append(stale_data, {})
      /\ UNCHANGED <<acks, stale_acks, expected, nacked, m_lastUpdateSeq, dctcp>>
  BY DEF Send, SendPacket, receiver, control
<1>2. /\ snd_nxt \in Nat /\ m_size \in Nat /\ m_mtu \in Nat /\ size \in 1..m_mtu
      /\ expected \in Nat
  <2>1. GetBytesLeft > 0 /\ snd_nxt \in Nat /\ m_size \in Nat /\ expected \in Nat
    BY Typed DEF Send, SendPacket
  <2> QED BY <2>1, TransportSizes DEF GetBytesLeft, Lesser
<1> HIDE DEF size
<1>3. p \in DataPacket /\ p.seq = snd_nxt /\ EndOf(p) = snd_nxt'
  <2>1. snd_nxt \in 0..m_size
    BY DEF IInv, TypeOK
  <2> QED BY <1>1, <1>2, <2>1 DEF DataPacket, EndOf
<1> HIDE DEF p
<1>4. \A k \in DOMAIN data' : \/ k \in DOMAIN data /\ data'[k] = data[k] /\ stale_data'[k] = stale_data[k]
                              \/ k = Len(data) + 1 /\ data'[k] = p /\ stale_data'[k] = {}
  <2>1. {} \in Tags
    BY DEF Tags
  <2>2. \A k \in DOMAIN data' : \/ k \in DOMAIN data /\ data'[k] = data[k]
                                \/ k = Len(data) + 1 /\ data'[k] = p
    BY <1>1, <1>3, TagsTyped, AppendedProperties
  <2>3. \A k \in DOMAIN stale_data' : \/ k \in DOMAIN stale_data /\ stale_data'[k] = stale_data[k]
                                      \/ k = Len(stale_data) + 1 /\ stale_data'[k] = {}
    BY <1>1, <2>1, TagsTyped, AppendedProperties
  <2>4. DOMAIN stale_data' = DOMAIN data'
    BY LenProperties DEF TagsKept, IInv, TypeOK
  <2> QED BY <2>2, <2>3, <2>4, TagsTyped
<1>5. Len(data') = Len(data) + 1 /\ Len(data) \in Nat /\ DOMAIN data = 1..Len(data)
  BY <1>1, <1>3, TagsTyped, AppendedProperties
<1>6. Replies'
  <2>1. \A k \in DOMAIN acks : acks[k].seq \in Nat
    BY Typed
  <2> QED BY <1>1, <1>2, <2>1 DEF RoundTrips, Replies
<1>7. NackIsLast'
  <2> SUFFICES ASSUME NEW k \in DOMAIN acks, acks[k].nack
               PROVE  /\ k = Len(acks) /\ acks[k].seq = expected
                      /\ expected \in nacked /\ ExpectsChunk /\ snd_nxt' > expected
                      /\ \A j \in DOMAIN data' : data'[j].seq > expected
    BY <1>1, ExpectsChunkKept DEF NackIsLast
  <2>1. /\ k = Len(acks) /\ acks[k].seq = expected
        /\ expected \in nacked /\ ExpectsChunk /\ snd_nxt > expected
        /\ \A j \in DOMAIN data : data[j].seq > expected
    BY DEF RoundTrips, NackIsLast
  <2>2. \A j \in DOMAIN data' : data'[j].seq > expected
    BY <1>3, <1>4, <2>1
  <2> QED BY <1>1, <1>2, <2>1, <2>2
<1>8. CutsFirst'
  <2>1. ASSUME NEW j \in DOMAIN data', "cut" \in stale_data'[j]
        PROVE  /\ dctcp.m_caState = 1
               /\ \A i \in DOMAIN data' : i <= j => "cut" \in stale_data'[i]
               /\ \A i \in DOMAIN acks : "cut" \in stale_acks[i]
    <3>1. j \in DOMAIN data /\ "cut" \in stale_data[j]
      BY <1>4, <2>1
    <3>2. \A i \in DOMAIN data' : i <= j =>
            i \in DOMAIN data /\ stale_data'[i] = stale_data[i]
      BY <1>4, <1>5, <3>1
    <3> QED BY <3>1, <3>2 DEF RoundTrips, CutsFirst
  <2> QED BY <1>1, <2>1 DEF RoundTrips, CutsFirst
<1>9. PICK b \in 0..Len(data) : PassedOver(b) /\ Stream(b)
  BY DEF RoundTrips
<1>10. PassedOver(b)'
  <2>1. \A k \in 1..b : k \in DOMAIN data /\ k \in DOMAIN data' /\ data'[k] = data[k]
    <3>1. DOMAIN data' = 1..Len(data')
      BY LenProperties DEF IInv, TypeOK
    <3> QED BY <1>4, <1>5, <1>9, <3>1
  <2> QED BY <1>1, <1>9, <2>1, ExpectsChunkKept DEF PassedOver
<1>11. Stream(b)'
  <2>1. \A k \in DOMAIN data : EndOf(data[k]) \in Nat
    BY Typed DEF EndOf
  <2> SUFFICES ASSUME NEW j \in DOMAIN data', j > b
               PROVE  /\ EndOf(data'[j]) <= snd_nxt'
                      /\ \A i \in DOMAIN data' : b < i /\ i < j => EndOf(data'[i]) <= data'[j].seq
                      /\ "update" \in stale_data'[j] => EndOf(data'[j]) <= m_lastUpdateSeq
                      /\ "cut" \in stale_data'[j] => EndOf(data'[j]) <= dctcp.m_highSeq
    BY <1>1 DEF Stream, EndOf
  <2>2. CASE j \in DOMAIN data /\ data'[j] = data[j] /\ stale_data'[j] = stale_data[j]
    <3>1. EndOf(data[j]) <= snd_nxt /\ EndOf(data[j]) \in Nat
      BY <1>9, <2>1, <2>2 DEF Stream
    <3>2. EndOf(data'[j]) <= snd_nxt'
      BY <1>1, <1>2, <2>2, <3>1
    <3>3. \A i \in DOMAIN data' : i < j => i \in DOMAIN data /\ data'[i] = data[i]
      BY <1>4, <1>5, <2>2
    <3> QED BY <1>9, <2>2, <3>2, <3>3 DEF Stream
  <2>3. CASE j = Len(data) + 1 /\ data'[j] = p /\ stale_data'[j] = {}
    <3>1. \A i \in DOMAIN data' : i < j => i \in DOMAIN data /\ data'[i] = data[i]
      BY <1>4, <2>3
    <3>2. snd_nxt' \in Nat
      BY <1>1, <1>2
    <3> QED BY <1>3, <1>9, <2>3, <3>1, <3>2 DEF Stream
  <2> QED BY <1>4, <2>2, <2>3
<1> QED BY <1>5, <1>6, <1>7, <1>8, <1>9, <1>10, <1>11 DEF RoundTrips

LEMMA LoseRoundTrips ==
  ASSUME IInv, IInv', ControlOK, TagsKept, TagsKept', RoundTrips, Lose
  PROVE  RoundTrips'
<1>1. UNCHANGED <<snd_nxt, expected, nacked, m_lastUpdateSeq, dctcp>>
  BY DEF Lose, LoseData, LoseAck, sender, receiver, control
<1>2. PICK b \in 0..Len(data) : PassedOver(b) /\ Stream(b)
  BY DEF RoundTrips
<1>3. b \in Nat /\ DOMAIN data = 1..Len(data) /\ Len(data) \in Nat
  BY TagsTyped
<1>4. CASE LoseData
  <2>1. PICK k \in DOMAIN data : data' = RemoveAt(data, k) /\ stale_data' = RemoveAt(stale_data, k)
    BY <1>4, LostData
  <2> DEFINE FromD == [i \in DOMAIN data' |-> IF i < k THEN i ELSE i + 1]
             FromA == [i \in DOMAIN acks |-> i]
             c == IF k <= b THEN b - 1 ELSE b
  <2>2. Some(data, FromD, data') /\ DOMAIN data' = 1..(Len(data) - 1)
    BY <2>1, TagsTyped, SomeRemoved
  <2>3. \A i \in DOMAIN data' : stale_data'[i] = stale_data[FromD[i]]
    <3>1. k \in DOMAIN stale_data
      BY TagsTyped
    <3>2. \A i \in 1..(Len(data) - 1) : stale_data'[i] = IF i < k THEN stale_data[i] ELSE stale_data[i + 1]
      BY <2>1, <3>1, TagsTyped, RemoveAtProperties
    <3> QED BY <2>2, <3>2
  <2>4. UNCHANGED <<acks, stale_acks>>
    BY <1>4, LostData
  <2>5. Some(acks, FromA, acks') /\ \A i \in DOMAIN acks' : stale_acks'[i] = stale_acks[FromA[i]]
    BY <2>4, TagsTyped, SomeSame
  <2>6. c \in 0..Len(data') /\ \A i \in DOMAIN data' : (i <= c <=> FromD[i] <= b) /\ FromD[i] \in Nat \ {0}
    <3>1. Len(data') = Len(data) - 1
      BY <2>1, TagsTyped, RemoveAtProperties, ZenonT(40)
    <3> QED BY <1>2, <1>3, <2>1, <2>2, <3>1
  <2>7. \A i \in DOMAIN data' : i > c => FromD[i] > b
    BY <1>3, <2>2, <2>6
  <2> HIDE DEF FromD, FromA, c
  <2>8. Stream(c)'
    BY <1>1, <1>2, <2>2, <2>3, <2>7, StreamOfSome
  <2>9. PassedOver(c)'
    BY <1>1, <1>2, <1>3, <2>2, <2>6, PassedOverOfSome
  <2>10. Replies' /\ NackIsLast' /\ CutsFirst'
    BY <1>1, <2>2, <2>3, <2>5, RepliesOfSome, NackOfSome, CutsOfSome DEF RoundTrips
  <2> QED BY <2>6, <2>8, <2>9, <2>10 DEF RoundTrips
<1>5. CASE LoseAck
  <2>1. PICK k \in DOMAIN acks : acks' = RemoveAt(acks, k) /\ stale_acks' = RemoveAt(stale_acks, k)
    BY <1>5, LostAck
  <2> DEFINE FromA == [i \in DOMAIN acks' |-> IF i < k THEN i ELSE i + 1]
             FromD == [i \in DOMAIN data |-> i]
  <2>2. Some(acks, FromA, acks') /\ DOMAIN acks' = 1..(Len(acks) - 1)
    BY <2>1, TagsTyped, SomeRemoved
  <2>3. \A i \in DOMAIN acks' : stale_acks'[i] = stale_acks[FromA[i]]
    <3>1. k \in DOMAIN stale_acks
      BY TagsTyped
    <3>2. \A i \in 1..(Len(acks) - 1) : stale_acks'[i] = IF i < k THEN stale_acks[i] ELSE stale_acks[i + 1]
      BY <2>1, <3>1, TagsTyped, RemoveAtProperties
    <3> QED BY <2>2, <3>2
  <2>4. UNCHANGED <<data, stale_data>>
    BY <1>5, LostAck
  <2>5. Some(data, FromD, data') /\ \A i \in DOMAIN data' : stale_data'[i] = stale_data[FromD[i]]
    BY <2>4, TagsTyped, SomeSame
  <2> HIDE DEF FromD, FromA
  <2>6. Replies' /\ NackIsLast' /\ CutsFirst'
    BY <1>1, <2>2, <2>3, <2>5, RepliesOfSome, NackOfSome, CutsOfSome DEF RoundTrips
  <2>7. PassedOver(b)' /\ Stream(b)'
    BY <1>1, <1>2, <2>4, ExpectsChunkKept DEF PassedOver, Stream, EndOf
  <2> QED BY <1>2, <2>4, <2>6, <2>7 DEF RoundTrips
<1> QED BY <1>4, <1>5 DEF Lose

(* A reply to the first packet of the stream: it is the first reply that   *)
(* is younger than all before it. *)
LEMMA ReplyRoundTrips ==
  ASSUME IInv, IInv', ControlOK, TagsKept, TagsKept', RoundTrips, Receive,
         NEW nack \in BOOLEAN, acks' = Append(acks, Reply(nack, expected')),
         PassedOver(0), Stream(0), expected' <= EndOf(data[1]),
         \A k \in DOMAIN acks : ~acks[k].nack,
         nack => /\ expected' \in nacked' /\ ExpectsChunk' /\ snd_nxt > expected'
                 /\ \A j \in DOMAIN data : j > 1 => data[j].seq > expected'
  PROVE  RoundTrips'
<1> DEFINE r == Reply(nack, expected')
           FromD == [i \in DOMAIN data' |-> i + 1]
<1>1. /\ data # <<>> /\ data' = Tail(data) /\ stale_data' = Tail(stale_data)
      /\ UNCHANGED <<snd_nxt, m_lastUpdateSeq, dctcp>>
  BY DEF Receive, ReceiveUdp, sender, control
<1>2. expected' \in 0..m_size /\ expected' \in Nat
  BY TransportSizes DEF IInv, TypeOK
<1>3. stale_data # <<>>
  BY <1>1, TagsTyped, EmptySeq
<1>4. Some(data, FromD, data')
  BY <1>1, TagsTyped, SomeTail
<1>5. \A i \in DOMAIN data' : stale_data'[i] = stale_data[FromD[i]]
  <2>1. DOMAIN data' = DOMAIN stale_data'
    BY LenProperties DEF TagsKept, IInv, TypeOK
  <2>2. \A i \in DOMAIN stale_data' : stale_data'[i] = stale_data[i + 1]
    BY <1>1, <1>3, TagsTyped, TailProperties
  <2> QED BY <2>1, <2>2
<1>6. DOMAIN data' = 1..Len(data') /\ Len(data') \in Nat
  BY LenProperties DEF IInv, TypeOK
<1>7. /\ r \in AckPacket /\ r.nack = nack /\ r.seq = expected'
  BY <1>2 DEF Reply, AckPacket
<1> HIDE DEF r
<1>8. acks' = Append(acks, r)
  BY DEF r
<1>9. 1 \in DOMAIN data /\ stale_data[1] \in Tags
  BY <1>1, <1>3, TagsTyped, TailProperties
<1>10. stale_acks' = Append(stale_acks, stale_data[1])
  BY <1>2, Replied
<1>11. \A k \in DOMAIN acks' : \/ k \in DOMAIN acks /\ acks'[k] = acks[k] /\ stale_acks'[k] = stale_acks[k]
                               \/ k = Len(acks) + 1 /\ acks'[k] = r /\ stale_acks'[k] = stale_data[1]
  <2>1. \A k \in DOMAIN acks' : \/ k \in DOMAIN acks /\ acks'[k] = acks[k]
                                \/ k = Len(acks) + 1 /\ acks'[k] = r
    BY <1>7, <1>8, TagsTyped, AppendedProperties
  <2>2. \A k \in DOMAIN stale_acks' : \/ k \in DOMAIN stale_acks /\ stale_acks'[k] = stale_acks[k]
                                      \/ k = Len(stale_acks) + 1 /\ stale_acks'[k] = stale_data[1]
    BY <1>9, <1>10, TagsTyped, AppendedProperties
  <2>3. DOMAIN stale_acks' = DOMAIN acks'
    BY LenProperties DEF TagsKept, IInv, TypeOK
  <2> QED BY <2>1, <2>2, <2>3, TagsTyped
<1>12. Len(acks') = Len(acks) + 1 /\ Len(acks) \in Nat /\ DOMAIN acks = 1..Len(acks)
  BY <1>7, <1>8, TagsTyped, AppendedProperties
<1>13. \A i \in DOMAIN data' : FromD[i] > 1 /\ FromD[i] > 0 /\ FromD[i] \in DOMAIN data /\ data'[i] = data[FromD[i]]
  BY <1>4, <1>6 DEF Some
<1> HIDE DEF FromD
<1>14. Replies'
  <2>1. EndOf(data[1]) \in Nat /\ snd_nxt \in Nat /\ m_lastUpdateSeq \in Nat /\ dctcp.m_highSeq \in Nat
    BY <1>9, Typed, TransportSizes, SMTT(40) DEF EndOf, ControlOK
  <2>2. /\ EndOf(data[1]) <= snd_nxt
        /\ "update" \in stale_data[1] => EndOf(data[1]) <= m_lastUpdateSeq
        /\ "cut" \in stale_data[1] => EndOf(data[1]) <= dctcp.m_highSeq
    BY <1>9 DEF Stream
  <2>3. /\ expected' <= snd_nxt
        /\ "update" \in stale_data[1] => expected' <= m_lastUpdateSeq
        /\ "cut" \in stale_data[1] => expected' <= dctcp.m_highSeq
    BY <1>2, <2>1, <2>2
  <2> QED BY <1>1, <1>7, <1>11, <2>3 DEF RoundTrips, Replies
<1>15. NackIsLast'
  <2> SUFFICES ASSUME NEW k \in DOMAIN acks', acks'[k].nack
               PROVE  /\ k = Len(acks') /\ acks'[k].seq = expected'
                      /\ expected' \in nacked' /\ ExpectsChunk' /\ snd_nxt > expected'
                      /\ \A j \in DOMAIN data' : data'[j].seq > expected'
    BY <1>1 DEF NackIsLast
  <2>1. k = Len(acks) + 1 /\ acks'[k] = r /\ nack
    BY <1>7, <1>11
  <2>2. \A j \in DOMAIN data' : data'[j].seq > expected'
    BY <1>13, <2>1
  <2> QED BY <1>7, <1>12, <2>1, <2>2
<1>16. CutsFirst'
  <2>1. \A j \in DOMAIN acks' : "cut" \in stale_acks'[j] =>
          dctcp.m_caState = 1 /\ \A i \in DOMAIN acks' : i <= j => "cut" \in stale_acks'[i]
    <3>1. "cut" \in stale_data[1] =>
            dctcp.m_caState = 1 /\ \A i \in DOMAIN acks : "cut" \in stale_acks[i]
      BY <1>9 DEF RoundTrips, CutsFirst
    <3> QED BY <1>11, <1>12, <3>1 DEF RoundTrips, CutsFirst
  <2>2. ASSUME NEW j \in DOMAIN data', "cut" \in stale_data'[j]
        PROVE  /\ dctcp.m_caState = 1
               /\ \A i \in DOMAIN data' : i <= j => "cut" \in stale_data'[i]
               /\ \A i \in DOMAIN acks' : "cut" \in stale_acks'[i]
    <3>1. "cut" \in stale_data[FromD[j]] /\ FromD[j] \in DOMAIN data /\ 1 <= FromD[j]
      BY <1>5, <1>13, <2>2, TagsTyped
    <3>2. /\ dctcp.m_caState = 1 /\ "cut" \in stale_data[1]
          /\ \A i \in DOMAIN acks : "cut" \in stale_acks[i]
          /\ \A i \in DOMAIN data : i <= FromD[j] => "cut" \in stale_data[i]
      BY <1>9, <3>1 DEF RoundTrips, CutsFirst
    <3>3. \A i \in DOMAIN data' : i <= j => FromD[i] <= FromD[j]
      BY <1>6 DEF FromD
    <3> QED BY <1>5, <1>11, <1>13, <3>2, <3>3
  <2> QED BY <1>1, <2>1, <2>2 DEF CutsFirst
<1>17. PassedOver(0)' /\ Stream(0)'
  <2>1. Stream(0)'
    BY <1>1, <1>4, <1>5, <1>13, StreamOfSome
  <2> QED BY <2>1 DEF PassedOver
<1> QED BY <1>6, <1>14, <1>15, <1>16, <1>17 DEF RoundTrips

LEMMA ReceiveRoundTrips ==
  ASSUME IInv, IInv', ControlOK, TagsKept, TagsKept', RoundTrips, Receive, ~nacked_again'
  PROVE  RoundTrips'
<1> DEFINE p == Head(data)
           FromD == [i \in DOMAIN data' |-> i + 1]
           FromA == [i \in DOMAIN acks |-> i]
<1>1. /\ data # <<>> /\ data' = Tail(data) /\ stale_data' = Tail(stale_data)
      /\ UNCHANGED <<snd_nxt, m_lastUpdateSeq, dctcp>>
      /\ AcceptInOrder(p) \/ RejectGap(p) \/ IgnoreDuplicate(p)
  BY DEF Receive, ReceiveUdp, sender, control
<1>2. p = data[1] /\ 1 \in DOMAIN data /\ Len(data') = Len(data) - 1
  BY <1>1, TagsTyped, TailProperties
<1>3. Some(data, FromD, data')
  BY <1>1, TagsTyped, SomeTail
<1>4. \A i \in DOMAIN data' : stale_data'[i] = stale_data[FromD[i]]
  <2>1. DOMAIN data' = DOMAIN stale_data' /\ stale_data # <<>>
    BY <1>1, TagsTyped, EmptySeq, LenProperties DEF TagsKept, IInv, TypeOK
  <2>2. \A i \in DOMAIN stale_data' : stale_data'[i] = stale_data[i + 1]
    BY <1>1, <2>1, TagsTyped, TailProperties
  <2> QED BY <2>1, <2>2
<1>5. DOMAIN data' = 1..Len(data') /\ Len(data') \in Nat /\ Len(data) \in Nat
  BY TagsTyped, LenProperties DEF IInv, TypeOK
<1>6. PICK b \in 0..Len(data) : PassedOver(b) /\ Stream(b)
  BY DEF RoundTrips
<1>7. /\ p.seq \in Nat /\ p.size \in Nat /\ p.size > 0 /\ EndOf(p) = p.seq + p.size
      /\ expected \in Nat /\ snd_nxt \in Nat /\ b \in Nat
  BY <1>2, <1>5, <1>6, Typed DEF EndOf
<1>8. ASSUME acks' = acks,
             \/ UNCHANGED expected
             \/ b = 0 /\ \A k \in DOMAIN acks : ~acks[k].nack
      PROVE  RoundTrips'
  <2>1. UNCHANGED <<stale_acks, nacked>>
    BY <1>8, Silent
  <2>2. Some(acks, FromA, acks') /\ \A i \in DOMAIN acks' : stale_acks'[i] = stale_acks[FromA[i]]
    BY <1>8, <2>1, TagsTyped, SomeSame
  <2> DEFINE c == IF b > 0 THEN b - 1 ELSE 0
  <2>3. /\ c \in 0..Len(data') /\ (c > 0 => b > 0)
        /\ \A i \in DOMAIN data' : (i <= c => FromD[i] <= b) /\ (i > c => FromD[i] > b) /\ FromD[i] \in Nat \ {0}
    BY <1>2, <1>5, <1>6, <1>7, SMTT(40)
  <2> HIDE DEF FromD, FromA, c
  <2>4. Stream(c)'
    BY <1>1, <1>3, <1>4, <1>6, <2>3, StreamOfSome
  <2>5. PassedOver(c)'
    <3>1. c > 0 => UNCHANGED <<expected, nacked>>
      BY <1>7, <1>8, <2>1, <2>3
    <3>2. \A i \in DOMAIN data' : i <= c => FromD[i] <= b
      BY <2>3
    <3>3. \A i \in DOMAIN data' : FromD[i] \in Nat \ {0}
      BY <2>3
    <3>4. c \in 0..Len(data') /\ b \in Nat /\ PassedOver(b)
      BY <1>6, <1>7, <2>3
    <3>5. CASE c > 0
      BY <1>3, <3>1, <3>2, <3>3, <3>4, <3>5, PassedOverOfSome
    <3>6. CASE c = 0
      BY <3>6 DEF PassedOver
    <3> QED BY <3>4, <3>5, <3>6
  <2>6. Replies' /\ CutsFirst'
    <3>1. UNCHANGED <<snd_nxt, m_lastUpdateSeq, dctcp>> /\ Replies /\ CutsFirst
      BY <1>1 DEF RoundTrips
    <3>2. Replies'
      BY <2>2, <3>1, RepliesOfSome
    <3>3. CutsFirst'
      BY <1>3, <1>4, <2>2, <3>1, CutsOfSome
    <3> QED BY <3>2, <3>3
  <2>7. NackIsLast'
    <3>1. CASE UNCHANGED expected
      BY <1>1, <1>3, <2>1, <2>2, <3>1, NackOfSome DEF RoundTrips
    <3>2. CASE \A k \in DOMAIN acks : ~acks[k].nack
      BY <1>8, <3>2 DEF NackIsLast
    <3> QED BY <1>8, <3>1, <3>2
  <2> QED BY <2>3, <2>4, <2>5, <2>6, <2>7 DEF RoundTrips
<1> HIDE DEF p
<1>9. CASE AcceptInOrder(p)
  <2>1. p.seq = expected /\ expected' = EndOf(p) /\ expected' \in Nat
    BY <1>7, <1>9 DEF AcceptInOrder
  <2>2. b = 0
    <3>1. SUFFICES ASSUME b # 0 PROVE FALSE
      OBVIOUS
    <3>2. 1 \in 1..b
      BY <1>7, <3>1
    <3> QED BY <1>2, <1>6, <1>7, <2>1, <3>2 DEF PassedOver
  <2>3. \A k \in DOMAIN acks : ~acks[k].nack
    BY <1>2, <1>7, <2>1, SMTT(40) DEF RoundTrips, NackIsLast
  <2>4. CASE acks' = acks
    BY <1>8, <2>2, <2>3, <2>4
  <2>5. CASE acks' # acks
    <3>1. acks' = Append(acks, Reply(FALSE, expected'))
      BY <1>9, <2>5 DEF AcceptInOrder
    <3>2. expected' <= EndOf(data[1])
      BY <1>2, <2>1
    <3> QED BY <1>6, <2>2, <2>3, <3>1, <3>2, ReplyRoundTrips
  <2> QED BY <2>4, <2>5
<1>10. CASE RejectGap(p)
  <2>1. CASE UNCHANGED <<receiver, acks>>
    BY <1>8, <2>1 DEF receiver
  <2>2. CASE ~UNCHANGED <<receiver, acks>>
    <3>1. /\ p.seq > expected /\ expected' = Acknowledged(expected)
          /\ acks' = Append(acks, Reply(TRUE, expected'))
      BY <1>10, <2>2 DEF RejectGap, Acknowledged
    <3>2. expected' \in Nat /\ expected' <= expected /\ Acknowledged(expected') = expected'
      BY <1>7, <3>1, AcknowledgedProperties
    <3>3. expected' \in nacked' /\ expected' \notin nacked
      <4>1. expected' \in 0..m_size
        BY DEF IInv, TypeOK
      <4>2. TRUE \in BOOLEAN
        OBVIOUS
      <4>3. nacked' = nacked \cup {expected'} /\ nacked_again' = (nacked_again \/ expected' \in nacked)
        BY <3>1, <4>1, <4>2, Replied
      <4> QED BY <4>3
    <3>4. ~(expected \in nacked /\ ExpectsChunk)
      BY <3>1, <3>3 DEF ExpectsChunk
    <3>5. b = 0
      BY <1>6, <1>7, <3>4 DEF PassedOver
    <3>6. \A k \in DOMAIN acks : ~acks[k].nack
      BY <3>4 DEF RoundTrips, NackIsLast
    <3>7. ExpectsChunk'
      BY <3>2 DEF ExpectsChunk, Acknowledged, StartOfChunk
    <3>8. EndOf(p) <= snd_nxt /\ expected' <= EndOf(p) /\ snd_nxt > expected'
      <4>1. EndOf(p) <= snd_nxt
        BY <1>2, <1>6, <3>5 DEF Stream
      <4> QED BY <1>7, <3>1, <3>2, <4>1, SMTT(40)
    <3>9. ASSUME NEW j \in DOMAIN data, j > 1 PROVE data[j].seq > expected'
      <4>1. EndOf(p) <= data[j].seq
        BY <1>2, <1>6, <3>5, <3>9 DEF Stream
      <4>2. data[j].seq \in Nat
        BY Typed
      <4> QED BY <1>7, <3>1, <3>2, <4>1, <4>2, SMTT(40)
    <3> QED BY <1>2, <1>6, <3>1, <3>3, <3>5, <3>6, <3>7, <3>8, <3>9, ReplyRoundTrips
  <2> QED BY <2>1, <2>2
<1>11. CASE IgnoreDuplicate(p)
  BY <1>8, <1>11 DEF IgnoreDuplicate, receiver
<1> QED BY <1>1, <1>9, <1>10, <1>11 DEF p

LEMMA AckRoundTrips ==
  ASSUME IInv, IInv', ControlOK, TagsKept, TagsKept', RoundTrips, ReceiveAckAndControl
  PROVE  RoundTrips'
<1> DEFINE a == Head(acks)
<1>1. ControlStep(a.seq)
  BY AckControls
<1>2. a = acks[1] /\ 1 \in DOMAIN acks /\ a.seq \in Nat /\ a.nack \in BOOLEAN
  BY AckTaken, Typed
<1> HIDE DEF a
<1>3. /\ snd_nxt \in Nat /\ snd_nxt' \in Nat /\ m_lastUpdateSeq \in Nat /\ m_lastUpdateSeq' \in Nat
      /\ dctcp.m_highSeq \in Nat /\ dctcp'.m_highSeq \in Nat /\ expected \in Nat
  BY <1>1, TransportSizes DEF ControlStep, ControlOK, IInv, TypeOK
<1>4. PICK b \in 0..Len(data) : PassedOver(b) /\ Stream(b)
  BY DEF RoundTrips
<1>5. /\ DOMAIN data = 1..Len(data) /\ Len(data) \in Nat
      /\ DOMAIN acks = 1..Len(acks) /\ Len(acks) \in Nat /\ Len(acks') = Len(acks) - 1
      /\ DOMAIN acks' = 1..Len(acks')
  BY TagsTyped, AckTaken, LenProperties, ZenonT(40) DEF IInv, TypeOK
<1>6. "cut" \notin reaction' =>
        /\ \A k \in DOMAIN acks : "cut" \in stale_acks[k] => dctcp'.m_caState = 1
        /\ \A k \in DOMAIN data : "cut" \in stale_data[k] => dctcp'.m_caState = 1
  <2>1. "cut" \in stale_acks[1] => OpenWindow(a.seq)
    BY <1>2 DEF RoundTrips, Replies, CutsFirst, OpenWindow
  <2>2. \A k \in DOMAIN acks : "cut" \in stale_acks[k] => "cut" \in stale_acks[1]
    BY <1>2, <1>5 DEF RoundTrips, CutsFirst
  <2>3. \A k \in DOMAIN data : "cut" \in stale_data[k] => "cut" \in stale_acks[1]
    BY <1>2 DEF RoundTrips, CutsFirst
  <2> QED BY <1>1, <2>1, <2>2, <2>3 DEF ControlStep
<1>7. CutsFirst'
  <2>1. CASE "cut" \in reaction'
    BY <1>1, <2>1, AckTaken DEF ControlStep, CutsFirst
  <2>2. CASE "cut" \notin reaction'
    <3>1. \A k \in DOMAIN acks' : "cut" \in stale_acks'[k] <=> "cut" \in stale_acks[k + 1]
      BY <2>2, AckTaken
    <3>2. \A k \in DOMAIN data : "cut" \in stale_data'[k] <=> "cut" \in stale_data[k]
      BY <2>2, AckTaken
    <3>3. \A k \in DOMAIN acks' : k + 1 \in DOMAIN acks
      BY AckTaken
    <3>4. \A j \in DOMAIN acks' : "cut" \in stale_acks'[j] =>
            dctcp'.m_caState = 1 /\ \A i \in DOMAIN acks' : i <= j => "cut" \in stale_acks'[i]
      <4>1. \A i, j \in DOMAIN acks' : i <= j => i + 1 <= j + 1
        BY <1>5
      <4> QED BY <1>6, <2>2, <3>1, <3>3, <4>1 DEF RoundTrips, CutsFirst
    <3>5. \A j \in DOMAIN data : "cut" \in stale_data'[j] =>
            /\ dctcp'.m_caState = 1
            /\ \A i \in DOMAIN data : i <= j => "cut" \in stale_data'[i]
            /\ \A i \in DOMAIN acks' : "cut" \in stale_acks'[i]
      BY <1>6, <2>2, <3>1, <3>2, <3>3 DEF RoundTrips, CutsFirst
    <3> QED BY <3>4, <3>5, AckTaken DEF CutsFirst
  <2> QED BY <2>1, <2>2
<1>8. CASE a.nack
  <2>1. /\ Len(acks) = 1 /\ expected \in nacked /\ ExpectsChunk
        /\ \A j \in DOMAIN data : data[j].seq > expected
    BY <1>2, <1>8 DEF RoundTrips, NackIsLast
  <2>2. DOMAIN acks' = {}
    BY <1>5, <2>1
  <2>3. Replies' /\ NackIsLast'
    BY <2>2 DEF Replies, NackIsLast
  <2>4. PassedOver(Len(data))'
    BY <1>5, <2>1, AckTaken, ExpectsChunkKept DEF PassedOver
  <2>5. \A j \in DOMAIN data : ~(j > Len(data))
    BY <1>5
  <2>6. \E c \in 0..Len(data') : PassedOver(c)' /\ Stream(c)'
    <3>1. Stream(Len(data))'
      BY <2>5, AckTaken DEF Stream
    <3> QED BY <1>5, <2>4, <3>1, AckTaken
  <2> QED BY <1>7, <2>3, <2>6 DEF RoundTrips
<1>9. CASE ~a.nack
  <2>1. snd_nxt' = snd_nxt
    BY <1>9 DEF ReceiveAckAndControl, ReceiveAck, a
  <2>2. ASSUME NEW n \in Nat, NEW tags, NEW tags2, tags2 = tags \cup (reaction' \ {"fast"}),
               n <= snd_nxt, "update" \in tags => n <= m_lastUpdateSeq,
               "cut" \in tags => n <= dctcp.m_highSeq
        PROVE  /\ n <= snd_nxt'
               /\ "update" \in tags2 => n <= m_lastUpdateSeq'
               /\ "cut" \in tags2 => n <= dctcp'.m_highSeq
    <3>1. CASE "update" \in reaction'
      <4>1. n <= m_lastUpdateSeq'
        BY <1>1, <1>3, <2>1, <2>2, <3>1 DEF ControlStep
      <4>2. "cut" \in tags2 => n <= dctcp'.m_highSeq
        BY <1>1, <1>3, <2>1, <2>2 DEF ControlStep
      <4> QED BY <2>1, <2>2, <4>1, <4>2
    <3>2. CASE "update" \notin reaction'
      <4>1. "update" \in tags2 => n <= m_lastUpdateSeq'
        BY <1>1, <1>3, <2>2, <3>2 DEF ControlStep
      <4>2. "cut" \in tags2 => n <= dctcp'.m_highSeq
        BY <1>1, <1>3, <2>1, <2>2 DEF ControlStep
      <4> QED BY <2>1, <2>2, <4>1, <4>2
    <3> QED BY <3>1, <3>2
  <2>3. Replies'
    <3>1. ASSUME NEW k \in DOMAIN acks'
          PROVE  /\ acks'[k].seq <= snd_nxt'
                 /\ "update" \in stale_acks'[k] => acks'[k].seq <= m_lastUpdateSeq'
                 /\ "cut" \in stale_acks'[k] => acks'[k].seq <= dctcp'.m_highSeq
      <4>1. /\ k + 1 \in DOMAIN acks /\ acks'[k] = acks[k + 1]
            /\ stale_acks'[k] = stale_acks[k + 1] \cup (reaction' \ {"fast"})
        BY AckTaken
      <4>2. acks[k + 1].seq \in Nat
        BY <4>1, Typed
      <4> QED BY <2>2, <4>1, <4>2 DEF RoundTrips, Replies
    <3> QED BY <3>1 DEF Replies
  <2>4. NackIsLast'
    <3> SUFFICES ASSUME NEW k \in DOMAIN acks', acks'[k].nack
                 PROVE  /\ k = Len(acks') /\ acks'[k].seq = expected
                        /\ expected \in nacked /\ ExpectsChunk /\ snd_nxt > expected
                        /\ \A j \in DOMAIN data : data[j].seq > expected
      BY <2>1, AckTaken, ExpectsChunkKept DEF NackIsLast
    <3>1. k + 1 \in DOMAIN acks /\ acks'[k] = acks[k + 1]
      BY AckTaken
    <3>2. k + 1 = Len(acks)
      BY <3>1 DEF RoundTrips, NackIsLast
    <3>3. k = Len(acks')
      BY <1>5, <3>2
    <3> QED BY <3>1, <3>3 DEF RoundTrips, NackIsLast
  <2>5. PassedOver(b)'
    BY <1>4, AckTaken, ExpectsChunkKept DEF PassedOver
  <2>6. Stream(b)'
    <3> SUFFICES ASSUME NEW j \in DOMAIN data, j > b
                 PROVE  /\ EndOf(data[j]) <= snd_nxt'
                        /\ \A i \in DOMAIN data : b < i /\ i < j => EndOf(data[i]) <= data[j].seq
                        /\ "update" \in stale_data'[j] => EndOf(data[j]) <= m_lastUpdateSeq'
                        /\ "cut" \in stale_data'[j] => EndOf(data[j]) <= dctcp'.m_highSeq
      BY AckTaken DEF Stream, EndOf
    <3>1. EndOf(data[j]) \in Nat /\ stale_data'[j] = stale_data[j] \cup (reaction' \ {"fast"})
      BY Typed, AckTaken, SMTT(40) DEF EndOf
    <3> QED BY <1>4, <2>2, <3>1 DEF Stream
  <2> QED BY <1>4, <1>7, <2>3, <2>4, <2>5, <2>6, AckTaken DEF RoundTrips
<1> QED BY <1>2, <1>8, <1>9

-----------------------------------------------------------------------------
(* The invariant.                                                          *)

LEMMA RoundTripsStep ==
  ASSUME RateInv, [RateNext]_rate_vars, IInv', TagsKept', ~nacked_again'
  PROVE  RoundTrips'
<1>1. CASE UNCHANGED <<snd_nxt, expected, data, acks, m_lastUpdateSeq, dctcp, stale_data,
                       stale_acks, nacked, nacked_again>>
  BY <1>1, ExpectsChunkKept
  DEF RateInv, RoundTrips, Replies, NackIsLast, CutsFirst, PassedOver, Stream, EndOf
<1>2. CASE Send \/ Lose \/ Receive \/ ReceiveAckAndControl
  <2>1. ~nacked_again
    BY <1>2 DEF Send, Lose, Receive, ReceiveAckAndControl
  <2> QED
    BY <1>2, <2>1, SendRoundTrips, LoseRoundTrips, ReceiveRoundTrips, AckRoundTrips DEF RateInv
<1>3. CASE TimerOfReceiver
  BY <1>1, <1>3 DEF TimerOfReceiver, NackTimerExpires, sender, control
<1>4. CASE CheckRateDecreaseMlx \/ RateIncEventTimerMlx
  BY <1>1, <1>4, ZenonT(40) DEF CheckRateDecreaseMlx, RateIncEventTimerMlx, vars, sender, receiver
<1>5. CASE UNCHANGED rate_vars
  BY <1>1, <1>5 DEF rate_vars, vars, sender, receiver, control, history
<1> QED BY <1>2, <1>3, <1>4, <1>5 DEF RateNext

LEMMA RateInvStep == RateInv /\ [RateNext]_rate_vars => RateInv'
<1> SUFFICES ASSUME RateInv, [RateNext]_rate_vars PROVE RateInv'
  OBVIOUS
<1>1. IInv' /\ Rates' /\ ControlOK' /\ TagsKept'
  BY IInvKept, RatesStep, ControlKept, TagsStep DEF RateInv
<1> QED BY <1>1, RoundTripsStep DEF RateInv

LEMMA RateInvAlways == RateSpec => []RateInv
  BY InitRateInv, RateInvStep, PTL DEF RateSpec

-----------------------------------------------------------------------------
(* What follows from it.                                                   *)

(* What changes the reference rate, cuts the rate or starts a batch is the *)
(* answer to a packet sent after the last such change, in every mode, with *)
(* every loss, in go-back-N and go-back-to-chunk mode, as long as no packet *)
(* is asked for twice (rdma-hw.cc:733, 912, 991, 1060). *)
THEOREM FeedbackFresh == RateSpec => OneChangePerRoundTrip
<1> DEFINE Fresh == ~nacked_again => FeedbackIsFresh
<1>1. ASSUME RateInv, [RateNext]_rate_vars PROVE [Fresh]_rate_vars
  <2>1. CASE ReceiveAckAndControl
    <3> SUFFICES ASSUME ~nacked_again PROVE FeedbackIsFresh
      OBVIOUS
    <3>1. ControlStep(Head(acks).seq)
      BY <1>1, <2>1, AckControls, IInvKept DEF RateInv
    <3>2. /\ 1 \in DOMAIN acks /\ Head(acks) = acks[1] /\ Head(stale_acks) = stale_acks[1]
          /\ stale_acks[1] \in Tags
      BY <1>1, <2>1, AckTaken DEF RateInv
    <3>3. /\ acks[1].seq \in Nat /\ m_lastUpdateSeq \in Nat /\ dctcp.m_highSeq \in Nat
      BY <1>1, <3>2, Typed, TransportSizes DEF RateInv, ControlOK
    <3>4. "update" \in reaction' => "update" \notin stale_acks[1]
      BY <1>1, <3>1, <3>2, <3>3 DEF RateInv, RoundTrips, Replies, ControlStep
    <3>5. "cut" \in reaction' => "cut" \notin stale_acks[1]
      BY <1>1, <3>1, <3>2 DEF RateInv, RoundTrips, Replies, CutsFirst, ControlStep, OpenWindow
    <3>6. stale_acks[1] \cap reaction' = {}
      BY <3>2, <3>4, <3>5 DEF Tags
    <3> QED BY <3>2, <3>6 DEF FeedbackIsFresh
  <2>2. CASE Send \/ Receive \/ TimerOfReceiver \/ Lose \/ CheckRateDecreaseMlx \/ RateIncEventTimerMlx
    <3>1. reaction' = {}
      BY <2>2, ZenonT(40) DEF Send, Receive, TimerOfReceiver, Lose, CheckRateDecreaseMlx, RateIncEventTimerMlx
    <3> QED BY <3>1 DEF FeedbackIsFresh
  <2> QED BY <1>1, <2>1, <2>2 DEF RateNext
<1> QED BY <1>1, RateInvAlways, PTL DEF RateSpec, OneChangePerRoundTrip

(* The timers of DCQCN end with the flow, unless its first CNP comes with  *)
(* the completing ACK or later (rdma-hw.cc:414, 490-497). *)
THEOREM TimersEnd == RateSpec => []TimersEndWithFlow
<1>1. RateInv => TimersEndWithFlow
  BY DEF RateInv, Rates, TimersKept
<1> QED BY <1>1, RateInvAlways, PTL

(* Congestion control leaves the delivery alone: the rates move, what is   *)
(* acknowledged is received all the same (rdma-hw.cc:380-429). *)
THEOREM DeliveryUnderControl == ASSUME MaxOvertake = 0 PROVE RateSpec => KeepsDelivery
<1>1. RateInit => Init
  BY DEF RateInit
<1>2. RateSpec => Spec
  BY <1>1, TransportStep, PTL DEF RateSpec, Spec
<1> QED BY <1>2, DeliveryKept

-----------------------------------------------------------------------------
(* Types, with the batch of DCTCP, which is no larger than the flow.       *)

LEMMA DivMonotone ==
  ASSUME NEW d \in Nat, d > 0, NEW x \in Nat, NEW y \in Nat, x <= y
  PROVE  x \div d \in Nat /\ x \div d <= y \div d
  OBVIOUS

LEMMA ModAround ==
  ASSUME NEW m \in Nat, m > 0, NEW x \in Nat, x < m
  PROVE  (m + x) % m = x
  OBVIOUS

BatchInFlow == nacked_again \/ dctcp.m_batchSizeOfAlpha \in 0..(m_size \div m_mtu + 1)

LEMMA BatchStep ==
  ASSUME m_ack_interval > 0, RateInv, RateInv', BatchInFlow, [RateNext]_rate_vars
  PROVE  BatchInFlow'
<1>1. CASE UNCHANGED <<nacked_again, dctcp>>
  BY <1>1 DEF BatchInFlow
<1>2. CASE Send \/ TimerOfReceiver \/ Lose \/ CheckRateDecreaseMlx \/ RateIncEventTimerMlx
           \/ UNCHANGED rate_vars
  BY <1>1, <1>2, ZenonT(40) DEF Send, TimerOfReceiver, Lose, CheckRateDecreaseMlx, RateIncEventTimerMlx,
                    rate_vars, control, history
<1>3. CASE Receive
  <2>1. dctcp' = dctcp
    BY <1>3 DEF Receive, control
  <2>2. nacked_again => nacked_again'
    <3>1. CASE Len(acks') > Len(acks)
      BY <1>3, <3>1 DEF Receive
    <3>2. CASE ~(Len(acks') > Len(acks))
      BY <1>3, <3>2 DEF Receive
    <3> QED BY <3>1, <3>2
  <2> QED BY <2>1, <2>2 DEF BatchInFlow
<1>4. CASE ReceiveAckAndControl
  <2> SUFFICES ASSUME ~nacked_again, dctcp' # dctcp
               PROVE  dctcp'.m_batchSizeOfAlpha \in 0..(m_size \div m_mtu + 1)
    BY <1>1, <1>4, AckTaken DEF BatchInFlow, RateInv
  <2> DEFINE a == Head(acks)
             seq == a.seq
             since == IF m_lastUpdateSeq = 0 THEN snd_nxt' ELSE (Modulus + snd_nxt' - seq) % Modulus
  <2>1. /\ a = acks[1] /\ 1 \in DOMAIN acks /\ seq \in Nat /\ a.nack \in BOOLEAN
        /\ Acknowledged(seq) \in Nat
    BY <1>4, AckTaken, Typed DEF RateInv
  <2>2. /\ snd_nxt \in Nat /\ snd_nxt' \in Nat /\ snd_nxt' <= m_size /\ snd_una \in Nat
        /\ m_size \in Nat /\ m_mtu \in Nat /\ m_mtu > 0
        /\ Modulus \in Nat /\ Modulus > m_size
    BY TransportSizes DEF RateInv, IInv, TypeOK
  <2>3. /\ RoundTrips
        /\ snd_nxt' = IF a.nack
                      THEN IF m_ack_interval > 0 /\ Acknowledged(seq) > snd_una
                           THEN Acknowledged(seq) ELSE snd_una
                      ELSE snd_nxt
    BY <1>4 DEF RateInv, ReceiveAckAndControl, ReceiveAck
  <2>4. PICK cnp \in BOOLEAN : HandleAckDctcp(seq, cnp)
    BY <1>4 DEF ReceiveAckAndControl, DCTCP, HPCC, TIMELY, HPCC_PINT, DCQCN
  <2> HIDE DEF a
  <2>5. seq <= snd_nxt'
    <3>1. CASE ~a.nack
      BY <2>1, <2>3, <3>1 DEF RoundTrips, Replies
    <3>2. CASE a.nack
      <4>1. seq = expected /\ ExpectsChunk
        BY <2>1, <2>3, <3>2 DEF RoundTrips, NackIsLast
      <4>2. Acknowledged(seq) = seq
        BY <4>1 DEF ExpectsChunk
      <4> QED BY <2>1, <2>2, <2>3, <3>2, <4>2
    <3> QED BY <2>1, <3>1, <3>2
  <2> HIDE DEF seq
  <2>6. since \in Nat /\ since <= m_size
    <3>1. snd_nxt' - seq \in Nat /\ snd_nxt' - seq < Modulus /\ snd_nxt' - seq <= m_size
          /\ Modulus + snd_nxt' - seq = Modulus + (snd_nxt' - seq)
      BY <2>1, <2>2, <2>5 DEF seq
    <3>2. (Modulus + snd_nxt' - seq) % Modulus = snd_nxt' - seq
      BY <2>2, <3>1, ModAround
    <3> QED BY <2>2, <3>1, <3>2
  <2>7. dctcp'.m_batchSizeOfAlpha \in {since \div m_mtu + 1, dctcp.m_batchSizeOfAlpha}
    BY <2>4 DEF HandleAckDctcp
  <2> HIDE DEF since
  <2>8. since \div m_mtu + 1 \in 0..(m_size \div m_mtu + 1)
    <3>1. /\ since \div m_mtu \in Nat /\ since \div m_mtu <= m_size \div m_mtu
          /\ m_size \div m_mtu \in Nat
      BY <2>2, <2>6, DivMonotone
    <3> QED BY <3>1
  <2> QED BY <2>7, <2>8 DEF BatchInFlow
<1> QED BY <1>2, <1>3, <1>4 DEF RateNext

(* The variables keep their types, the rate of DCQCN stays between the     *)
(* least rate and its target and the target below the rate of the line,    *)
(* and the batch of DCTCP fits the flow when ACKs are counted              *)
(* (rdma-hw.cc:641-725, 984-1036). *)
THEOREM RateTypeCorrect == ASSUME m_ack_interval > 0 PROVE RateSpec => []RateTypeOK
<1>1. RateInit => BatchInFlow
  <2>1. m_size \div m_mtu \in Nat
    BY TransportSizes, DivMonotone
  <2> QED BY <2>1 DEF RateInit, BatchInFlow
<1>2. RateInv /\ RateInv' /\ BatchInFlow /\ [RateNext]_rate_vars => BatchInFlow'
  BY BatchStep
<1>3. RateInv /\ BatchInFlow => RateTypeOK
  BY DEF RateInv, IInv, Rates, RatesInOrder, TimersKept, Mlx, ControlOK, TagsKept, BatchInFlow,
         RateTypeOK
<1> QED BY <1>1, <1>2, <1>3, RateInvAlways, PTL DEF RateSpec

-----------------------------------------------------------------------------
(* NicEgress: which flow sends next, and when.                             *)

(* A set of integers with a lower bound has a least element, and Min is it. *)
LEMMA LeastInt ==
  ASSUME NEW S \in SUBSET Int, S # {}, NEW b \in Int, \A x \in S : b <= x
  PROVE  Min(S) \in S /\ \A x \in S : Min(S) <= x
<1> DEFINE T == {n \in Nat : n + b \in S}
<1>1. PICK x \in S : TRUE
  OBVIOUS
<1>2. x - b \in T
  BY <1>1
<1>3. PICK n \in T : \A m \in T : n <= m
  BY <1>2, LeastNat
<1>4. n + b \in S /\ \A y \in S : n + b <= y
  <2>1. ASSUME NEW y \in S PROVE n + b <= y
    <3>1. y - b \in T
      OBVIOUS
    <3> QED BY <1>3, <3>1
  <2> QED BY <1>3, <2>1
<1> QED BY <1>4 DEF Min

LEMMA MaxOfTwo ==
  ASSUME NEW x \in Int, NEW y \in Int
  PROVE  Max({x, y}) = IF x >= y THEN x ELSE y
<1> DEFINE m == IF x >= y THEN x ELSE y
<1>1. m \in {x, y} /\ \A z \in {x, y} : m >= z
  OBVIOUS
<1>2. \A k \in {x, y} : (\A z \in {x, y} : k >= z) => k = m
  OBVIOUS
<1> QED BY <1>1, <1>2 DEF Max

(* A finite set of naturals has a greatest element, and Max is it. *)
LEMMA GreatestNat ==
  ASSUME NEW S \in SUBSET Nat, S # {}, IsFiniteSet(S)
  PROVE  Max(S) \in S /\ \A x \in S : x <= Max(S)
<1> DEFINE N == Cardinality(S)
<1>0. \A x \in S : x \in Nat
  OBVIOUS
<1>1. N \in Nat /\ ExistsBijection(1..N, S)
  BY FS_CardinalityType
<1>2. PICK f \in [1..N -> S] : \A x \in S : \E i \in 1..N : f[i] = x
  BY <1>1 DEF ExistsBijection, Bijection, Surjection
<1> HIDE DEF N
<1> DEFINE K == {k \in Nat : k <= N => \E b \in Nat : \A i \in 1..k : f[i] <= b}
<1>3. 0 \in K
  OBVIOUS
<1>4. ASSUME NEW k \in Nat, k \in K PROVE k + 1 \in K
  <2> SUFFICES ASSUME k + 1 <= N PROVE \E b \in Nat : \A i \in 1..(k + 1) : f[i] <= b
    OBVIOUS
  <2>1. PICK b \in Nat : \A i \in 1..k : f[i] <= b
    BY <1>1, <1>4
  <2>2. f[k + 1] \in Nat
    <3>1. k + 1 \in 1..N
      BY <1>1
    <3>2. f[k + 1] \in S
      BY <3>1
    <3> QED BY <1>0, <3>2
  <2>3. \A i \in 1..(k + 1) : f[i] <= b + f[k + 1]
    <3> SUFFICES ASSUME NEW i \in 1..(k + 1) PROVE f[i] <= b + f[k + 1]
      OBVIOUS
    <3>1. f[i] \in Nat
      <4>1. i \in 1..N
        BY <1>1
      <4>2. f[i] \in S
        BY <4>1
      <4> QED BY <1>0, <4>2
    <3>2. CASE i = k + 1
      BY <2>2, <3>2
    <3>3. CASE i \in 1..k
      BY <2>1, <2>2, <3>1, <3>3
    <3> QED BY <3>2, <3>3
  <2>4. b + f[k + 1] \in Nat
    BY <2>2
  <2> QED BY <2>3, <2>4
<1>5. N \in K
  BY <1>1, <1>3, <1>4, SetInduction
<1>6. PICK b \in Nat : \A i \in 1..N : f[i] <= b
  BY <1>1, <1>5
<1>7. \A x \in S : x <= b
  BY <1>2, <1>6
<1> HIDE DEF K
<1> DEFINE D == {n \in Nat : b - n \in S}
<1>8. D # {}
  <2>1. PICK x \in S : TRUE
    OBVIOUS
  <2>2. b - x \in D
    BY <1>7, <2>1
  <2> QED BY <2>2
<1>9. PICK n \in D : \A m \in D : n <= m
  BY <1>8, LeastNat
<1>14. n \in Nat
  BY <1>9
<1>10. b - n \in S /\ \A x \in S : x <= b - n
  <2>1. ASSUME NEW x \in S PROVE x <= b - n
    <3>1. b - x \in D
      BY <1>6, <1>7
    <3>2. n <= b - x
      BY <1>9, <3>1
    <3>3. x \in Nat /\ n \in Nat /\ b \in Nat
      BY <1>0, <1>14
    <3> QED BY <3>2, <3>3
  <2> QED BY <1>9, <2>1
<1> HIDE DEF D
<1>11. \A y \in S : (\A x \in S : y >= x) => y = b - n
  <2>1. ASSUME NEW y \in S, \A x \in S : y >= x PROVE y = b - n
    <3>1. y >= b - n /\ y <= b - n
      BY <1>10, <2>1
    <3>2. y \in Nat /\ n \in Nat /\ b \in Nat
      BY <1>0, <1>14
    <3> QED BY <3>1, <3>2
  <2> QED BY <2>1
<1>12. \A x \in S : b - n >= x
  BY <1>0, <1>6, <1>9, <1>10
<1>13. Max(S) = b - n
  BY <1>10, <1>11, <1>12 DEF Max
<1> QED BY <1>10, <1>13

(* Gaps and times. *)
LEMMA NicNumbers ==
  /\ MinGap \in Gap /\ MaxGap \in Gap /\ MinGap \in Nat \ {0} /\ MaxGap \in Nat \ {0}
  /\ \A g \in Gap : g \in Nat \ {0} /\ MinGap <= g /\ g <= MaxGap
  /\ PacketTime \in Nat \ {0} /\ AckTime \in Nat \ {0}
  /\ Max({PacketTime, AckTime}) \in Nat \ {0}
  /\ PacketTime <= Max({PacketTime, AckTime}) /\ AckTime <= Max({PacketTime, AckTime})
<1>1. Gap \in SUBSET Nat /\ Gap # {} /\ IsFiniteSet(Gap) /\ Gap \subseteq Int
      /\ \A g \in Gap : g \in Nat \ {0} /\ 0 <= g
  BY NicSizes
<1>2. MinGap \in Gap /\ \A g \in Gap : MinGap <= g
  BY <1>1, LeastInt DEF MinGap
<1>3. MaxGap \in Gap /\ \A g \in Gap : g <= MaxGap
  BY <1>1, GreatestNat DEF MaxGap
<1>4. PacketTime \in Nat \ {0} /\ AckTime \in Nat \ {0}
  BY NicSizes
<1>5. /\ Max({PacketTime, AckTime}) \in Nat \ {0}
      /\ PacketTime <= Max({PacketTime, AckTime}) /\ AckTime <= Max({PacketTime, AckTime})
  BY <1>4, MaxOfTwo
<1> QED BY <1>1, <1>2, <1>3, <1>4, <1>5

LEMMA GapInt ==
  ASSUME NEW g \in Gap
  PROVE  g \in Nat /\ g \in Int /\ g > 0 /\ MinGap <= g /\ g <= MaxGap
<1>1. g \in Nat \ {0} /\ MinGap <= g /\ g <= MaxGap
  BY NicNumbers
<1> QED BY <1>1

-----------------------------------------------------------------------------
(* The loop over the queue pairs comes past each of them.                  *)

LEMMA ModIs ==
  ASSUME NEW L \in Nat \ {0}, NEW q \in Nat, NEW r \in 0..(L - 1)
  PROVE  (L * q + r) % L = r
  OBVIOUS

LEMMA ModReaches ==
  ASSUME NEW L \in Nat \ {0}, NEW r \in Nat, NEW p \in 0..(L - 1)
  PROVE  \E i \in 1..L : (i + r) % L = p
<1> DEFINE q == r \div L
           s == r % L
<1>1. q \in Nat /\ s \in 0..(L - 1) /\ r = L * q + s
  OBVIOUS
<1> HIDE DEF q, s
<1>2. CASE p > s
  <2>1. p - s \in 1..L /\ (p - s) + r = L * q + p
    BY <1>1, <1>2
  <2> QED BY <1>1, <2>1, ModIs
<1>3. CASE p <= s
  <2>1. (p - s) + L \in 1..L /\ ((p - s) + L) + r = L * (q + 1) + p
    BY <1>1, <1>3
  <2>2. q + 1 \in Nat
    BY <1>1
  <2> QED BY <2>1, <2>2, ModIs
<1> QED BY <1>1, <1>2, <1>3

-----------------------------------------------------------------------------
(* What is left of the group.                                              *)

KeptUpTo(s, T, n, g) ==
  g = [k \in 0..n |-> IF k = 0 THEN <<>>
                      ELSE IF k \in T THEN Append(g[k - 1], s[k]) ELSE g[k - 1]]

LEMMA KeptExists ==
  ASSUME NEW S, NEW s \in Seq(S), NEW T
  PROVE  \E g \in [0..Len(s) -> Seq(S)] : KeptUpTo(s, T, Len(s), g)
<1> DEFINE K == {n \in Nat : n <= Len(s) => \E g \in [0..n -> Seq(S)] : KeptUpTo(s, T, n, g)}
<1>1. 0 \in K
  <2> DEFINE z == [k \in 0..0 |-> <<>>]
  <2>1. z \in [0..0 -> Seq(S)] /\ KeptUpTo(s, T, 0, z)
    BY DEF KeptUpTo
  <2> QED BY <2>1
<1>2. ASSUME NEW n \in Nat, n \in K PROVE n + 1 \in K
  <2> SUFFICES ASSUME n + 1 <= Len(s)
               PROVE  \E g \in [0..(n + 1) -> Seq(S)] : KeptUpTo(s, T, n + 1, g)
    OBVIOUS
  <2>1. PICK g \in [0..n -> Seq(S)] : KeptUpTo(s, T, n, g)
    BY <1>2
  <2>2. s[n + 1] \in S /\ g[n] \in Seq(S)
    OBVIOUS
  <2> DEFINE last == IF n + 1 \in T THEN Append(g[n], s[n + 1]) ELSE g[n]
             h == [k \in 0..(n + 1) |-> IF k = n + 1 THEN last ELSE g[k]]
  <2>3. last \in Seq(S)
    BY <2>2
  <2> HIDE DEF last
  <2>4. h \in [0..(n + 1) -> Seq(S)]
    BY <2>3
  <2>5. ASSUME NEW k \in 0..(n + 1)
        PROVE  h[k] = IF k = 0 THEN <<>>
                      ELSE IF k \in T THEN Append(h[k - 1], s[k]) ELSE h[k - 1]
    <3>1. CASE k = n + 1
      <4>1. k # 0 /\ k - 1 = n /\ h[k - 1] = g[n] /\ h[k] = last
        BY <3>1
      <4> QED BY <3>1, <4>1 DEF last
    <3>2. CASE k \in 0..n
      <4>1. h[k] = g[k] /\ (k # 0 => h[k - 1] = g[k - 1])
        BY <3>2
      <4> HIDE DEF h
      <4>2. g[k] = IF k = 0 THEN <<>>
                   ELSE IF k \in T THEN Append(g[k - 1], s[k]) ELSE g[k - 1]
        BY <2>1, <3>2 DEF KeptUpTo
      <4> QED BY <4>1, <4>2
    <3> QED BY <3>1, <3>2
  <2>6. KeptUpTo(s, T, n + 1, h)
    BY <2>5 DEF KeptUpTo
  <2> QED BY <2>4, <2>6
<1>3. Nat \subseteq K
  BY <1>1, <1>2, SetInduction
<1> QED BY <1>3

(* AtPlaces(s, T) has what s has at the places of T and nothing else, and   *)
(* nothing twice if s has not. *)
LEMMA AtPlacesProperties ==
  ASSUME NEW S, NEW s \in Seq(S), NEW T
  PROVE  /\ AtPlaces(s, T) \in Seq(S)
         /\ \A i \in DOMAIN AtPlaces(s, T) :
              \E j \in DOMAIN s : j \in T /\ AtPlaces(s, T)[i] = s[j]
         /\ \A j \in DOMAIN s : j \in T =>
              \E i \in DOMAIN AtPlaces(s, T) : AtPlaces(s, T)[i] = s[j]
         /\ (\A i, j \in DOMAIN s : s[i] = s[j] => i = j) =>
              \A i, j \in DOMAIN AtPlaces(s, T) :
                 AtPlaces(s, T)[i] = AtPlaces(s, T)[j] => i = j
<1> DEFINE c == CHOOSE g : KeptUpTo(s, T, Len(s), g)
           Injective == \A i, j \in 1..Len(s) : s[i] = s[j] => i = j
           Ok(q, k) ==
             /\ q \in Seq(S)
             /\ \A i \in 1..Len(q) : \E j \in 1..k : j \in T /\ q[i] = s[j]
             /\ \A j \in 1..k : j \in T => \E i \in 1..Len(q) : q[i] = s[j]
             /\ Injective => \A i, j \in 1..Len(q) : q[i] = q[j] => i = j
<1>1. AtPlaces(s, T) = c[Len(s)]
  BY DEF AtPlaces, KeptUpTo
<1>2. KeptUpTo(s, T, Len(s), c)
  BY KeptExists
<1> HIDE DEF c
<1>3. \A k \in 0..Len(s) :
        c[k] = IF k = 0 THEN <<>> ELSE IF k \in T THEN Append(c[k - 1], s[k]) ELSE c[k - 1]
  BY <1>2 DEF KeptUpTo
<1> DEFINE K == {n \in Nat : n <= Len(s) => Ok(c[n], n)}
<1>4. 0 \in K
  <2>1. c[0] = <<>> /\ <<>> \in Seq(S) /\ Len(<<>>) = 0
    BY <1>3
  <2>2. Ok(<<>>, 0)
    BY <2>1
  <2>3. Ok(c[0], 0)
    BY <2>1, <2>2
  <2> HIDE DEF Ok
  <2> QED BY <2>3
<1>5. ASSUME NEW n \in Nat, n \in K PROVE n + 1 \in K
  <2> SUFFICES ASSUME n + 1 <= Len(s) PROVE Ok(c[n + 1], n + 1)
    OBVIOUS
  <2> DEFINE q == c[n]
  <2>1. Ok(q, n)
    BY <1>5
  <2>2. c[n + 1] = IF n + 1 \in T THEN Append(q, s[n + 1]) ELSE q
    BY <1>3
  <2> HIDE DEF q
  <2>3. CASE n + 1 \notin T
    BY <2>1, <2>2, <2>3
  <2>4. CASE n + 1 \in T
    <3> DEFINE r == Append(q, s[n + 1])
    <3>1. c[n + 1] = r /\ r \in Seq(S) /\ Len(r) = Len(q) + 1 /\ Len(q) \in Nat
          /\ r[Len(q) + 1] = s[n + 1] /\ \A i \in 1..Len(q) : r[i] = q[i]
      BY <2>1, <2>2, <2>4
    <3> HIDE DEF r
    <3>2. ASSUME NEW i \in 1..Len(r) PROVE \E j \in 1..(n + 1) : j \in T /\ r[i] = s[j]
      <4>1. CASE i = Len(q) + 1
        BY <2>4, <3>1, <4>1
      <4>2. CASE i \in 1..Len(q)
        <5>1. PICK j \in 1..n : j \in T /\ q[i] = s[j]
          BY <2>1, <4>2
        <5> QED BY <3>1, <4>2, <5>1
      <4> QED BY <3>1, <4>1, <4>2
    <3>3. ASSUME NEW j \in 1..(n + 1), j \in T PROVE \E i \in 1..Len(r) : r[i] = s[j]
      <4>1. CASE j = n + 1
        BY <3>1, <4>1
      <4>2. CASE j \in 1..n
        <5>1. PICK i \in 1..Len(q) : q[i] = s[j]
          BY <2>1, <3>3, <4>2
        <5> QED BY <3>1, <5>1
      <4> QED BY <4>1, <4>2
    <3>4. ASSUME Injective PROVE \A i, j \in 1..Len(r) : r[i] = r[j] => i = j
      <4>1. \A i \in 1..Len(q) : q[i] # s[n + 1]
        <5> SUFFICES ASSUME NEW i \in 1..Len(q), q[i] = s[n + 1] PROVE FALSE
          OBVIOUS
        <5>1. PICK j \in 1..n : q[i] = s[j]
          BY <2>1
        <5>2. j \in 1..Len(s) /\ n + 1 \in 1..Len(s) /\ j # n + 1
          OBVIOUS
        <5> QED BY <3>4, <5>1, <5>2
      <4>2. \A i, j \in 1..Len(q) : q[i] = q[j] => i = j
        BY <2>1, <3>4
      <4>3. \A i \in 1..Len(r) : i = Len(q) + 1 \/ i \in 1..Len(q)
        BY <3>1
      <4> QED BY <3>1, <4>1, <4>2, <4>3
    <3> QED BY <3>1, <3>2, <3>3, <3>4
  <2> QED BY <2>3, <2>4
<1>6. Nat \subseteq K
  BY <1>4, <1>5, SetInduction
<1>7. Ok(c[Len(s)], Len(s))
  <2> HIDE DEF K, Ok
  <2>1. Len(s) \in K
    BY <1>6
  <2> USE DEF K
  <2> QED BY <2>1
<1>8. DOMAIN s = 1..Len(s)
  OBVIOUS
<1> DEFINE q == c[Len(s)]
<1>9. q \in Seq(S) /\ DOMAIN q = 1..Len(q)
  BY <1>7
<1>10. AtPlaces(s, T) = q
  BY <1>1
<1> HIDE DEF q
<1>11. Ok(q, Len(s))
  BY <1>7 DEF q
<1>12. \A i \in 1..Len(q) : \E j \in 1..Len(s) : j \in T /\ q[i] = s[j]
  BY <1>11
<1>13. \A j \in 1..Len(s) : j \in T => \E i \in 1..Len(q) : q[i] = s[j]
  BY <1>11
<1>14. Injective => \A i, j \in 1..Len(q) : q[i] = q[j] => i = j
  BY <1>11
<1> HIDE DEF Ok
<1>15. \A i \in DOMAIN AtPlaces(s, T) :
         \E j \in DOMAIN s : j \in T /\ AtPlaces(s, T)[i] = s[j]
  BY <1>8, <1>9, <1>10, <1>12
<1>16. \A j \in DOMAIN s : j \in T =>
         \E i \in DOMAIN AtPlaces(s, T) : AtPlaces(s, T)[i] = s[j]
  BY <1>8, <1>9, <1>10, <1>13
<1>17. (\A i, j \in DOMAIN s : s[i] = s[j] => i = j) =>
         \A i, j \in DOMAIN AtPlaces(s, T) : AtPlaces(s, T)[i] = AtPlaces(s, T)[j] => i = j
  BY <1>8, <1>9, <1>10, <1>14
<1> QED BY <1>9, <1>10, <1>15, <1>16, <1>17

-----------------------------------------------------------------------------
(* The inductive invariant.                                                *)

(* A queue pair and a device whose group is taken from S. *)
QueuePair == [left : Nat, fly : Nat, avail : Int, gap : Gap]
Device(S) ==
  [qp : [Flow -> QueuePair], m_qps : Seq(S), m_rrlast : Nat, m_ackQ : Nat,
   m_paused : SUBSET Group, tx : Int, m_nextSend : Int]

(* The queue pair's numbers fit its flow, and its time fits its rate. *)
SoundPair(f, qp) ==
  /\ qp.left + qp.fly <= m_sizes[f]
  /\ qp.avail \in (MinGap - MaxGap)..MaxGap
  /\ shifts_avail => qp.avail \in (qp.gap - MaxGap)..qp.gap
Sound(n) ==
  /\ \A f \in Flow : SoundPair(f, n.qp[f])
  /\ n.tx \in Expired..Max({PacketTime, AckTime})
  /\ n.m_nextSend \in Expired..MaxGap

(* Every flow of S with something to do is in the group, none is twice. *)
Once(n, S) ==
  /\ \A i, j \in DOMAIN n.m_qps : n.m_qps[i] = n.m_qps[j] => i = j
  /\ \A f \in S : ~IsFinished(n.qp[f]) => \E i \in DOMAIN n.m_qps : n.m_qps[i] = f
Good(n, S) == n \in Device(S) /\ Sound(n) /\ Once(n, S)

(* What an idle device without a wake-up waits for, if a packet is left. *)
WaitsFor(n, g) ==
  /\ n.qp[g].left > 0 /\ n.qp[g].avail <= 0
  /\ ~MaySend(n, g) \/ (~shifts_avail /\ var_win /\ n.qp[g].fly > 0)
Awake(n) ==
  n.tx = Expired /\ n.m_nextSend = Expired
    /\ (\E f \in ToSet(n.m_qps) : n.qp[f].left > 0)
  => \E g \in ToSet(n.m_qps) : WaitsFor(n, g)

Unstarted(f) == nic.qp[f].fly = 0 /\ nic.qp[f].avail <= 0

NicInv ==
  /\ Good(nic, m_qpMap) /\ Awake(nic)
  /\ m_qpMap \subseteq Flow /\ IsFiniteSet(m_qpMap)
  /\ shifts_avail \in BOOLEAN
  /\ disturbed \in 0..MaxDisturb /\ nic.m_ackQ <= disturbed
  /\ \A f \in Flow \ m_qpMap : Unstarted(f)

-----------------------------------------------------------------------------
(* One call of DequeueAndTransmit.                                         *)

(* The loop ends at a flow that may send now, or there is none. *)
LEMMA HitProperties ==
  ASSUME NEW S, NEW n \in Device(S)
  PROVE  /\ Hit(n) \in 1..(Len(n.m_qps) + 1)
         /\ Hit(n) \in DOMAIN n.m_qps =>
              /\ Place(n, Hit(n)) \in DOMAIN n.m_qps
              /\ MaySendNow(n, n.m_qps[Place(n, Hit(n))])
         /\ Hit(n) \notin DOMAIN n.m_qps =>
              \A j \in DOMAIN n.m_qps : ~MaySendNow(n, n.m_qps[j])
<1> DEFINE L == Len(n.m_qps)
           found == {i \in DOMAIN n.m_qps : MaySendNow(n, n.m_qps[Place(n, i)])}
<1>1. L \in Nat /\ DOMAIN n.m_qps = 1..L /\ n.m_rrlast \in Nat
  BY DEF Device
<1>2. Hit(n) = Min({L + 1} \cup found)
  BY DEF Hit
<1>3. Hit(n) \in {L + 1} \cup found /\ \A i \in {L + 1} \cup found : Hit(n) <= i
  <2> DEFINE U == {L + 1} \cup found
  <2>1. U \in SUBSET Int /\ U # {} /\ 0 \in Int /\ \A i \in U : 0 <= i
    BY <1>1
  <2>2. Hit(n) = Min(U)
    BY <1>2
  <2> HIDE DEF U
  <2>3. Min(U) \in U /\ \A i \in U : Min(U) <= i
    BY <2>1, LeastInt
  <2> QED BY <2>2, <2>3 DEF U
<1>4. ASSUME NEW i \in 1..L PROVE Place(n, i) \in 1..L
  <2>1. i + n.m_rrlast \in Nat /\ L # 0
    BY <1>1
  <2>2. (i + n.m_rrlast) % L \in 0..(L - 1)
    BY <1>1, <2>1
  <2>3. Place(n, i) = ((i + n.m_rrlast) % L) + 1
    BY DEF Place
  <2> HIDE DEF L
  <2> QED BY <1>1, <2>2, <2>3
<1>5. ASSUME NEW j \in 1..L PROVE \E i \in 1..L : Place(n, i) = j
  <2>1. L \in Nat \ {0} /\ j - 1 \in 0..(L - 1)
    BY <1>1
  <2>2. PICK i \in 1..L : (i + n.m_rrlast) % L = j - 1
    BY <1>1, <2>1, ModReaches
  <2>3. Place(n, i) = ((i + n.m_rrlast) % L) + 1
    BY DEF Place
  <2> HIDE DEF L
  <2> QED BY <1>1, <2>2, <2>3
<1>6. found \subseteq 1..L
  BY <1>1
<1>7. Hit(n) \in 1..(L + 1)
  <2>1. L \in Nat
    BY <1>1
  <2>2. Hit(n) = L + 1 \/ Hit(n) \in 1..L
    BY <1>3, <1>6
  <2> HIDE DEF found, L
  <2> QED BY <2>1, <2>2
<1>8. ASSUME Hit(n) \in 1..L
      PROVE  Place(n, Hit(n)) \in 1..L /\ MaySendNow(n, n.m_qps[Place(n, Hit(n))])
  <2>1. Hit(n) \in found
    <3> HIDE DEF found, L
    <3> QED BY <1>1, <1>3, <1>8
  <2> QED BY <1>4, <1>8, <2>1
<1>9. ASSUME Hit(n) \notin 1..L, NEW j \in 1..L
      PROVE  ~MaySendNow(n, n.m_qps[j])
  <2>1. \A i \in 1..L : i \notin found
    <3> HIDE DEF found, L
    <3> QED BY <1>1, <1>3, <1>7, <1>9
  <2>2. PICK i \in 1..L : Place(n, i) = j
    BY <1>5
  <2> QED BY <1>1, <2>1, <2>2
<1> HIDE DEF found, L
<1>10. Len(n.m_qps) = L
  BY DEF L
<1> QED BY <1>1, <1>7, <1>8, <1>9, <1>10

(* A flow with something to do stays, the order of the others is kept. *)
LEMMA UnfinishedProperties ==
  ASSUME NEW S, NEW n \in Device(S), NEW hit
  PROVE  /\ Unfinished(n, hit) \in Seq(S)
         /\ \A i \in DOMAIN Unfinished(n, hit) :
              \E j \in DOMAIN n.m_qps : Unfinished(n, hit)[i] = n.m_qps[j]
         /\ \A j \in DOMAIN n.m_qps : ~IsFinished(n.qp[n.m_qps[j]]) =>
              \E i \in DOMAIN Unfinished(n, hit) : Unfinished(n, hit)[i] = n.m_qps[j]
         /\ (\A i, j \in DOMAIN n.m_qps : n.m_qps[i] = n.m_qps[j] => i = j) =>
              \A i, j \in DOMAIN Unfinished(n, hit) :
                 Unfinished(n, hit)[i] = Unfinished(n, hit)[j] => i = j
<1> DEFINE met == {p \in {Place(n, i) : i \in DOMAIN n.m_qps \cap 1..hit} :
                     IsFinished(n.qp[n.m_qps[p]])}
           T == {k \in DOMAIN n.m_qps :
                   (\A p \in met : k < p) \/ ~IsFinished(n.qp[n.m_qps[k]])}
           s == n.m_qps
           q == AtPlaces(s, T)
<1>1. s \in Seq(S)
  BY DEF Device
<1>2. Unfinished(n, hit) = AtPlaces(s, T)
  BY Zenon DEF Unfinished
<1>3. \A j \in DOMAIN s : ~IsFinished(n.qp[s[j]]) => j \in T
  OBVIOUS
<1> HIDE DEF T
<1>5. /\ AtPlaces(s, T) \in Seq(S)
      /\ \A i \in DOMAIN AtPlaces(s, T) :
           \E j \in DOMAIN s : j \in T /\ AtPlaces(s, T)[i] = s[j]
      /\ \A j \in DOMAIN s : j \in T =>
           \E i \in DOMAIN AtPlaces(s, T) : AtPlaces(s, T)[i] = s[j]
      /\ (\A i, j \in DOMAIN s : s[i] = s[j] => i = j) =>
           \A i, j \in DOMAIN AtPlaces(s, T) :
              AtPlaces(s, T)[i] = AtPlaces(s, T)[j] => i = j
  BY <1>1, AtPlacesProperties, Zenon
<1>6. Unfinished(n, hit) = q
  BY <1>2
<1>7. /\ q \in Seq(S)
      /\ \A i \in DOMAIN q : \E j \in DOMAIN s : j \in T /\ q[i] = s[j]
      /\ \A j \in DOMAIN s : j \in T => \E i \in DOMAIN q : q[i] = s[j]
      /\ (\A i, j \in DOMAIN s : s[i] = s[j] => i = j) =>
           \A i, j \in DOMAIN q : q[i] = q[j] => i = j
  BY <1>5, Zenon
<1> HIDE DEF q
<1> QED BY <1>3, <1>6, <1>7


LEMMA GetWinNat ==
  ASSUME NEW qp, qp.gap \in Gap
  PROVE  GetWin(qp) \in Nat
<1>1. MinGap \in Nat /\ qp.gap \in Nat \ {0} /\ win_packets \in Nat
  BY NicNumbers, NicSizes
<1> DEFINE x == win_packets * MinGap
<1>2. x \in Nat
  BY <1>1
<1> HIDE DEF x
<1> DEFINE y == x \div qp.gap
<1>3. y \in Int
  BY <1>1, <1>2
<1> HIDE DEF y
<1>4. Max({1, y}) \in Nat
  BY <1>3, MaxOfTwo
<1> QED BY <1>1, <1>4 DEF GetWin, x, y

(* What a packet that leaves makes of its queue pair. *)
Sent(qp) == [left |-> qp.left - 1, fly |-> qp.fly + 1, avail |-> Pace(qp), gap |-> qp.gap]

(* From n to m at most one packet leaves, of a flow of S that may send now, *)
(* and only if the device was free. *)
Outcome(n, m, S) ==
  /\ m.m_paused = n.m_paused /\ m.m_ackQ <= n.m_ackQ
  /\ n.tx # Expired => m.tx # Expired
  /\ \A f \in Flow : m.qp[f] # n.qp[f] =>
       /\ f \in S /\ m.qp[f] = Sent(n.qp[f]) /\ MaySendNow(n, f)
       /\ n.tx = Expired /\ m.tx # Expired

LEMMA DeviceFields ==
  ASSUME NEW S, NEW n \in Device(S)
  PROVE  /\ n.qp \in [Flow -> QueuePair] /\ n.m_qps \in Seq(S) /\ n.m_rrlast \in Nat
         /\ n.m_ackQ \in Nat /\ n.m_paused \in SUBSET Group /\ n.tx \in Int
         /\ n.m_nextSend \in Int
         /\ \A f \in Flow : /\ n.qp[f] \in QueuePair
                            /\ n.qp[f].left \in Nat /\ n.qp[f].fly \in Nat
                            /\ n.qp[f].avail \in Int /\ n.qp[f].gap \in Gap
<1>1. n.qp \in [Flow -> QueuePair]
  BY DEF Device
<1>2. \A f \in Flow : n.qp[f] \in QueuePair
  BY <1>1
<1>3. \A q \in QueuePair : q.left \in Nat /\ q.fly \in Nat /\ q.avail \in Int /\ q.gap \in Gap
  BY DEF QueuePair
<1> QED BY <1>1, <1>2, <1>3 DEF Device

(* The group without the finished. *)
LEMMA ClearedGood ==
  ASSUME NEW S \in SUBSET Flow, NEW n, Good(n, S), NEW hit
  PROVE  LET kept == Unfinished(n, hit)
             c == [n EXCEPT !.m_qps = kept]
         IN  /\ Good(c, S) /\ kept \in Seq(S)
             /\ c.m_qps = kept /\ c.qp = n.qp /\ c.tx = n.tx /\ c.m_ackQ = n.m_ackQ
             /\ c.m_paused = n.m_paused /\ c.m_nextSend = n.m_nextSend
             /\ \A f \in S : ~IsFinished(n.qp[f]) => \E i \in DOMAIN kept : kept[i] = f
             /\ \A i \in DOMAIN kept : \E j \in DOMAIN n.m_qps : kept[i] = n.m_qps[j]
<1> DEFINE kept == Unfinished(n, hit)
           c == [n EXCEPT !.m_qps = kept]
<1>1. n \in Device(S) /\ Sound(n) /\ Once(n, S)
  BY DEF Good
<1>2. /\ kept \in Seq(S)
      /\ \A i \in DOMAIN kept : \E j \in DOMAIN n.m_qps : kept[i] = n.m_qps[j]
      /\ \A j \in DOMAIN n.m_qps : ~IsFinished(n.qp[n.m_qps[j]]) =>
           \E i \in DOMAIN kept : kept[i] = n.m_qps[j]
      /\ (\A i, j \in DOMAIN n.m_qps : n.m_qps[i] = n.m_qps[j] => i = j) =>
           \A i, j \in DOMAIN kept : kept[i] = kept[j] => i = j
  BY <1>1, UnfinishedProperties
<1> HIDE DEF kept
<1>3. c \in Device(S)
  BY <1>1, <1>2 DEF Device
<1>4. /\ c.m_qps = kept /\ c.qp = n.qp /\ c.tx = n.tx /\ c.m_ackQ = n.m_ackQ
      /\ c.m_paused = n.m_paused /\ c.m_nextSend = n.m_nextSend
  BY <1>1 DEF Device
<1> HIDE DEF c
<1>5. \A f \in S : ~IsFinished(n.qp[f]) => \E i \in DOMAIN kept : kept[i] = f
  <2> SUFFICES ASSUME NEW f \in S, ~IsFinished(n.qp[f])
               PROVE  \E i \in DOMAIN kept : kept[i] = f
    OBVIOUS
  <2>1. PICK j \in DOMAIN n.m_qps : n.m_qps[j] = f
    BY <1>1 DEF Once
  <2> QED BY <1>2, <2>1
<1>6. Once(c, S)
  BY <1>1, <1>2, <1>4, <1>5 DEF Once
<1>7. Sound(c)
  BY <1>1, <1>4 DEF Sound
<1>8. Good(c, S)
  BY <1>3, <1>6, <1>7 DEF Good
<1> QED BY <1>2, <1>4, <1>5, <1>8 DEF c, kept


LEMMA SendAckStep ==
  ASSUME NEW S \in SUBSET Flow, NEW n, Good(n, S), n.m_ackQ > 0, n.tx = Expired
  PROVE  /\ Good(SendAck(n), S) /\ Outcome(n, SendAck(n), S) /\ Awake(SendAck(n))
<1> DEFINE m == SendAck(n)
<1>1. n \in Device(S) /\ Sound(n) /\ Once(n, S)
  BY DEF Good
<1>2. /\ m.m_qps = n.m_qps /\ m.qp = n.qp /\ m.tx = AckTime /\ m.m_ackQ = n.m_ackQ - 1
      /\ m.m_paused = n.m_paused /\ m.m_nextSend = n.m_nextSend
  BY <1>1 DEF Device, SendAck
<1>3. m \in Device(S)
  <2>1. n.m_ackQ - 1 \in Nat /\ AckTime \in Int
    BY <1>1, DeviceFields, NicNumbers
  <2> QED BY <1>1, <2>1 DEF Device, SendAck
<1> HIDE DEF m
<1>4. m.tx # Expired /\ m.tx \in Expired..Max({PacketTime, AckTime})
  BY <1>2, NicNumbers DEF Expired
<1>5. Sound(m)
  BY <1>1, <1>2, <1>4 DEF Sound
<1>6. Once(m, S)
  BY <1>1, <1>2 DEF Once
<1>7. Outcome(n, m, S)
  <2>1. n.m_ackQ \in Nat
    BY <1>1, DeviceFields
  <2> QED BY <1>2, <1>4, <2>1 DEF Outcome
<1>8. Awake(m)
  BY <1>4 DEF Awake
<1> QED BY <1>3, <1>5, <1>6, <1>7, <1>8 DEF Good, m

LEMMA SendOfStep ==
  ASSUME NEW S \in SUBSET Flow, NEW n, Good(n, S), NEW f \in S, n.tx = Expired,
         MaySendNow(n, f), \E i \in DOMAIN n.m_qps : n.m_qps[i] = f
  PROVE  LET m == SendOf(n, f)
         IN  /\ Good(m, S) /\ Outcome(n, m, S) /\ Awake(m)
<1> DEFINE m == SendOf(n, f)
           place == CHOOSE i \in DOMAIN n.m_qps : n.m_qps[i] = f
           r == place - 1
<1>1. n \in Device(S) /\ Sound(n) /\ Once(n, S) /\ f \in Flow
  BY DEF Good
<1>2. /\ n.qp \in [Flow -> QueuePair] /\ n.qp[f] \in QueuePair
      /\ n.qp[f].left \in Nat /\ n.qp[f].fly \in Nat
      /\ n.qp[f].avail \in Int /\ n.qp[f].gap \in Gap
      /\ n.m_qps \in Seq(S) /\ n.m_ackQ \in Nat
  BY <1>1, DeviceFields
<1>3. n.qp[f].left > 0
  BY DEF MaySendNow, MaySend
<1>4. r \in Nat
  <2>1. DOMAIN n.m_qps = 1..Len(n.m_qps)
    BY <1>2
  <2>2. place \in DOMAIN n.m_qps
    OBVIOUS
  <2> HIDE DEF place
  <2> QED BY <2>1, <2>2
<1> HIDE DEF r
<1> DEFINE qp == [n.qp EXCEPT ![f] = Sent(@)]
<1>5. m = [n EXCEPT !.qp = qp, !.m_rrlast = r, !.tx = PacketTime]
  <2>1. qp = [n.qp EXCEPT ![f] = [left |-> @.left - 1, fly |-> @.fly + 1,
                                  avail |-> Pace(@), gap |-> @.gap]]
    BY DEF Sent
  <2> QED BY <2>1 DEF SendOf, r
<1>6. Sent(n.qp[f]) \in QueuePair
  <2>1. n.qp[f].left - 1 \in Nat /\ n.qp[f].fly + 1 \in Nat
    BY <1>2, <1>3
  <2>2. Pace(n.qp[f]) \in Int
    <3>1. n.qp[f].gap \in Nat /\ MinGap \in Nat
      BY <1>2, NicNumbers
    <3> QED BY <3>1 DEF Pace
  <2> QED BY <1>2, <2>1, <2>2 DEF Sent, QueuePair
<1>7. /\ qp \in [Flow -> QueuePair] /\ qp[f] = Sent(n.qp[f])
      /\ \A g \in Flow : g # f => qp[g] = n.qp[g]
  BY <1>1, <1>2, <1>6
<1> HIDE DEF m, qp
<1>8. /\ m.m_qps = n.m_qps /\ m.qp = qp /\ m.tx = PacketTime /\ m.m_ackQ = n.m_ackQ
      /\ m.m_paused = n.m_paused /\ m.m_nextSend = n.m_nextSend
  BY <1>1, <1>5 DEF Device
<1>9. m \in Device(S)
  <2>1. PacketTime \in Int
    BY NicNumbers
  <2> QED BY <1>1, <1>4, <1>5, <1>7, <2>1 DEF Device
<1>10. m.tx # Expired /\ m.tx \in Expired..Max({PacketTime, AckTime})
  BY <1>8, NicNumbers DEF Expired
<1>11. SoundPair(f, Sent(n.qp[f]))
  <2>1. SoundPair(f, n.qp[f]) /\ m_sizes[f] \in Nat
    BY <1>1, NicSizes DEF Sound
  <2>2. n.qp[f].gap \in Nat /\ MinGap \in Nat /\ MaxGap \in Nat
        /\ n.qp[f].gap <= MaxGap /\ MinGap <= n.qp[f].gap
    BY <1>2, NicNumbers
  <2>3. (n.qp[f].left - 1) + (n.qp[f].fly + 1) <= m_sizes[f]
    BY <1>2, <2>1 DEF SoundPair
  <2>4. Pace(n.qp[f]) \in (MinGap - MaxGap)..MaxGap
        /\ Pace(n.qp[f]) \in (n.qp[f].gap - MaxGap)..n.qp[f].gap
    BY <2>2 DEF Pace
  <2> QED BY <2>3, <2>4 DEF Sent, SoundPair
<1>12. Sound(m)
  <2>1. ASSUME NEW g \in Flow PROVE SoundPair(g, m.qp[g])
    <3>1. CASE g = f
      BY <1>7, <1>8, <1>11, <3>1
    <3>2. CASE g # f
      BY <1>1, <1>7, <1>8, <3>2 DEF Sound
    <3> QED BY <3>1, <3>2
  <2> QED BY <1>1, <1>8, <1>10, <2>1 DEF Sound
<1>13. Once(m, S)
  BY <1>1, <1>7, <1>8 DEF Once
<1>14. Outcome(n, m, S)
  <2>1. \A g \in Flow : m.qp[g] # n.qp[g] => g = f
    BY <1>7, <1>8
  <2>2. m.qp[f] = Sent(n.qp[f])
    BY <1>7, <1>8
  <2>3. m.m_ackQ <= n.m_ackQ
    BY <1>2, <1>8
  <2> QED BY <1>8, <1>10, <2>1, <2>2, <2>3 DEF Outcome
<1>15. Awake(m)
  BY <1>10 DEF Awake
<1> QED BY <1>9, <1>12, <1>13, <1>14, <1>15 DEF Good, m

LEMMA ScheduleStep ==
  ASSUME NEW S \in SUBSET Flow, NEW n, Good(n, S), n.tx = Expired,
         \A f \in ToSet(n.m_qps) : ~MaySendNow(n, f)
  PROVE  LET m == ScheduleNextSend(n)
         IN  /\ Good(m, S) /\ Outcome(n, m, S) /\ Awake(m)
<1> DEFINE m == ScheduleNextSend(n)
           waiting == {f \in ToSet(n.m_qps) : n.qp[f].left > 0}
           times == {n.qp[f].avail : f \in waiting}
           t == Min(times)
<1>1. n \in Device(S) /\ Sound(n) /\ Once(n, S)
  BY DEF Good
<1>2. n.m_qps \in Seq(S) /\ n.m_ackQ \in Nat /\ n.tx \in Int
  BY <1>1, DeviceFields
<1>3. ToSet(n.m_qps) \in SUBSET S
  BY <1>2 DEF ToSet
<1>4. \A f \in Flow : n.qp[f].avail \in Int /\ MinGap - MaxGap <= n.qp[f].avail
                      /\ n.qp[f].avail <= MaxGap
  BY <1>1, NicNumbers DEF Sound, SoundPair
<1>5. MinGap - MaxGap \in Int /\ MaxGap \in Nat
  BY NicNumbers
<1>6. ASSUME waiting # {}
      PROVE  t \in Int /\ t <= MaxGap /\ \E f \in waiting : t = n.qp[f].avail
  <2>1. times \in SUBSET Int /\ times # {} /\ \A x \in times : MinGap - MaxGap <= x
    BY <1>3, <1>4, <1>6
  <2> HIDE DEF times
  <2>2. t \in times
    BY <1>5, <2>1, LeastInt
  <2>3. PICK f \in waiting : t = n.qp[f].avail
    BY <2>2 DEF times
  <2> HIDE DEF t
  <2> QED BY <1>3, <1>4, <2>3
<1>7. m = IF waiting # {} /\ n.m_nextSend = Expired /\ t > 0
          THEN [n EXCEPT !.m_nextSend = t] ELSE n
  BY DEF ScheduleNextSend
<1> HIDE DEF m, t, waiting
<1>8. CASE waiting # {} /\ n.m_nextSend = Expired /\ t > 0
  <2>1. m = [n EXCEPT !.m_nextSend = t] /\ t \in Int /\ t \in Expired..MaxGap /\ t # Expired
    BY <1>5, <1>6, <1>7, <1>8 DEF Expired
  <2>2. /\ m.m_qps = n.m_qps /\ m.qp = n.qp /\ m.tx = n.tx /\ m.m_ackQ = n.m_ackQ
        /\ m.m_paused = n.m_paused /\ m.m_nextSend = t /\ m \in Device(S)
    BY <1>1, <2>1 DEF Device
  <2>3. Sound(m) /\ Once(m, S)
    BY <1>1, <2>1, <2>2 DEF Sound, Once
  <2>4. Outcome(n, m, S)
    BY <1>2, <2>2 DEF Outcome
  <2>5. Awake(m)
    BY <2>1, <2>2 DEF Awake
  <2> QED BY <2>2, <2>3, <2>4, <2>5 DEF Good, m
<1>9. CASE ~(waiting # {} /\ n.m_nextSend = Expired /\ t > 0)
  <2>1. m = n
    BY <1>7, <1>9
  <2>2. Outcome(n, n, S)
    BY <1>2 DEF Outcome
  <2>3. Awake(n)
    <3> SUFFICES ASSUME n.m_nextSend = Expired, waiting # {}
                 PROVE  \E g \in ToSet(n.m_qps) : WaitsFor(n, g)
      BY DEF Awake, waiting
    <3>1. PICK f \in waiting : t = n.qp[f].avail
      BY <1>6
    <3>2. t \in Int /\ t <= 0
      BY <1>6, <1>9
    <3>3. f \in ToSet(n.m_qps) /\ n.qp[f].left > 0
      BY <3>1 DEF waiting
    <3>4. ~MaySend(n, f)
      BY <3>1, <3>2, <3>3 DEF MaySendNow
    <3> QED BY <3>1, <3>2, <3>3, <3>4 DEF WaitsFor
  <2> QED BY <2>1, <2>2, <2>3 DEF m
<1> QED BY <1>8, <1>9


(* DequeueAndTransmit keeps a device good, lets at most one packet go, and  *)
(* leaves the device with something that wakes it. *)
LEMMA Dequeues ==
  ASSUME NEW S \in SUBSET Flow, NEW n, Good(n, S)
  PROVE  LET m == DequeueAndTransmit(n)
         IN  /\ Good(m, S) /\ Outcome(n, m, S) /\ Awake(m)
<1> DEFINE hit == Hit(n)
           kept == Unfinished(n, hit)
           c == [n EXCEPT !.m_qps = kept]
           m == DequeueWith(n, hit, kept)
           ackFirst == ack_q_idx \notin n.m_paused /\ n.m_ackQ > 0
<1>1. n \in Device(S) /\ n.m_ackQ \in Nat /\ n.m_qps \in Seq(S)
  BY DeviceFields DEF Good
<1>2. m = IF n.tx # Expired THEN n
          ELSE IF ackFirst THEN SendAck(n)
          ELSE IF hit > Len(n.m_qps) THEN ScheduleNextSend(c)
          ELSE SendOf(c, n.m_qps[Place(n, hit)])
  BY DEF DequeueWith
<1>3. DequeueAndTransmit(n) = m
  BY DEF DequeueAndTransmit
<1>4. /\ hit \in 1..(Len(n.m_qps) + 1)
      /\ hit \in DOMAIN n.m_qps =>
           /\ Place(n, hit) \in DOMAIN n.m_qps
           /\ MaySendNow(n, n.m_qps[Place(n, hit)])
      /\ hit \notin DOMAIN n.m_qps => \A j \in DOMAIN n.m_qps : ~MaySendNow(n, n.m_qps[j])
  BY <1>1, HitProperties
<1> HIDE DEF hit
<1>5. /\ Good(c, S) /\ kept \in Seq(S)
      /\ c.m_qps = kept /\ c.qp = n.qp /\ c.tx = n.tx /\ c.m_ackQ = n.m_ackQ
      /\ c.m_paused = n.m_paused /\ c.m_nextSend = n.m_nextSend
      /\ \A f \in S : ~IsFinished(n.qp[f]) => \E i \in DOMAIN kept : kept[i] = f
      /\ \A i \in DOMAIN kept : \E j \in DOMAIN n.m_qps : kept[i] = n.m_qps[j]
  BY ClearedGood
<1> HIDE DEF kept, c, m
<1>6. \A f \in Flow : MaySendNow(c, f) <=> MaySendNow(n, f)
  BY <1>5 DEF MaySendNow, MaySend
<1>7. \A x : Outcome(c, x, S) => Outcome(n, x, S)
  <2> SUFFICES ASSUME NEW x, Outcome(c, x, S) PROVE Outcome(n, x, S)
    OBVIOUS
  <2> QED BY <1>5, <1>6 DEF Outcome
<1>8. DOMAIN n.m_qps = 1..Len(n.m_qps) /\ Len(n.m_qps) \in Nat
  BY <1>1
<1>9. CASE n.tx # Expired
  <2>1. m = n
    BY <1>2, <1>9
  <2>2. Outcome(n, n, S) /\ Awake(n)
    BY <1>1, <1>9 DEF Outcome, Awake
  <2> QED BY <1>3, <2>1, <2>2
<1>10. CASE n.tx = Expired /\ ackFirst
  <2>1. m = SendAck(n)
    BY <1>2, <1>10
  <2> QED BY <1>3, <1>10, <2>1, SendAckStep
<1>11. CASE n.tx = Expired /\ ~ackFirst /\ hit > Len(n.m_qps)
  <2>1. m = ScheduleNextSend(c)
    BY <1>2, <1>11
  <2>2. \A j \in DOMAIN n.m_qps : ~MaySendNow(n, n.m_qps[j])
    BY <1>4, <1>8, <1>11
  <2>3. ASSUME NEW f \in ToSet(c.m_qps) PROVE ~MaySendNow(c, f)
    <3>1. PICK i \in DOMAIN kept : f = kept[i]
      BY <1>5, <2>3 DEF ToSet
    <3>2. PICK j \in DOMAIN n.m_qps : kept[i] = n.m_qps[j]
      BY <1>5
    <3>3. n.m_qps[j] \in Flow
      BY <1>1, <1>8
    <3> QED BY <1>6, <2>2, <3>1, <3>2, <3>3
  <2>4. c.tx = Expired
    BY <1>5, <1>11
  <2>5. Good(m, S) /\ Outcome(c, m, S) /\ Awake(m)
    BY <1>5, <2>1, <2>3, <2>4, ScheduleStep
  <2> QED BY <1>3, <1>7, <2>5
<1>12. CASE n.tx = Expired /\ ~ackFirst /\ ~(hit > Len(n.m_qps))
  <2> DEFINE f == n.m_qps[Place(n, hit)]
  <2>1. m = SendOf(c, f)
    BY <1>2, <1>12
  <2>2. hit \in DOMAIN n.m_qps
    BY <1>4, <1>8, <1>12
  <2>3. f \in S /\ MaySendNow(n, f)
    BY <1>1, <1>4, <2>2
  <2> HIDE DEF f
  <2>4. ~IsFinished(n.qp[f])
    <3>1. n.qp[f].left > 0
      BY <2>3 DEF MaySendNow, MaySend
    <3> QED BY <3>1 DEF IsFinished
  <2>5. \E i \in DOMAIN c.m_qps : c.m_qps[i] = f
    BY <1>5, <2>3, <2>4
  <2>6. c.tx = Expired /\ MaySendNow(c, f)
    BY <1>5, <1>6, <1>12, <2>3
  <2>7. Good(m, S) /\ Outcome(c, m, S) /\ Awake(m)
    BY <1>5, <2>1, <2>3, <2>5, <2>6, SendOfStep
  <2> QED BY <1>3, <1>7, <2>7
<1> QED BY <1>9, <1>10, <1>11, <1>12

(* The actions that end in DequeueAndTransmit. *)
LEMMA DequeueAfterStep ==
  ASSUME NEW S \in SUBSET Flow, NEW made, Good(made, S), DequeueAfter(made)
  PROVE  Good(nic', S) /\ Outcome(made, nic', S) /\ Awake(nic')
<1>1. nic' = DequeueAndTransmit(made)
  BY DEF DequeueAfter, DequeueAndTransmit
<1> QED BY <1>1, Dequeues


-----------------------------------------------------------------------------
(* From the device an event has made to the next state.                    *)

LEMMA NicInvPrime ==
  ASSUME shifts_avail' = shifts_avail, shifts_avail \in BOOLEAN,
         m_qpMap' \in SUBSET Flow, IsFiniteSet(m_qpMap'),
         Good(nic', m_qpMap'), Awake(nic'),
         disturbed' \in 0..MaxDisturb, nic'.m_ackQ <= disturbed',
         \A f \in Flow \ m_qpMap' : nic'.qp[f].fly = 0 /\ nic'.qp[f].avail <= 0
  PROVE  NicInv'
<1>1. Good(nic, m_qpMap)'
  BY DEF Good, Sound, SoundPair, Once, Device, IsFinished
<1>2. Awake(nic)'
  BY DEF Awake, WaitsFor, MaySend, QpIsWinBound, GetWin, ToSet
<1>3. (\A f \in Flow \ m_qpMap : Unstarted(f))'
  BY DEF Unstarted
<1> QED BY <1>1, <1>2, <1>3 DEF NicInv

(* A packet of f leaves in this step: what SentInTurn says of it. *)
InTurn(f) ==
  /\ nic.tx <= 0
  /\ m_pg[f] \notin nic'.m_paused
  /\ GetWin(nic'.qp[f]) # 0 => nic'.qp[f].fly <= GetWin(nic'.qp[f])
  /\ nic.qp[f].avail + (IF shifts_avail THEN nic'.qp[f].gap - nic.qp[f].gap ELSE 0) <= 0
AllInTurn == \A f \in Flow : nic'.qp[f].left < nic.qp[f].left => InTurn(f)

(* The time of a queue pair after the congestion control has set its rate. *)
Shifted(qp, gap) == qp.avail + (IF shifts_avail THEN gap - qp.gap ELSE 0)
Moved(f, gap) == Shifted(nic.qp[f], gap)

LEMMA DeviceStep ==
  ASSUME NicInv, NEW R, NEW made \in Device(R),
         shifts_avail' = shifts_avail, m_qpMap' \in SUBSET Flow, IsFiniteSet(m_qpMap'),
         Good(nic', m_qpMap'), Outcome(made, nic', m_qpMap'), Awake(nic'),
         disturbed' \in 0..MaxDisturb, made.m_ackQ <= disturbed',
         made.tx = Expired => nic.tx <= 0,
         \A f \in Flow : /\ made.qp[f].left >= nic.qp[f].left
                         /\ made.qp[f].avail >= Moved(f, made.qp[f].gap),
         \A f \in Flow \ m_qpMap' : made.qp[f].fly = 0 /\ made.qp[f].avail <= 0
  PROVE  NicInv' /\ AllInTurn
<1>1. nic \in Device(m_qpMap) /\ nic' \in Device(m_qpMap') /\ shifts_avail \in BOOLEAN
  BY DEF NicInv, Good
<1>2. nic'.m_ackQ \in Nat /\ made.m_ackQ \in Nat /\ nic'.m_ackQ <= disturbed'
  <2>1. nic'.m_ackQ \in Nat /\ made.m_ackQ \in Nat
    BY <1>1, DeviceFields
  <2>2. nic'.m_ackQ <= made.m_ackQ
    BY DEF Outcome
  <2>3. disturbed' \in Int /\ made.m_ackQ <= disturbed'
    OBVIOUS
  <2> QED BY <2>1, <2>2, <2>3
<1>3. \A f \in Flow \ m_qpMap' : nic'.qp[f].fly = 0 /\ nic'.qp[f].avail <= 0
  BY DEF Outcome
<1>4. NicInv'
  BY <1>1, <1>2, <1>3, NicInvPrime
<1>5. ASSUME NEW f \in Flow, nic'.qp[f].left < nic.qp[f].left PROVE InTurn(f)
  <2>1. /\ nic.qp[f].left \in Nat /\ nic.qp[f].avail \in Int /\ nic.qp[f].gap \in Gap
        /\ nic'.qp[f].left \in Nat /\ made.qp[f].left \in Nat
    BY <1>1, DeviceFields
  <2>2. made.qp[f].fly \in Nat /\ made.qp[f].avail \in Int /\ made.qp[f].gap \in Gap
    BY DeviceFields
  <2>3. nic'.qp[f] # made.qp[f]
    BY <1>5, <2>1
  <2>4. /\ nic'.qp[f] = Sent(made.qp[f]) /\ MaySendNow(made, f) /\ made.tx = Expired
        /\ nic'.m_paused = made.m_paused
    BY <2>3 DEF Outcome
  <2>5. nic'.qp[f].gap = made.qp[f].gap /\ nic'.qp[f].fly = made.qp[f].fly + 1
    BY <2>4 DEF Sent
  <2>6. m_pg[f] \notin nic'.m_paused /\ made.qp[f].avail <= 0 /\ ~QpIsWinBound(made.qp[f])
    BY <2>4 DEF MaySendNow, MaySend
  <2>7. GetWin(nic'.qp[f]) # 0 => nic'.qp[f].fly <= GetWin(nic'.qp[f])
    <3>1. GetWin(nic'.qp[f]) = GetWin(made.qp[f])
      BY <2>5 DEF GetWin
    <3>2. GetWin(made.qp[f]) \in Nat
      BY <2>2, GetWinNat
    <3>3. GetWin(made.qp[f]) # 0 => made.qp[f].fly < GetWin(made.qp[f])
      BY <2>2, <2>6, <3>2 DEF QpIsWinBound
    <3> QED BY <2>2, <2>5, <3>1, <3>2, <3>3
  <2>8. Moved(f, nic'.qp[f].gap) <= 0
    <3>1. made.qp[f].avail >= Moved(f, nic'.qp[f].gap)
      BY <2>5
    <3>2. Moved(f, nic'.qp[f].gap) \in Int
      <4>1. nic'.qp[f].gap \in Int /\ nic.qp[f].gap \in Int
        BY <2>1, <2>2, <2>5, GapInt
      <4> QED BY <2>1, <4>1 DEF Moved, Shifted
    <3> QED BY <2>2, <2>6, <3>1, <3>2
  <2> QED BY <2>4, <2>6, <2>7, <2>8 DEF InTurn, Moved, Shifted
<1> QED BY <1>4, <1>5 DEF AllInTurn


-----------------------------------------------------------------------------
(* What the events make of the device.                                     *)

(* f joins the group. *)
LEMMA AppendedGood ==
  ASSUME NEW S \in SUBSET Flow, NEW n, Good(n, S), NEW f \in Flow, f \notin S
  PROVE  LET m == [n EXCEPT !.m_qps = Append(@, f)]
         IN  /\ Good(m, S \cup {f})
             /\ m.qp = n.qp /\ m.tx = n.tx /\ m.m_ackQ = n.m_ackQ
             /\ m.m_paused = n.m_paused /\ m.m_nextSend = n.m_nextSend
<1> DEFINE q == Append(n.m_qps, f)
           m == [n EXCEPT !.m_qps = q]
           U == S \cup {f}
<1>1. n \in Device(S) /\ Sound(n) /\ Once(n, S)
  BY DEF Good
<1>2. n.m_qps \in Seq(S) /\ n.m_qps \in Seq(U) /\ f \in U
  BY <1>1, DeviceFields
<1> DEFINE L == Len(n.m_qps)
<1>3. /\ q \in Seq(U) /\ L \in Nat /\ DOMAIN q = 1..(L + 1) /\ DOMAIN n.m_qps = 1..L
      /\ q[L + 1] = f /\ \A i \in 1..L : q[i] = n.m_qps[i] /\ n.m_qps[i] \in S
  BY <1>2
<1> HIDE DEF q, L
<1>4. m \in Device(U)
  BY <1>1, <1>3 DEF Device
<1>5. /\ m.m_qps = q /\ m.qp = n.qp /\ m.tx = n.tx /\ m.m_ackQ = n.m_ackQ
      /\ m.m_paused = n.m_paused /\ m.m_nextSend = n.m_nextSend
  BY <1>1 DEF Device
<1> HIDE DEF m
<1>6. Sound(m)
  BY <1>1, <1>5 DEF Sound
<1>7. Once(m, U)
  <2>1. ASSUME NEW i \in 1..(L + 1), NEW j \in 1..(L + 1), q[i] = q[j] PROVE i = j
    <3>1. (i \in 1..L \/ i = L + 1) /\ (j \in 1..L \/ j = L + 1)
      BY <1>3
    <3>2. \A x, y \in 1..L : n.m_qps[x] = n.m_qps[y] => x = y
      BY <1>1, <1>3 DEF Once
    <3> QED BY <1>3, <2>1, <3>1, <3>2
  <2>2. ASSUME NEW g \in U, ~IsFinished(n.qp[g]) PROVE \E i \in 1..(L + 1) : q[i] = g
    <3>1. CASE g = f
      BY <1>3, <3>1
    <3>2. CASE g \in S
      <4>1. PICK i \in 1..L : n.m_qps[i] = g
        BY <1>1, <1>3, <2>2, <3>2 DEF Once
      <4> QED BY <1>3, <4>1
    <3> QED BY <3>1, <3>2
  <2> QED BY <1>3, <1>5, <2>1, <2>2 DEF Once
<1> QED BY <1>4, <1>5, <1>6, <1>7 DEF Good, m, q

(* The queue pair of f becomes q. *)
LEMMA ReplacedGood ==
  ASSUME NEW S \in SUBSET Flow, NEW n, Good(n, S), NEW f \in Flow,
         NEW q \in QueuePair, SoundPair(f, q), IsFinished(n.qp[f]) => IsFinished(q)
  PROVE  LET m == [n EXCEPT !.qp[f] = q]
         IN  /\ Good(m, S)
             /\ m.qp[f] = q /\ \A g \in Flow : g # f => m.qp[g] = n.qp[g]
             /\ m.m_qps = n.m_qps /\ m.tx = n.tx /\ m.m_ackQ = n.m_ackQ
             /\ m.m_paused = n.m_paused /\ m.m_nextSend = n.m_nextSend
<1> DEFINE qps == [n.qp EXCEPT ![f] = q]
           m == [n EXCEPT !.qp[f] = q]
<1>1. n \in Device(S) /\ Sound(n) /\ Once(n, S)
  BY DEF Good
<1>2. n.qp \in [Flow -> QueuePair]
  BY <1>1, DeviceFields
<1>3. qps \in [Flow -> QueuePair] /\ qps[f] = q /\ \A g \in Flow : g # f => qps[g] = n.qp[g]
  BY <1>2
<1>4. m = [n EXCEPT !.qp = qps]
  OBVIOUS
<1> HIDE DEF qps, m
<1>5. m \in Device(S)
  BY <1>1, <1>3, <1>4 DEF Device
<1>6. /\ m.qp = qps /\ m.m_qps = n.m_qps /\ m.tx = n.tx /\ m.m_ackQ = n.m_ackQ
      /\ m.m_paused = n.m_paused /\ m.m_nextSend = n.m_nextSend
  BY <1>1, <1>4 DEF Device
<1>7. Sound(m)
  <2>1. ASSUME NEW g \in Flow PROVE SoundPair(g, m.qp[g])
    <3>1. CASE g = f
      BY <1>3, <1>6, <3>1
    <3>2. CASE g # f
      BY <1>1, <1>3, <1>6, <3>2 DEF Sound
    <3> QED BY <3>1, <3>2
  <2> QED BY <1>1, <1>6, <2>1 DEF Sound
<1>8. Once(m, S)
  <2>1. \A g \in S : ~IsFinished(m.qp[g]) => ~IsFinished(n.qp[g])
    BY <1>3, <1>6
  <2> QED BY <1>1, <1>6, <2>1 DEF Once
<1> QED BY <1>3, <1>5, <1>6, <1>7, <1>8 DEF Good, m

(* From n to m the rate of f changes, and its time if the congestion control *)
(* moves it. *)
RateSet(n, m, f, gap) ==
  /\ m.qp[f] = [left |-> n.qp[f].left, fly |-> n.qp[f].fly,
                avail |-> Shifted(n.qp[f], gap), gap |-> gap]
  /\ \A g \in Flow : g # f => m.qp[g] = n.qp[g]
  /\ m.m_qps = n.m_qps /\ m.tx = n.tx /\ m.m_ackQ = n.m_ackQ
  /\ m.m_paused = n.m_paused
LEMMA ChangeRateGood ==
  ASSUME NEW S \in SUBSET Flow, NEW n, Good(n, S), NEW f \in Flow, NEW gap \in Gap,
         shifts_avail \in BOOLEAN
  PROVE  Good(ChangeRate(n, f, gap), S) /\ RateSet(n, ChangeRate(n, f, gap), f, gap)
<1> DEFINE t == n.qp[f].avail + (IF shifts_avail THEN gap - n.qp[f].gap ELSE 0)
           q == [left |-> n.qp[f].left, fly |-> n.qp[f].fly, avail |-> t, gap |-> gap]
           r == [n EXCEPT !.qp[f] = q]
           m == ChangeRate(n, f, gap)
<1>1. n \in Device(S) /\ Sound(n)
  BY DEF Good
<1>2. /\ n.qp \in [Flow -> QueuePair] /\ n.qp[f] \in QueuePair
      /\ n.qp[f].left \in Nat /\ n.qp[f].fly \in Nat /\ n.qp[f].avail \in Int
      /\ n.qp[f].gap \in Gap
  BY <1>1, DeviceFields
<1>3. /\ n.qp[f].gap \in Int /\ gap \in Int /\ MinGap \in Nat /\ MaxGap \in Nat
      /\ MinGap <= gap /\ gap <= MaxGap
  BY <1>2, GapInt, NicNumbers
<1>4. SoundPair(f, n.qp[f])
  BY <1>1 DEF Sound
<1>5. t \in Int
  BY <1>2, <1>3
<1>6. t \in (MinGap - MaxGap)..MaxGap /\ (shifts_avail => t \in (gap - MaxGap)..gap)
  <2>1. CASE shifts_avail
    <3>1. n.qp[f].avail \in (n.qp[f].gap - MaxGap)..n.qp[f].gap
      BY <1>4, <2>1 DEF SoundPair
    <3>2. t = n.qp[f].avail + (gap - n.qp[f].gap)
      BY <2>1
    <3> HIDE DEF t
    <3> QED BY <1>2, <1>3, <3>1, <3>2
  <2>2. CASE ~shifts_avail
    BY <1>2, <1>4, <2>2 DEF SoundPair
  <2> QED BY <2>1, <2>2
<1>7. m = IF shifts_avail THEN UpdateNextAvail(r, t) ELSE r
  <2> DEFINE p1 == [n.qp[f] EXCEPT !.gap = gap]
             p2 == [p1 EXCEPT !.avail = t]
             e1 == [n.qp EXCEPT ![f] = p1]
             c1 == [n EXCEPT !.qp = e1]
             c2 == [c1 EXCEPT !.qp[f] = p2]
  <2>1. /\ p1 = [left |-> n.qp[f].left, fly |-> n.qp[f].fly, avail |-> n.qp[f].avail, gap |-> gap]
        /\ p1 \in QueuePair
    BY <1>2 DEF QueuePair
  <2>2. p2 = q
    <3> DEFINE p0 == [left |-> n.qp[f].left, fly |-> n.qp[f].fly, avail |-> n.qp[f].avail,
                      gap |-> gap]
    <3>1. [p0 EXCEPT !.avail = t] = q
      <4> HIDE DEF t
      <4> QED OBVIOUS
    <3>2. p1 = p0
      BY <2>1
    <3> HIDE DEF p0, p1, q, t
    <3> QED BY <3>1, <3>2
  <2>3. e1 \in [Flow -> QueuePair] /\ e1[f] = p1
    BY <1>2, <2>1
  <2>4. [n EXCEPT !.qp[f].gap = gap] = c1
    OBVIOUS
  <2>5. c1.qp = e1 /\ c1 \in Device(S)
    <3> HIDE DEF e1
    <3> QED BY <1>1, <2>3 DEF Device
  <2>6. [c1 EXCEPT !.qp[f].avail = t] = c2
    <3> HIDE DEF c1, e1, p1, t
    <3> QED BY <2>3, <2>5
  <2>7. c2 = r
    <3>1. [e1 EXCEPT ![f] = q] = [n.qp EXCEPT ![f] = q]
      <4> HIDE DEF p1, q
      <4> QED BY <1>2
    <3>2. c2 = [n EXCEPT !.qp = [e1 EXCEPT ![f] = q]]
      <4> HIDE DEF e1, p1, p2, q
      <4> QED BY <1>1, <2>2 DEF Device
    <3> HIDE DEF c2, e1, q
    <3> QED BY <3>1, <3>2
  <2>8. CASE shifts_avail
    <3> DEFINE u == n.qp[f].avail + gap - n.qp[f].gap
               d == [n EXCEPT !.qp[f].gap = gap]
    <3>1. u = t
      BY <1>2, <1>3, <2>8
    <3>2. ChangeRate(n, f, gap)
            = IF shifts_avail THEN UpdateNextAvail([d EXCEPT !.qp[f].avail = u], u) ELSE d
      BY Zenon DEF ChangeRate
    <3>3. d = c1
      BY <2>4
    <3> HIDE DEF t, u, d, r, c1, c2
    <3>4. [d EXCEPT !.qp[f].avail = u] = r
      BY <2>6, <2>7, <3>1, <3>3
    <3> QED BY <2>8, <3>1, <3>2, <3>4
  <2>9. CASE ~shifts_avail
    <3>1. q = p1
      BY <1>2, <2>1, <2>9
    <3>2. c1 = r
      BY <3>1
    <3> HIDE DEF t, r, c1
    <3> QED BY <2>4, <2>9, <3>2 DEF ChangeRate
  <2> QED BY <2>8, <2>9
<1> HIDE DEF t, m
<1>8. q \in QueuePair /\ q.left = n.qp[f].left /\ q.fly = n.qp[f].fly /\ q.avail = t /\ q.gap = gap
  BY <1>2, <1>5 DEF QueuePair
<1> HIDE DEF q
<1>9. SoundPair(f, q)
  BY <1>4, <1>6, <1>8 DEF SoundPair
<1>10. IsFinished(n.qp[f]) => IsFinished(q)
  BY <1>8 DEF IsFinished
<1>11. /\ Good(r, S) /\ r.qp[f] = q /\ \A g \in Flow : g # f => r.qp[g] = n.qp[g]
       /\ r.m_qps = n.m_qps /\ r.tx = n.tx /\ r.m_ackQ = n.m_ackQ
       /\ r.m_paused = n.m_paused /\ r.m_nextSend = n.m_nextSend
  BY <1>8, <1>9, <1>10, ReplacedGood
<1> HIDE DEF r
<1>12. CASE m = r
  BY <1>11, <1>12 DEF m, q, t, Shifted, RateSet
<1>13. CASE m # r
  <2> DEFINE w == Max({t, 0})
  <2>1. shifts_avail /\ r.m_nextSend # Expired /\ t < r.m_nextSend
        /\ m = [r EXCEPT !.m_nextSend = w]
    BY <1>7, <1>13 DEF UpdateNextAvail
  <2>2. w \in Nat /\ w <= MaxGap
    BY <1>3, <1>5, <1>6, MaxOfTwo
  <2> HIDE DEF w
  <2>3. r \in Device(S) /\ Sound(r) /\ Once(r, S)
    BY <1>11 DEF Good
  <2>4. /\ m \in Device(S) /\ m.qp = r.qp /\ m.m_nextSend = w
        /\ m.m_qps = r.m_qps /\ m.tx = r.tx /\ m.m_ackQ = r.m_ackQ
        /\ m.m_paused = r.m_paused
    BY <2>1, <2>2, <2>3 DEF Device
  <2>5. w \in Expired..MaxGap
    BY <1>3, <2>2 DEF Expired
  <2>6. Sound(m) /\ Once(m, S)
    BY <2>3, <2>4, <2>5 DEF Sound, Once
  <2>7. Good(m, S)
    BY <2>4, <2>6 DEF Good
  <2> QED BY <1>11, <2>1, <2>4, <2>7 DEF m, q, t, Shifted, RateSet
<1> QED BY <1>12, <1>13


-----------------------------------------------------------------------------
(* The actions, one by one.                                                *)

LEMMA FromNicInv ==
  ASSUME NicInv
  PROVE  /\ Good(nic, m_qpMap) /\ nic \in Device(m_qpMap) /\ Sound(nic) /\ Awake(nic)
         /\ m_qpMap \in SUBSET Flow /\ IsFiniteSet(m_qpMap)
         /\ shifts_avail \in BOOLEAN
         /\ disturbed \in Nat /\ disturbed \in 0..MaxDisturb /\ nic.m_ackQ <= disturbed
         /\ nic.m_ackQ \in Nat
         /\ \A f \in Flow \ m_qpMap : nic.qp[f].fly = 0 /\ nic.qp[f].avail <= 0
         /\ \A f \in Flow : Moved(f, nic.qp[f].gap) = nic.qp[f].avail
<1>1. Good(nic, m_qpMap) /\ nic \in Device(m_qpMap) /\ Sound(nic)
  BY DEF NicInv, Good
<1>2. nic.m_ackQ \in Nat
  BY <1>1, DeviceFields
<1>3. ASSUME NEW f \in Flow PROVE Moved(f, nic.qp[f].gap) = nic.qp[f].avail
  <2>1. nic.qp[f].avail \in Int /\ nic.qp[f].gap \in Gap
    BY <1>1, DeviceFields
  <2>2. nic.qp[f].gap \in Int
    BY <2>1, GapInt
  <2> QED BY <2>1, <2>2 DEF Moved, Shifted
<1>4. disturbed \in 0..MaxDisturb /\ disturbed \in Nat
  BY NicBounds DEF NicInv
<1> QED BY <1>1, <1>2, <1>3, <1>4 DEF NicInv, Unstarted

LEMMA StartFlowStep ==
  ASSUME NicInv, NEW f \in Flow, StartFlow(f)
  PROVE  NicInv' /\ AllInTurn
<1> DEFINE S == m_qpMap \cup {f}
           a == [nic EXCEPT !.m_qps = Append(@, f)]
           q == [left |-> nic.qp[f].left, fly |-> nic.qp[f].fly, avail |-> 0,
                 gap |-> nic.qp[f].gap]
           made == [nic EXCEPT !.m_qps = Append(@, f), !.qp[f].avail = 0]
<1>1. /\ f \notin m_qpMap /\ m_qpMap' = S /\ DequeueAfter(made)
      /\ shifts_avail' = shifts_avail /\ disturbed' = disturbed
  BY DEF StartFlow
<1>2. S \in SUBSET Flow /\ IsFiniteSet(S)
  BY FromNicInv, FS_AddElement
<1>3. /\ Good(a, S) /\ a.qp = nic.qp /\ a.tx = nic.tx /\ a.m_ackQ = nic.m_ackQ
  BY <1>1, FromNicInv, AppendedGood
<1>4. /\ nic.qp[f] \in QueuePair /\ nic.qp[f].left \in Nat /\ nic.qp[f].fly \in Nat
      /\ nic.qp[f].avail \in Int /\ nic.qp[f].gap \in Gap
      /\ nic.qp \in [Flow -> QueuePair]
  BY FromNicInv, DeviceFields
<1>5. [nic.qp[f] EXCEPT !.avail = 0] = q
  BY <1>4 DEF QueuePair
<1>6. made = [a EXCEPT !.qp[f] = q]
  <2>1. [nic.qp EXCEPT ![f].avail = 0] = [nic.qp EXCEPT ![f] = q]
    <3> HIDE DEF q
    <3> QED BY <1>4, <1>5
  <2>2. made = [a EXCEPT !.qp = [nic.qp EXCEPT ![f].avail = 0]]
    BY FromNicInv DEF Device
  <2> HIDE DEF made, a, q
  <2> QED BY <1>3, <2>1, <2>2
<1> HIDE DEF made, a
<1>7. q \in QueuePair /\ (IsFinished(nic.qp[f]) => IsFinished(q))
  BY <1>4 DEF QueuePair, IsFinished
<1>8. SoundPair(f, q)
  <2>1. SoundPair(f, nic.qp[f])
    BY FromNicInv DEF Sound
  <2>2. MinGap \in Int /\ MaxGap \in Int /\ nic.qp[f].gap \in Int
        /\ nic.qp[f].gap <= MaxGap /\ MinGap <= nic.qp[f].gap /\ nic.qp[f].gap > 0
    BY <1>4, GapInt, NicNumbers
  <2> QED BY <1>4, <2>1, <2>2 DEF SoundPair
<1>9. /\ Good(made, S) /\ made.qp[f] = q /\ \A g \in Flow : g # f => made.qp[g] = nic.qp[g]
      /\ made.tx = nic.tx /\ made.m_ackQ = nic.m_ackQ
  BY <1>2, <1>3, <1>6, <1>7, <1>8, ReplacedGood
<1>10. Good(nic', S) /\ Outcome(made, nic', S) /\ Awake(nic') /\ made \in Device(S)
  BY <1>1, <1>2, <1>9, DequeueAfterStep DEF Good
<1>11. nic.qp[f].avail <= 0
  BY <1>1, FromNicInv
<1>12. made.qp[f].left = nic.qp[f].left /\ made.qp[f].avail = 0 /\ made.qp[f].gap = nic.qp[f].gap
  BY <1>9
<1> HIDE DEF q
<1>13. ASSUME NEW g \in Flow
       PROVE  /\ made.qp[g].left >= nic.qp[g].left
              /\ made.qp[g].avail >= Moved(g, made.qp[g].gap)
  <2>1. /\ Moved(g, nic.qp[g].gap) = nic.qp[g].avail
        /\ nic.qp[g].left \in Nat /\ nic.qp[g].avail \in Int
    BY FromNicInv, DeviceFields
  <2>2. CASE g = f
    BY <1>11, <1>12, <2>1, <2>2
  <2>3. CASE g # f
    BY <1>9, <2>1, <2>3
  <2> QED BY <2>2, <2>3
<1>14. \A g \in Flow \ S : made.qp[g].fly = 0 /\ made.qp[g].avail <= 0
  BY <1>9, FromNicInv
<1>15. made.tx = Expired => nic.tx <= 0
  BY <1>9 DEF Expired
<1> HIDE DEF S
<1> QED BY <1>1, <1>2, <1>9, <1>10, <1>13, <1>14, <1>15, FromNicInv, DeviceStep


(* The events that leave the queue pairs alone before a packet leaves. *)
LEMMA EventStep ==
  ASSUME NicInv, NEW made \in Device(m_qpMap), DequeueAfter(made),
         UNCHANGED <<shifts_avail, m_qpMap>>,
         made.qp = nic.qp, made.m_qps = nic.m_qps,
         made.tx = Expired \/ made.tx = nic.tx, made.tx = Expired => nic.tx <= 0,
         made.m_nextSend = Expired \/ made.m_nextSend = nic.m_nextSend,
         disturbed' \in 0..MaxDisturb, made.m_ackQ <= disturbed'
  PROVE  NicInv' /\ AllInTurn
<1>1. Expired \in Expired..Max({PacketTime, AckTime}) /\ Expired \in Expired..MaxGap
  BY NicNumbers DEF Expired
<1>2. Sound(nic) /\ Once(nic, m_qpMap) /\ m_qpMap \in SUBSET Flow
  BY FromNicInv DEF Good
<1>3. Sound(made) /\ Once(made, m_qpMap)
  BY <1>1, <1>2 DEF Sound, Once
<1>4. Good(made, m_qpMap)
  BY <1>3 DEF Good
<1>5. Good(nic', m_qpMap) /\ Outcome(made, nic', m_qpMap) /\ Awake(nic')
  BY <1>2, <1>4, DequeueAfterStep
<1>6. ASSUME NEW g \in Flow
      PROVE  /\ made.qp[g].left >= nic.qp[g].left
             /\ made.qp[g].avail >= Moved(g, made.qp[g].gap)
  <2>1. /\ Moved(g, nic.qp[g].gap) = nic.qp[g].avail
        /\ nic.qp[g].left \in Nat /\ nic.qp[g].avail \in Int
    BY FromNicInv, DeviceFields
  <2> QED BY <2>1
<1>7. \A g \in Flow \ m_qpMap' : made.qp[g].fly = 0 /\ made.qp[g].avail <= 0
  BY FromNicInv
<1>8. m_qpMap' = m_qpMap /\ shifts_avail' = shifts_avail
  OBVIOUS
<1> QED BY <1>2, <1>5, <1>6, <1>7, <1>8, FromNicInv, DeviceStep

LEMMA TransmitCompleteStep ==
  ASSUME NicInv, TransmitComplete
  PROVE  NicInv' /\ AllInTurn
<1> DEFINE made == [nic EXCEPT !.tx = Expired]
<1>1. nic.tx = 0 /\ DequeueAfter(made) /\ UNCHANGED <<shifts_avail, m_qpMap, disturbed>>
  BY DEF TransmitComplete
<1>2. /\ made \in Device(m_qpMap) /\ made.qp = nic.qp /\ made.m_qps = nic.m_qps
      /\ made.tx = Expired /\ made.m_nextSend = nic.m_nextSend /\ made.m_ackQ = nic.m_ackQ
  <2>1. Expired \in Int
    BY DEF Expired
  <2> QED BY <2>1, FromNicInv DEF Device
<1> HIDE DEF made
<1> QED BY <1>1, <1>2, FromNicInv, EventStep

LEMMA NextSendStep ==
  ASSUME NicInv, NextSend
  PROVE  NicInv' /\ AllInTurn
<1> DEFINE made == [nic EXCEPT !.m_nextSend = Expired]
<1>1. DequeueAfter(made) /\ UNCHANGED <<shifts_avail, m_qpMap, disturbed>>
  BY DEF NextSend
<1>2. /\ made \in Device(m_qpMap) /\ made.qp = nic.qp /\ made.m_qps = nic.m_qps
      /\ made.tx = nic.tx /\ made.m_nextSend = Expired /\ made.m_ackQ = nic.m_ackQ
  <2>1. Expired \in Int
    BY DEF Expired
  <2> QED BY <2>1, FromNicInv DEF Device
<1> HIDE DEF made
<1>3. made.tx = Expired => nic.tx <= 0
  BY <1>2 DEF Expired
<1> QED BY <1>1, <1>2, <1>3, FromNicInv, EventStep

LEMMA NicReceiveUdpStep ==
  ASSUME NicInv, NicReceiveUdp
  PROVE  NicInv' /\ AllInTurn
<1> DEFINE made == [nic EXCEPT !.m_ackQ = @ + 1]
<1>1. /\ DequeueAfter(made) /\ UNCHANGED <<shifts_avail, m_qpMap>>
      /\ disturbed + 1 <= MaxDisturb /\ disturbed' = disturbed + 1
  BY DEF NicReceiveUdp, Disturb
<1>2. /\ made \in Device(m_qpMap) /\ made.qp = nic.qp /\ made.m_qps = nic.m_qps
      /\ made.tx = nic.tx /\ made.m_nextSend = nic.m_nextSend
      /\ made.m_ackQ = nic.m_ackQ + 1
  <2>1. nic.m_ackQ + 1 \in Nat
    BY FromNicInv
  <2> QED BY <2>1, FromNicInv DEF Device
<1> HIDE DEF made
<1>3. made.tx = Expired => nic.tx <= 0
  BY <1>2 DEF Expired
<1>4. disturbed' \in 0..MaxDisturb /\ made.m_ackQ <= disturbed'
  BY <1>1, <1>2, FromNicInv, NicBounds
<1> QED BY <1>1, <1>2, <1>3, <1>4, EventStep

LEMMA ReceiveResumeStep ==
  ASSUME NicInv, NEW g \in Group, ReceiveResume(g)
  PROVE  NicInv' /\ AllInTurn
<1> DEFINE made == [nic EXCEPT !.m_paused = @ \ {g}]
<1>1. DequeueAfter(made) /\ UNCHANGED <<shifts_avail, m_qpMap, disturbed>>
  BY DEF ReceiveResume
<1>2. /\ made \in Device(m_qpMap) /\ made.qp = nic.qp /\ made.m_qps = nic.m_qps
      /\ made.tx = nic.tx /\ made.m_nextSend = nic.m_nextSend /\ made.m_ackQ = nic.m_ackQ
  BY FromNicInv DEF Device
<1> HIDE DEF made
<1>3. made.tx = Expired => nic.tx <= 0
  BY <1>2 DEF Expired
<1> QED BY <1>1, <1>2, <1>3, FromNicInv, EventStep

LEMMA ReceivePauseStep ==
  ASSUME NicInv, NEW g \in Group, ReceivePause(g)
  PROVE  NicInv' /\ AllInTurn
<1> DEFINE n == [nic EXCEPT !.m_paused = @ \cup {g}]
<1>1. /\ nic' = n /\ UNCHANGED <<shifts_avail, m_qpMap>>
      /\ disturbed + 1 <= MaxDisturb /\ disturbed' = disturbed + 1
  BY DEF ReceivePause, Disturb
<1>2. /\ n \in Device(m_qpMap) /\ n.qp = nic.qp /\ n.m_qps = nic.m_qps
      /\ n.tx = nic.tx /\ n.m_nextSend = nic.m_nextSend /\ n.m_ackQ = nic.m_ackQ
      /\ nic.m_paused \subseteq n.m_paused
  BY FromNicInv DEF Device
<1> HIDE DEF n
<1>3. Sound(n) /\ Once(n, m_qpMap)
  BY <1>2, FromNicInv DEF Good, Sound, Once
<1>4. Awake(n)
  <2>1. \A f \in Flow : MaySend(n, f) => MaySend(nic, f)
    BY <1>2 DEF MaySend
  <2>2. ToSet(nic.m_qps) \subseteq Flow
    <3>1. nic.m_qps \in Seq(Flow)
      BY FromNicInv, DeviceFields
    <3> QED BY <3>1 DEF ToSet
  <2>3. \A f \in ToSet(nic.m_qps) : WaitsFor(nic, f) => WaitsFor(n, f)
    BY <1>2, <2>1, <2>2 DEF WaitsFor
  <2>4. Awake(nic)
    BY FromNicInv
  <2> QED BY <1>2, <2>3, <2>4 DEF Awake
<1>5. disturbed' \in 0..MaxDisturb /\ nic'.m_ackQ <= disturbed'
  BY <1>1, <1>2, FromNicInv, NicBounds
<1>6. NicInv'
  BY <1>1, <1>2, <1>3, <1>4, <1>5, FromNicInv, NicInvPrime DEF Good
<1>7. AllInTurn
  <2>1. \A f \in Flow : nic.qp[f].left \in Nat
    BY FromNicInv, DeviceFields
  <2> QED BY <1>1, <1>2, <2>1 DEF AllInTurn
<1> QED BY <1>6, <1>7


LEMMA NicReceiveAckStep ==
  ASSUME NicInv, NEW f \in Flow, NicReceiveAck(f)
  PROVE  NicInv' /\ AllInTurn
<1>1. PICK k \in 0..nic.qp[f].fly, nack \in BOOLEAN, gap \in Gap : AckOf(f, k, nack, gap)
  BY DEF NicReceiveAck
<1> DEFINE back == IF nack THEN nic.qp[f].fly - k ELSE 0
           acked == [nic EXCEPT !.qp[f].fly = @ - k - back, !.qp[f].left = @ + back]
           q == [left |-> nic.qp[f].left + back, fly |-> nic.qp[f].fly - k - back,
                 avail |-> nic.qp[f].avail, gap |-> nic.qp[f].gap]
           made == ChangeRate(acked, f, gap)
           events == {e \in {"nack", "rate"} : IF e = "nack" THEN nack ELSE gap # nic.qp[f].gap}
<1>2. /\ nic.qp[f].fly > 0 /\ Disturb(Cardinality(events)) /\ DequeueAfter(made)
      /\ UNCHANGED <<shifts_avail, m_qpMap>>
  BY <1>1 DEF AckOf
<1>3. disturbed' \in 0..MaxDisturb /\ disturbed <= disturbed'
  <2>1. IsFiniteSet(events) /\ Cardinality(events) \in Nat
    <3>1. IsFiniteSet({"nack", "rate"})
      <4>1. IsFiniteSet({"nack"})
        BY FS_Singleton
      <4>2. IsFiniteSet({"nack"} \cup {"rate"})
        BY <4>1, FS_AddElement
      <4>3. {"nack"} \cup {"rate"} = {"nack", "rate"}
        OBVIOUS
      <4> QED BY <4>2, <4>3
    <3> QED BY <3>1, FS_Subset, FS_CardinalityType
  <2> HIDE DEF events
  <2> QED BY <1>2, <2>1, FromNicInv, NicBounds DEF Disturb
<1>4. /\ nic.qp[f] \in QueuePair /\ nic.qp[f].left \in Nat /\ nic.qp[f].fly \in Nat
      /\ nic.qp[f].avail \in Int /\ nic.qp[f].gap \in Gap
      /\ nic.qp \in [Flow -> QueuePair]
  BY FromNicInv, DeviceFields
<1>5. back \in Nat /\ k \in Nat /\ k + back <= nic.qp[f].fly
  BY <1>1, <1>4
<1> HIDE DEF back
<1>6. acked = [nic EXCEPT !.qp[f] = q]
  <2> DEFINE p1 == [nic.qp[f] EXCEPT !.fly = @ - k - back]
             e1 == [nic.qp EXCEPT ![f] = p1]
             c1 == [nic EXCEPT !.qp = e1]
             p2 == [p1 EXCEPT !.left = @ + back]
  <2>1. /\ p1 = [left |-> nic.qp[f].left, fly |-> nic.qp[f].fly - k - back,
                 avail |-> nic.qp[f].avail, gap |-> nic.qp[f].gap]
        /\ p1 \in QueuePair
    <3>1. nic.qp[f].fly - k - back \in Nat
      BY <1>4, <1>5
    <3> QED BY <1>4, <3>1 DEF QueuePair
  <2>2. p2 = q
    <3> DEFINE p0 == [left |-> nic.qp[f].left, fly |-> nic.qp[f].fly - k - back,
                      avail |-> nic.qp[f].avail, gap |-> nic.qp[f].gap]
    <3>1. [p0 EXCEPT !.left = @ + back] = q
      OBVIOUS
    <3>2. p1 = p0
      BY <2>1
    <3> HIDE DEF p0, p1, q
    <3> QED BY <3>1, <3>2
  <2>3. e1 \in [Flow -> QueuePair] /\ e1[f] = p1
    BY <1>4, <2>1
  <2>4. [nic EXCEPT !.qp[f].fly = @ - k - back] = c1
    OBVIOUS
  <2>5. c1.qp = e1
    <3> HIDE DEF e1
    <3> QED BY FromNicInv, <2>3 DEF Device
  <2>6. acked = [c1 EXCEPT !.qp[f].left = @ + back]
    <3> HIDE DEF c1, e1
    <3> QED BY <2>4
  <2>7. [c1 EXCEPT !.qp[f].left = @ + back] = [c1 EXCEPT !.qp = [e1 EXCEPT ![f] = p2]]
    <3> HIDE DEF c1, e1, p1
    <3> QED BY <2>3, <2>5
  <2>8. [c1 EXCEPT !.qp = [e1 EXCEPT ![f] = p2]] = [nic EXCEPT !.qp[f] = q]
    <3>1. [e1 EXCEPT ![f] = q] = [nic.qp EXCEPT ![f] = q]
      <4> HIDE DEF p1, q
      <4> QED BY <1>4
    <3> HIDE DEF e1, p1, p2, q
    <3>2. [c1 EXCEPT !.qp = [e1 EXCEPT ![f] = q]] = [nic EXCEPT !.qp = [e1 EXCEPT ![f] = q]]
      BY FromNicInv DEF Device
    <3> QED BY <2>2, <3>1, <3>2
  <2> HIDE DEF acked, c1, e1, p1, p2, q
  <2> QED BY <2>6, <2>7, <2>8
<1> HIDE DEF acked
<1>7. q \in QueuePair /\ (IsFinished(nic.qp[f]) => IsFinished(q))
  <2>1. nic.qp[f].left + back \in Nat /\ nic.qp[f].fly - k - back \in Nat
    BY <1>4, <1>5
  <2> QED BY <1>2, <1>4, <2>1 DEF QueuePair, IsFinished
<1>8. /\ q.left = nic.qp[f].left + back /\ q.avail = nic.qp[f].avail
      /\ q.gap = nic.qp[f].gap /\ q.fly = nic.qp[f].fly - k - back
  OBVIOUS
<1> HIDE DEF q
<1>9. SoundPair(f, q)
  <2>1. SoundPair(f, nic.qp[f]) /\ m_sizes[f] \in Nat
    BY FromNicInv, NicSizes DEF Sound
  <2>2. q.left + q.fly <= m_sizes[f]
    BY <1>4, <1>5, <1>8, <2>1 DEF SoundPair
  <2> QED BY <1>8, <2>1, <2>2 DEF SoundPair
<1>10. /\ Good(acked, m_qpMap) /\ acked.qp[f] = q
       /\ \A g \in Flow : g # f => acked.qp[g] = nic.qp[g]
       /\ acked.tx = nic.tx /\ acked.m_ackQ = nic.m_ackQ
  <2> DEFINE r == [nic EXCEPT !.qp[f] = q]
  <2>1. /\ Good(r, m_qpMap) /\ r.qp[f] = q
        /\ \A g \in Flow : g # f => r.qp[g] = nic.qp[g]
        /\ r.tx = nic.tx /\ r.m_ackQ = nic.m_ackQ
    BY <1>7, <1>9, FromNicInv, ReplacedGood
  <2> HIDE DEF r
  <2>2. acked = r
    BY <1>6 DEF r
  <2> QED BY <2>1, <2>2
<1>11. /\ Good(made, m_qpMap)
       /\ made.qp[f].left = q.left /\ made.qp[f].fly = q.fly /\ made.qp[f].gap = gap
       /\ made.qp[f].avail = Shifted(q, gap)
       /\ \A g \in Flow : g # f => made.qp[g] = nic.qp[g]
       /\ made.tx = nic.tx /\ made.m_ackQ = nic.m_ackQ
  <2> DEFINE p == [left |-> acked.qp[f].left, fly |-> acked.qp[f].fly,
                   avail |-> Shifted(acked.qp[f], gap), gap |-> gap]
  <2>1. /\ Good(made, m_qpMap) /\ made.qp[f] = p
        /\ \A g \in Flow : g # f => made.qp[g] = acked.qp[g]
        /\ made.tx = acked.tx /\ made.m_ackQ = acked.m_ackQ
    <3>1. Good(acked, m_qpMap) /\ m_qpMap \in SUBSET Flow /\ shifts_avail \in BOOLEAN
      BY <1>10, FromNicInv
    <3>2. Good(made, m_qpMap) /\ RateSet(acked, made, f, gap)
      BY <3>1, ChangeRateGood
    <3> HIDE DEF made
    <3> QED BY <3>2 DEF RateSet
  <2>2. p.left = q.left /\ p.fly = q.fly /\ p.gap = gap /\ p.avail = Shifted(q, gap)
    BY <1>10
  <2> HIDE DEF made, p
  <2> QED BY <1>10, <2>1, <2>2
<1> HIDE DEF made
<1>12. /\ Good(nic', m_qpMap) /\ Outcome(made, nic', m_qpMap) /\ Awake(nic')
       /\ made \in Device(m_qpMap)
  BY <1>2, <1>11, FromNicInv, DequeueAfterStep DEF Good
<1>13. ASSUME NEW g \in Flow
       PROVE  /\ made.qp[g].left >= nic.qp[g].left
              /\ made.qp[g].avail >= Moved(g, made.qp[g].gap)
  <2>1. /\ Moved(g, nic.qp[g].gap) = nic.qp[g].avail
        /\ nic.qp[g].left \in Nat /\ nic.qp[g].avail \in Int
    BY FromNicInv, DeviceFields
  <2>2. CASE g = f
    <3>1. made.qp[f].left >= nic.qp[f].left
      BY <1>4, <1>5, <1>8, <1>11
    <3>2. made.qp[f].avail = Moved(f, made.qp[f].gap)
      BY <1>8, <1>11 DEF Moved, Shifted
    <3>3. made.qp[f].avail \in Int
      BY <1>12, DeviceFields
    <3>4. made.qp[f].avail >= Moved(f, made.qp[f].gap)
      BY <3>2, <3>3
    <3> QED BY <2>2, <3>1, <3>4
  <2>3. CASE g # f
    BY <1>11, <2>1, <2>3
  <2> QED BY <2>2, <2>3
<1>14. \A g \in Flow \ m_qpMap' : made.qp[g].fly = 0 /\ made.qp[g].avail <= 0
  <2>1. f \in m_qpMap
    BY <1>2, FromNicInv
  <2> QED BY <1>2, <1>11, <2>1, FromNicInv
<1>15. made.tx = Expired => nic.tx <= 0
  BY <1>11 DEF Expired
<1>16. made.m_ackQ <= disturbed'
  BY <1>3, <1>11, FromNicInv
<1> QED BY <1>2, <1>3, <1>12, <1>13, <1>14, <1>15, <1>16, FromNicInv, DeviceStep


LEMMA RateTimerStep ==
  ASSUME NicInv, NEW f \in Flow, RateTimer(f)
  PROVE  NicInv' /\ AllInTurn
<1>1. PICK gap \in Gap : nic' = ChangeRate(nic, f, gap)
  BY DEF RateTimer
<1>2. /\ ~shifts_avail /\ f \in m_qpMap /\ UNCHANGED <<shifts_avail, m_qpMap>>
      /\ disturbed + 1 <= MaxDisturb /\ disturbed' = disturbed + 1
  BY DEF RateTimer, Disturb
<1> DEFINE m == ChangeRate(nic, f, gap)
           q == [left |-> nic.qp[f].left, fly |-> nic.qp[f].fly,
                 avail |-> Shifted(nic.qp[f], gap), gap |-> gap]
<1>3. /\ Good(m, m_qpMap) /\ m.qp[f] = q
      /\ \A g \in Flow : g # f => m.qp[g] = nic.qp[g]
      /\ m.m_qps = nic.m_qps /\ m.tx = nic.tx /\ m.m_ackQ = nic.m_ackQ
      /\ m.m_paused = nic.m_paused /\ m.m_nextSend = nic.m_nextSend
  <2>1. Good(nic, m_qpMap) /\ m_qpMap \in SUBSET Flow /\ shifts_avail \in BOOLEAN
    BY FromNicInv
  <2>2. /\ Good(m, m_qpMap) /\ m.qp[f] = q
        /\ \A g \in Flow : g # f => m.qp[g] = nic.qp[g]
        /\ m.m_qps = nic.m_qps /\ m.tx = nic.tx /\ m.m_ackQ = nic.m_ackQ
        /\ m.m_paused = nic.m_paused
    <3>1. Good(m, m_qpMap) /\ RateSet(nic, m, f, gap)
      BY <2>1, ChangeRateGood
    <3> HIDE DEF m
    <3> QED BY <3>1 DEF RateSet
  <2>3. m.m_nextSend = nic.m_nextSend
    BY <1>2, FromNicInv DEF ChangeRate, Device
  <2> QED BY <2>2, <2>3
<1>4. nic.qp[f].avail \in Int /\ \A g \in Flow : nic.qp[g].left \in Nat /\ nic.qp[g].fly \in Nat
      /\ nic.qp[g].gap \in Gap
  BY FromNicInv, DeviceFields
<1>5. q.left = nic.qp[f].left /\ q.fly = nic.qp[f].fly /\ q.avail = nic.qp[f].avail
  BY <1>2, <1>4 DEF Shifted
<1> HIDE DEF m, q
<1>6. \A g \in Flow : /\ m.qp[g].left = nic.qp[g].left /\ m.qp[g].fly = nic.qp[g].fly
                      /\ m.qp[g].avail = nic.qp[g].avail
  BY <1>3, <1>5
<1>7. ASSUME NEW g \in Flow, WaitsFor(nic, g) PROVE WaitsFor(m, g)
  <2>1. m.qp[g].left > 0 /\ m.qp[g].avail <= 0
    BY <1>6, <1>7 DEF WaitsFor
  <2>2. CASE ~MaySend(nic, g)
    <3>1. CASE g # f
      BY <1>3, <2>1, <2>2, <3>1 DEF WaitsFor, MaySend
    <3>2. CASE g = f /\ MaySend(m, g)
      <4>1. QpIsWinBound(nic.qp[g]) /\ ~QpIsWinBound(m.qp[g])
        BY <1>3, <1>6, <2>2, <3>2 DEF MaySend
      <4>2. GetWin(nic.qp[g]) # GetWin(m.qp[g])
        BY <1>6, <4>1 DEF QpIsWinBound
      <4>3. var_win
        BY <4>2 DEF GetWin
      <4>4. nic.qp[g].fly > 0
        <5>1. GetWin(nic.qp[g]) \in Nat
          BY <1>4, GetWinNat
        <5> QED BY <1>4, <4>1, <5>1 DEF QpIsWinBound
      <4>5. m.qp[g].fly > 0
        BY <1>6, <4>4
      <4> QED BY <1>2, <2>1, <4>3, <4>5, Zenon DEF WaitsFor
    <3>3. CASE ~MaySend(m, g)
      BY <2>1, <3>3 DEF WaitsFor
    <3> QED BY <3>1, <3>2, <3>3
  <2>3. CASE var_win /\ nic.qp[g].fly > 0
    <3>1. m.qp[g].fly > 0
      BY <1>6, <2>3
    <3> QED BY <1>2, <2>1, <2>3, <3>1, Zenon DEF WaitsFor
  <2> QED BY <1>7, <2>2, <2>3, Zenon DEF WaitsFor
<1>8. Awake(m)
  <2>1. nic.m_qps \in Seq(Flow)
    BY FromNicInv, DeviceFields
  <2>2. ToSet(nic.m_qps) \subseteq Flow
    BY <2>1 DEF ToSet
  <2>3. Awake(nic)
    BY FromNicInv
  <2>4. \A g \in ToSet(nic.m_qps) : WaitsFor(nic, g) => WaitsFor(m, g)
    BY <1>7, <2>2
  <2> QED BY <1>3, <1>6, <2>2, <2>3, <2>4 DEF Awake
<1>9. \A g \in Flow \ m_qpMap' : m.qp[g].fly = 0 /\ m.qp[g].avail <= 0
  BY <1>2, <1>6, FromNicInv
<1>10. disturbed' \in 0..MaxDisturb /\ m.m_ackQ <= disturbed'
  BY <1>2, <1>3, FromNicInv, NicBounds
<1>11. nic' = m
  BY <1>1 DEF m
<1>12. NicInv'
  BY <1>2, <1>3, <1>8, <1>9, <1>10, <1>11, FromNicInv, NicInvPrime
<1>13. AllInTurn
  BY <1>4, <1>6, <1>11 DEF AllInTurn
<1> QED BY <1>12, <1>13

(* Several calls of DequeueAndTransmit, one after the other. *)
LEMMA OutcomeChain ==
  ASSUME NEW n, NEW m, NEW w, NEW S, NEW T, S \subseteq T,
         n.m_ackQ \in Int, m.m_ackQ \in Int, w.m_ackQ \in Int,
         Outcome(n, m, T), Outcome(m, w, S)
  PROVE  Outcome(n, w, T)
<1>1. w.m_paused = n.m_paused /\ w.m_ackQ <= n.m_ackQ /\ (n.tx # Expired => w.tx # Expired)
  BY DEF Outcome
<1>2. ASSUME NEW f \in Flow, w.qp[f] # n.qp[f]
      PROVE  /\ f \in T /\ w.qp[f] = Sent(n.qp[f]) /\ MaySendNow(n, f)
             /\ n.tx = Expired /\ w.tx # Expired
  <2>1. CASE m.qp[f] # n.qp[f]
    <3>1. /\ f \in T /\ m.qp[f] = Sent(n.qp[f]) /\ MaySendNow(n, f)
          /\ n.tx = Expired /\ m.tx # Expired
      BY <2>1 DEF Outcome
    <3>2. w.qp[f] = m.qp[f] /\ w.tx # Expired
      BY <3>1 DEF Outcome
    <3> QED BY <3>1, <3>2
  <2>2. CASE m.qp[f] = n.qp[f]
    <3>1. /\ f \in S /\ w.qp[f] = Sent(m.qp[f]) /\ MaySendNow(m, f)
          /\ m.tx = Expired /\ w.tx # Expired
      BY <1>2, <2>2 DEF Outcome
    <3>2. n.tx = Expired /\ m.m_paused = n.m_paused
      BY <3>1 DEF Outcome
    <3>3. MaySendNow(n, f)
      BY <2>2, <3>1, <3>2 DEF MaySendNow, MaySend
    <3> QED BY <2>2, <3>1, <3>2, <3>3
  <2> QED BY <2>1, <2>2
<1> QED BY <1>1, <1>2 DEF Outcome


AfterUpTo(cleared, order, n, g) ==
  g = [k \in 0..n |-> IF k = 0 THEN cleared ELSE Reassigned(g[k - 1], order[k])]

LEMMA AfterExists ==
  ASSUME NEW cleared, NEW order, NEW N \in Nat
  PROVE  \E g : AfterUpTo(cleared, order, N, g)
<1> DEFINE K == {n \in Nat : \E g : AfterUpTo(cleared, order, n, g)}
<1>1. 0 \in K
  <2> DEFINE z == [k \in 0..0 |-> cleared]
  <2>1. AfterUpTo(cleared, order, 0, z)
    BY DEF AfterUpTo
  <2> QED BY <2>1
<1>2. ASSUME NEW n \in Nat, n \in K PROVE n + 1 \in K
  <2>1. PICK g : AfterUpTo(cleared, order, n, g)
    BY <1>2
  <2> DEFINE last == Reassigned(g[n], order[n + 1])
             h == [k \in 0..(n + 1) |-> IF k = n + 1 THEN last ELSE g[k]]
  <2>2. ASSUME NEW k \in 0..(n + 1)
        PROVE  h[k] = IF k = 0 THEN cleared ELSE Reassigned(h[k - 1], order[k])
    <3>1. CASE k = n + 1
      <4> HIDE DEF last
      <4>1. k # 0 /\ k - 1 = n /\ k - 1 \in 0..(n + 1) /\ h[k - 1] = g[n] /\ h[k] = last
        BY <3>1
      <4> HIDE DEF h
      <4> QED BY <3>1, <4>1 DEF last
    <3>2. CASE k \in 0..n
      <4>1. h[k] = g[k] /\ (k # 0 => h[k - 1] = g[k - 1])
        <5> HIDE DEF last
        <5> QED BY <3>2
      <4> HIDE DEF h
      <4>2. g[k] = IF k = 0 THEN cleared ELSE Reassigned(g[k - 1], order[k])
        BY <2>1, <3>2 DEF AfterUpTo
      <4> QED BY <4>1, <4>2
    <3> QED BY <3>1, <3>2
  <2>3. AfterUpTo(cleared, order, n + 1, h)
    <3>1. h = [k \in 0..(n + 1) |-> h[k]]
      OBVIOUS
    <3> HIDE DEF h
    <3> QED BY <2>2, <3>1 DEF AfterUpTo
  <2> QED BY <2>3
<1>3. Nat \subseteq K
  BY <1>1, <1>2, SetInduction
<1> QED BY <1>3

(* The devices on the way, one for each flow that has been added. *)
LEMMA ReassigningSteps ==
  ASSUME NEW cleared, NEW order, Len(order) \in Nat
  PROVE  \E after : /\ after[0] = cleared /\ Reassigning(cleared, order) = after[Len(order)]
                    /\ \A k \in 1..Len(order) : after[k] = Reassigned(after[k - 1], order[k])
<1> DEFINE N == Len(order)
           c == CHOOSE g : AfterUpTo(cleared, order, N, g)
<1>1. Reassigning(cleared, order) = c[N]
  BY DEF Reassigning, AfterUpTo
<1>2. AfterUpTo(cleared, order, N, c)
  BY AfterExists
<1> HIDE DEF c, N
<1>3. N \in Nat
  BY DEF N
<1>4. \A k \in 0..N : c[k] = IF k = 0 THEN cleared ELSE Reassigned(c[k - 1], order[k])
  BY <1>2 DEF AfterUpTo
<1>5. c[0] = cleared /\ \A k \in 1..N : c[k] = Reassigned(c[k - 1], order[k])
  <2>1. 0 \in 0..N /\ \A k \in 1..N : k \in 0..N /\ k # 0
    BY <1>3
  <2> QED BY <1>4, <2>1
<1> QED BY <1>1, <1>5 DEF N


(* The flows of an order of a finite set, each once. *)
LEMMA OrderProperties ==
  ASSUME NEW S, IsFiniteSet(S), NEW order \in SetToSeqs(S)
  PROVE  /\ Len(order) \in Nat
         /\ \A i \in 1..Len(order) : order[i] \in S
         /\ \A i, j \in 1..Len(order) : order[i] = order[j] => i = j
         /\ \A f \in S : \E i \in 1..Len(order) : order[i] = f
<1> DEFINE N == Cardinality(S)
           D == 1..N
<1>1. N \in Nat
  BY FS_CardinalityType
<1>2. order \in [D -> S] /\ \A i, j \in D : i # j => order[i] # order[j]
  BY DEF SetToSeqs
<1>3. DOMAIN order = D /\ Len(order) = N
  <2> HIDE DEF N
  <2> QED BY <1>1, <1>2
<1>4. order \in Injection(D, S)
  BY <1>2 DEF Injection, IsInjective
<1>5. IsFiniteSet(D) /\ Cardinality(D) = N
  <2> HIDE DEF N
  <2> QED BY <1>1, FS_Interval
<1>6. order \in Surjection(D, S)
  <2> HIDE DEF D
  <2> QED BY <1>4, <1>5, FS_Injection
<1>7. \A f \in S : \E i \in D : order[i] = f
  BY <1>6 DEF Surjection
<1> HIDE DEF N
<1> QED BY <1>1, <1>2, <1>3, <1>7

LEMMA RedistributeQpStep ==
  ASSUME NicInv, RedistributeQp
  PROVE  NicInv' /\ AllInTurn
<1> DEFINE cleared == [nic EXCEPT !.m_qps = <<>>]
<1>1. PICK order \in SetToSeqs(m_qpMap) : nic' = Reassigning(cleared, order)
  BY DEF RedistributeQp
<1>2. /\ UNCHANGED <<shifts_avail, m_qpMap>>
      /\ disturbed + 1 <= MaxDisturb /\ disturbed' = disturbed + 1
  BY DEF RedistributeQp, Disturb
<1> DEFINE N == Len(order)
<1>3. /\ N \in Nat /\ \A i \in 1..N : order[i] \in m_qpMap
      /\ \A i, j \in 1..N : order[i] = order[j] => i = j
      /\ \A f \in m_qpMap : \E i \in 1..N : order[i] = f
  BY FromNicInv, OrderProperties
<1>4. PICK after : /\ after[0] = cleared /\ Reassigning(cleared, order) = after[N]
                   /\ \A k \in 1..N : after[k] = Reassigned(after[k - 1], order[k])
  BY <1>3, ReassigningSteps
<1>5. /\ cleared \in Device({}) /\ cleared.qp = nic.qp /\ cleared.m_qps = <<>>
      /\ cleared.tx = nic.tx /\ cleared.m_ackQ = nic.m_ackQ
      /\ cleared.m_paused = nic.m_paused /\ cleared.m_nextSend = nic.m_nextSend
  <2>1. <<>> \in Seq({})
    OBVIOUS
  <2> QED BY <2>1, FromNicInv DEF Device
<1> HIDE DEF cleared, N
<1>6. Good(cleared, {})
  <2>1. Sound(cleared)
    BY <1>5, FromNicInv DEF Sound
  <2>2. Once(cleared, {})
    BY <1>5 DEF Once
  <2> QED BY <1>5, <2>1, <2>2 DEF Good
<1> DEFINE Added(k) == {order[i] : i \in 1..k}
           Ok(k) == /\ Good(after[k], Added(k)) /\ Awake(after[k])
                    /\ Outcome(cleared, after[k], m_qpMap)
           K == {k \in Nat : k <= N => Ok(k)}
<1>7. 0 \in K
  <2>1. Added(0) = {}
    OBVIOUS
  <2>2. Awake(cleared)
    BY <1>5 DEF Awake, ToSet
  <2>3. Outcome(cleared, cleared, m_qpMap)
    <3>1. cleared.m_ackQ \in Nat
      BY <1>5, DeviceFields
    <3> QED BY <3>1 DEF Outcome
  <2> HIDE DEF Added
  <2> QED BY <1>4, <1>6, <2>1, <2>2, <2>3
<1>8. ASSUME NEW k \in Nat, k \in K PROVE k + 1 \in K
  <2> SUFFICES ASSUME k + 1 <= N PROVE Ok(k + 1)
    OBVIOUS
  <2> DEFINE n == after[k]
             f == order[k + 1]
             a == [n EXCEPT !.m_qps = Append(@, f)]
             m == DequeueAndTransmit(a)
  <2>1. k + 1 \in 1..N /\ (k + 1) - 1 = k /\ k <= N
    BY <1>3
  <2>2. Good(n, Added(k)) /\ Outcome(cleared, n, m_qpMap)
    BY <1>8, <2>1
  <2>3. after[k + 1] = m
    BY <1>4, <2>1 DEF Reassigned
  <2>4. \A i \in 1..k : i \in 1..N /\ i # k + 1
    BY <1>3
  <2>5. Added(k) \in SUBSET Flow /\ f \in Flow /\ f \notin Added(k)
    BY <1>3, <2>1, <2>4, FromNicInv
  <2>6. Added(k + 1) = Added(k) \cup {f} /\ Added(k + 1) \in SUBSET m_qpMap
    <3>1. 1..(k + 1) = 1..k \cup {k + 1}
      OBVIOUS
    <3> QED BY <1>3, <2>1, <2>4, <3>1
  <2> HIDE DEF Added, n, f
  <2>7. /\ Good(a, Added(k + 1))
        /\ a.qp = n.qp /\ a.tx = n.tx /\ a.m_ackQ = n.m_ackQ /\ a.m_paused = n.m_paused
    BY <2>2, <2>5, <2>6, AppendedGood
  <2> HIDE DEF a
  <2>8. Added(k + 1) \in SUBSET Flow
    BY <2>6, FromNicInv
  <2>9. Good(m, Added(k + 1)) /\ Outcome(a, m, Added(k + 1)) /\ Awake(m)
    BY <2>7, <2>8, Dequeues
  <2> HIDE DEF m
  <2>10. Outcome(n, m, Added(k + 1))
    <3>1. \A g \in Flow : MaySendNow(a, g) <=> MaySendNow(n, g)
      BY <2>7 DEF MaySendNow, MaySend
    <3> QED BY <2>7, <2>9, <3>1 DEF Outcome
  <2>11. cleared.m_ackQ \in Int /\ n.m_ackQ \in Int /\ m.m_ackQ \in Int
    <3>1. n \in Device(Added(k)) /\ m \in Device(Added(k + 1))
      BY <2>2, <2>9 DEF Good
    <3>2. cleared.m_ackQ \in Nat /\ n.m_ackQ \in Nat /\ m.m_ackQ \in Nat
      BY <1>5, <3>1, DeviceFields
    <3> QED BY <3>2
  <2>12. Outcome(cleared, m, m_qpMap)
    BY <2>2, <2>6, <2>10, <2>11, OutcomeChain
  <2> QED BY <2>3, <2>9, <2>12
<1>9. Nat \subseteq K
  <2> HIDE DEF K
  <2> QED BY <1>7, <1>8, SetInduction
<1>10. Ok(N)
  <2>1. N \in K
    <3> HIDE DEF K
    <3> QED BY <1>3, <1>9
  <2> HIDE DEF Ok
  <2> QED BY <1>3, <2>1
<1>11. Added(N) = m_qpMap
  BY <1>3
<1>12. Good(nic', m_qpMap) /\ Awake(nic') /\ Outcome(cleared, nic', m_qpMap)
  BY <1>1, <1>4, <1>10, <1>11
<1>13. ASSUME NEW g \in Flow
       PROVE  /\ cleared.qp[g].left >= nic.qp[g].left
              /\ cleared.qp[g].avail >= Moved(g, cleared.qp[g].gap)
  <2>1. /\ Moved(g, nic.qp[g].gap) = nic.qp[g].avail
        /\ nic.qp[g].left \in Nat /\ nic.qp[g].avail \in Int
    BY FromNicInv, DeviceFields
  <2> QED BY <1>5, <2>1
<1>14. \A g \in Flow \ m_qpMap' : cleared.qp[g].fly = 0 /\ cleared.qp[g].avail <= 0
  BY <1>2, <1>5, FromNicInv
<1>15. cleared.tx = Expired => nic.tx <= 0
  BY <1>5 DEF Expired
<1>16. disturbed' \in 0..MaxDisturb /\ cleared.m_ackQ <= disturbed'
  BY <1>2, <1>5, FromNicInv, NicBounds
<1> HIDE DEF Added, Ok, K
<1> QED BY <1>2, <1>5, <1>12, <1>13, <1>14, <1>15, <1>16, FromNicInv, DeviceStep


LEMMA TickStep ==
  ASSUME NicInv, Tick
  PROVE  NicInv' /\ AllInTurn
<1> DEFINE later(t) == IF t = Expired THEN t ELSE t - 1
           floor(f) == nic.qp[f].gap - MaxGap
           time(f) == Max({nic.qp[f].avail - 1, floor(f)})
           qps == [f \in Flow |-> [nic.qp[f] EXCEPT !.avail = time(f)]]
           n == [nic EXCEPT !.tx = later(@), !.m_nextSend = later(@), !.qp = qps]
<1>1. /\ nic.tx # 0 /\ nic.m_nextSend # 0 /\ nic' = n
      /\ UNCHANGED <<shifts_avail, m_qpMap, disturbed>>
  BY DEF Tick
<1>2. nic.qp \in [Flow -> QueuePair] /\ nic.tx \in Int /\ nic.m_nextSend \in Int
  BY FromNicInv, DeviceFields
<1>3. ASSUME NEW f \in Flow
      PROVE  /\ nic.qp[f] \in QueuePair /\ SoundPair(f, nic.qp[f])
             /\ nic.qp[f].left \in Nat /\ nic.qp[f].fly \in Nat /\ nic.qp[f].avail \in Int
             /\ nic.qp[f].gap \in Gap /\ nic.qp[f].gap \in Int
             /\ MinGap <= nic.qp[f].gap /\ nic.qp[f].gap <= MaxGap
  <2>1. /\ nic.qp[f] \in QueuePair /\ SoundPair(f, nic.qp[f])
        /\ nic.qp[f].left \in Nat /\ nic.qp[f].fly \in Nat /\ nic.qp[f].avail \in Int
        /\ nic.qp[f].gap \in Gap
    BY FromNicInv, DeviceFields DEF Sound
  <2> QED BY <2>1, GapInt
<1>4. MinGap \in Nat /\ MaxGap \in Nat
  BY NicNumbers
<1>5. ASSUME NEW f \in Flow
      PROVE  /\ time(f) \in Int /\ floor(f) <= time(f) /\ time(f) <= MaxGap
             /\ MinGap - MaxGap <= time(f)
             /\ nic.qp[f].avail <= nic.qp[f].gap => time(f) <= nic.qp[f].gap
             /\ nic.qp[f].avail <= 0 => time(f) <= 0
  <2>1. floor(f) \in Int /\ nic.qp[f].avail - 1 \in Int
    BY <1>3, <1>4
  <2>2. time(f) = IF nic.qp[f].avail - 1 >= floor(f) THEN nic.qp[f].avail - 1 ELSE floor(f)
    <3> HIDE DEF floor
    <3> QED BY <2>1, MaxOfTwo
  <2>3. nic.qp[f].avail <= MaxGap
    BY <1>3 DEF SoundPair
  <2> HIDE DEF time
  <2> QED BY <1>3, <1>4, <2>1, <2>2, <2>3
<1> HIDE DEF time
<1>6. ASSUME NEW f \in Flow
      PROVE  /\ qps[f] \in QueuePair /\ qps[f].left = nic.qp[f].left
             /\ qps[f].fly = nic.qp[f].fly /\ qps[f].gap = nic.qp[f].gap
             /\ qps[f].avail = time(f)
  <2>1. qps[f] = [nic.qp[f] EXCEPT !.avail = time(f)]
    OBVIOUS
  <2> HIDE DEF qps
  <2> QED BY <1>3, <1>5, <2>1 DEF QueuePair
<1>7. qps \in [Flow -> QueuePair]
  BY <1>6
<1> HIDE DEF qps
<1>8. later(nic.tx) \in Int /\ later(nic.m_nextSend) \in Int
  BY <1>2 DEF Expired
<1> HIDE DEF later
<1>9. /\ n \in Device(m_qpMap) /\ n.qp = qps /\ n.m_qps = nic.m_qps
      /\ n.tx = later(nic.tx) /\ n.m_nextSend = later(nic.m_nextSend)
      /\ n.m_ackQ = nic.m_ackQ /\ n.m_paused = nic.m_paused
  BY <1>7, <1>8, FromNicInv DEF Device
<1> HIDE DEF n
<1>10. ASSUME NEW b \in Nat, NEW t \in Expired..b, t # 0
       PROVE  later(t) \in Expired..b /\ (later(t) = Expired <=> t = Expired)
  BY <1>10 DEF later, Expired
<1>11. /\ n.tx \in Expired..Max({PacketTime, AckTime}) /\ n.m_nextSend \in Expired..MaxGap
       /\ n.tx = Expired <=> nic.tx = Expired
       /\ n.m_nextSend = Expired <=> nic.m_nextSend = Expired
  <2>1. nic.tx \in Expired..Max({PacketTime, AckTime}) /\ nic.m_nextSend \in Expired..MaxGap
    BY FromNicInv DEF Sound
  <2>2. Max({PacketTime, AckTime}) \in Nat
    BY NicNumbers
  <2> QED BY <1>1, <1>4, <1>9, <1>10, <2>1, <2>2
<1>12. Sound(n)
  <2>1. ASSUME NEW f \in Flow PROVE SoundPair(f, n.qp[f])
    <3>1. /\ nic.qp[f].left + nic.qp[f].fly <= m_sizes[f]
          /\ shifts_avail => nic.qp[f].avail <= nic.qp[f].gap
      BY <1>3 DEF SoundPair
    <3>2. time(f) \in (MinGap - MaxGap)..MaxGap
      BY <1>4, <1>5
    <3>3. shifts_avail => time(f) \in (nic.qp[f].gap - MaxGap)..nic.qp[f].gap
      BY <1>3, <1>4, <1>5, <3>1
    <3> QED BY <1>6, <1>9, <3>1, <3>2, <3>3 DEF SoundPair
  <2> QED BY <1>11, <2>1 DEF Sound
<1>13. Once(n, m_qpMap)
  <2>1. \A f \in m_qpMap : IsFinished(n.qp[f]) <=> IsFinished(nic.qp[f])
    BY <1>6, <1>9, FromNicInv DEF IsFinished
  <2> QED BY <1>9, <2>1, FromNicInv DEF Good, Once
<1>14. Awake(n)
  <2>1. nic.m_qps \in Seq(Flow)
    BY FromNicInv, DeviceFields
  <2>2. ToSet(nic.m_qps) \subseteq Flow
    BY <2>1 DEF ToSet
  <2>3. \A f \in Flow : MaySend(n, f) <=> MaySend(nic, f)
    BY <1>6, <1>9 DEF MaySend, QpIsWinBound, GetWin
  <2>4. \A f \in ToSet(nic.m_qps) : WaitsFor(nic, f) => WaitsFor(n, f)
    BY <1>5, <1>6, <1>9, <2>2, <2>3 DEF WaitsFor
  <2>5. Awake(nic)
    BY FromNicInv
  <2> QED BY <1>6, <1>9, <1>11, <2>2, <2>4, <2>5 DEF Awake
<1>15. \A f \in Flow \ m_qpMap' : n.qp[f].fly = 0 /\ n.qp[f].avail <= 0
  BY <1>1, <1>5, <1>6, <1>9, FromNicInv
<1>16. NicInv'
  BY <1>1, <1>9, <1>12, <1>13, <1>14, <1>15, FromNicInv, NicInvPrime DEF Good
<1>17. AllInTurn
  BY <1>1, <1>3, <1>6, <1>9 DEF AllInTurn
<1> QED BY <1>16, <1>17


-----------------------------------------------------------------------------
(* What holds of every run of the host's egress scheduler.                 *)

LEMMA InitNicInv ==
  ASSUME NicInit
  PROVE  NicInv
<1>1. MinGap \in Gap /\ MinGap \in Nat \ {0} /\ MaxGap \in Nat \ {0} /\ MinGap <= MaxGap
      /\ Max({PacketTime, AckTime}) \in Nat
  BY NicNumbers
<1>2. ASSUME NEW f \in Flow
      PROVE  NewQueuePair(f) \in QueuePair /\ SoundPair(f, NewQueuePair(f))
             /\ NewQueuePair(f).fly = 0 /\ NewQueuePair(f).avail = 0
  <2>1. m_sizes[f] \in Nat
    BY NicSizes
  <2>2. NewQueuePair(f) \in QueuePair
    BY <1>1, <2>1 DEF NewQueuePair, QueuePair
  <2>3. SoundPair(f, NewQueuePair(f))
    <3>1. 0 \in (MinGap - MaxGap)..MaxGap /\ 0 \in (MinGap - MaxGap)..MinGap
      BY <1>1
    <3> QED BY <2>1, <3>1 DEF NewQueuePair, SoundPair
  <2> QED BY <2>2, <2>3 DEF NewQueuePair
<1> DEFINE qps == [f \in Flow |-> NewQueuePair(f)]
<1>3. /\ nic = [qp |-> qps, m_qps |-> <<>>, m_rrlast |-> 0, m_ackQ |-> 0,
                m_paused |-> {}, tx |-> Expired, m_nextSend |-> Expired]
      /\ m_qpMap = {} /\ disturbed = 0 /\ shifts_avail \in BOOLEAN
  BY DEF NicInit
<1>4. qps \in [Flow -> QueuePair] /\ \A f \in Flow : qps[f] = NewQueuePair(f)
  BY <1>2
<1> HIDE DEF qps
<1>5. Expired \in Int /\ Expired \in Expired..MaxGap
      /\ Expired \in Expired..Max({PacketTime, AckTime})
  BY <1>1 DEF Expired
<1>6. <<>> \in Seq({}) /\ DOMAIN <<>> = {} /\ {} \in SUBSET Group
  OBVIOUS
<1>7. nic \in Device({})
  BY <1>3, <1>4, <1>5, <1>6 DEF Device
<1>8. Sound(nic)
  BY <1>2, <1>3, <1>4, <1>5 DEF Sound
<1>9. Once(nic, {})
  BY <1>3, <1>6 DEF Once
<1>10. Awake(nic)
  BY <1>3, <1>6 DEF Awake, ToSet
<1>11. \A f \in Flow : Unstarted(f)
  BY <1>2, <1>3, <1>4 DEF Unstarted
<1>12. disturbed \in 0..MaxDisturb /\ nic.m_ackQ <= disturbed
  BY <1>3, NicBounds
<1>13. IsFiniteSet({})
  BY FS_EmptySet
<1> QED BY <1>3, <1>7, <1>8, <1>9, <1>10, <1>11, <1>12, <1>13 DEF NicInv, Good

LEMMA NicStep ==
  ASSUME NicInv, NicNext
  PROVE  NicInv' /\ AllInTurn
<1>1. CASE \E f \in Flow : StartFlow(f) \/ NicReceiveAck(f) \/ RateTimer(f)
  BY <1>1, StartFlowStep, NicReceiveAckStep, RateTimerStep
<1>2. CASE \E g \in Group : ReceivePause(g) \/ ReceiveResume(g)
  BY <1>2, ReceivePauseStep, ReceiveResumeStep
<1>3. CASE TransmitComplete
  BY <1>3, TransmitCompleteStep
<1>4. CASE NextSend
  BY <1>4, NextSendStep
<1>5. CASE NicReceiveUdp
  BY <1>5, NicReceiveUdpStep
<1>6. CASE RedistributeQp
  BY <1>6, RedistributeQpStep
<1>7. CASE Tick
  BY <1>7, TickStep
<1> QED BY <1>1, <1>2, <1>3, <1>4, <1>5, <1>6, <1>7 DEF NicNext

LEMMA NicIdle ==
  ASSUME NicInv, UNCHANGED nic_vars
  PROVE  NicInv'
<1>1. Good(nic', m_qpMap') /\ Awake(nic')
  BY FromNicInv DEF nic_vars
<1>2. \A f \in Flow \ m_qpMap' : nic'.qp[f].fly = 0 /\ nic'.qp[f].avail <= 0
  BY FromNicInv DEF nic_vars
<1>3. /\ shifts_avail' = shifts_avail /\ m_qpMap' = m_qpMap /\ nic' = nic
      /\ disturbed' = disturbed
  BY DEF nic_vars
<1>4. disturbed' \in 0..MaxDisturb /\ nic'.m_ackQ <= disturbed'
  BY <1>3, FromNicInv
<1> QED BY <1>1, <1>2, <1>3, <1>4, FromNicInv, NicInvPrime

LEMMA NicInvAlways == NicSpec => []NicInv
<1>1. NicInit => NicInv
  BY InitNicInv
<1>2. NicInv /\ [NicNext]_nic_vars => NicInv'
  BY NicStep, NicIdle
<1> QED BY <1>1, <1>2, PTL DEF NicSpec

(* The device, its queue pairs and its events keep their types and bounds,  *)
(* for all flows, rates, times and windows (qbb-net-device.cc:93-129,       *)
(* :257-296). *)
THEOREM NicTypeCorrect == NicSpec => []NicTypeOK
<1>1. NicInv => NicTypeOK
  <2> SUFFICES ASSUME NicInv PROVE NicTypeOK
    OBVIOUS
  <2>1. nic.qp \in [Flow -> [left : Nat, fly : Nat, avail : (MinGap - MaxGap)..MaxGap, gap : Gap]]
    <3>1. nic.qp \in [Flow -> QueuePair] /\ \A f \in Flow : SoundPair(f, nic.qp[f])
      BY FromNicInv, DeviceFields DEF Sound
    <3>2. \A q \in QueuePair : q.avail \in (MinGap - MaxGap)..MaxGap =>
            q \in [left : Nat, fly : Nat, avail : (MinGap - MaxGap)..MaxGap, gap : Gap]
      BY DEF QueuePair
    <3>3. \A f \in Flow : nic.qp[f].avail \in (MinGap - MaxGap)..MaxGap
      BY <3>1 DEF SoundPair
    <3> QED BY <3>1, <3>2, <3>3
  <2>2. \A f \in Flow : /\ nic.qp[f].left + nic.qp[f].fly <= m_sizes[f]
                        /\ shifts_avail => nic.qp[f].avail <= nic.qp[f].gap
    BY FromNicInv DEF Sound, SoundPair
  <2>3. /\ nic.m_qps \in Seq(m_qpMap) /\ nic.m_rrlast \in Nat /\ nic.m_paused \subseteq Group
        /\ nic.tx \in Expired..Max({PacketTime, AckTime}) /\ nic.m_nextSend \in Expired..MaxGap
    BY FromNicInv, DeviceFields DEF Sound
  <2>4. nic.m_ackQ \in 0..MaxDisturb
    BY FromNicInv, NicBounds
  <2> QED BY <2>1, <2>2, <2>3, <2>4, FromNicInv DEF NicTypeOK
<1> QED BY <1>1, NicInvAlways, PTL

(* No flow with something to do is lost from the group of the NIC or in it  *)
(* twice, for any number of flows and any order in which they are           *)
(* redistributed (qbb-net-device.cc:114-127, rdma-hw.cc:513-529). *)
THEOREM FlowsKept == NicSpec => []NoFlowForgotten
<1>1. NicInv => NoFlowForgotten
  <2> SUFFICES ASSUME NicInv, NEW f \in m_qpMap, ~IsFinished(nic.qp[f])
               PROVE  Cardinality({i \in DOMAIN nic.m_qps : nic.m_qps[i] = f}) = 1
    BY DEF NoFlowForgotten
  <2>1. Once(nic, m_qpMap)
    BY FromNicInv DEF Good
  <2>2. PICK i \in DOMAIN nic.m_qps : nic.m_qps[i] = f
    BY <2>1 DEF Once
  <2>3. {j \in DOMAIN nic.m_qps : nic.m_qps[j] = f} = {i}
    BY <2>1, <2>2 DEF Once
  <2> QED BY <2>3, FS_Singleton
<1> QED BY <1>1, NicInvAlways, PTL

(* An idle device with a packet it could send has a wake-up pending or      *)
(* waits for an ACK or the end of a pause, whatever the flows, the rates,   *)
(* the windows and the groups (qbb-net-device.cc:284-295). *)
THEOREM NeverLeftAsleep == NicSpec => []WakeUpPending
<1>1. NicInv => WakeUpPending
  <2> SUFFICES ASSUME NicInv, NEW f \in ToSet(nic.m_qps), nic.tx = Expired, MaySend(nic, f),
                      nic.m_nextSend = Expired
               PROVE  \E g \in ToSet(nic.m_qps) : WaitsFor(nic, g)
    BY DEF WakeUpPending, WaitsFor
  <2>1. nic.qp[f].left > 0
    BY DEF MaySend
  <2> QED BY <2>1, FromNicInv DEF Awake
<1> QED BY <1>1, NicInvAlways, PTL

(* Every packet that leaves leaves in its turn: the device is free, the     *)
(* flow not paused, its window open and its time come, whatever the same    *)
(* event has done to its rate and to the group before (qbb-net-device.cc:   *)
(* 93-129, rdma-hw.cc:586-598). *)
THEOREM PacketsInTurn == NicSpec => SentInTurn
<1>1. NicInv /\ [NicNext]_nic_vars =>
        [\A f \in Flow : nic'.qp[f].left < nic.qp[f].left =>
           /\ nic.tx <= 0
           /\ m_pg[f] \notin nic'.m_paused
           /\ GetWin(nic'.qp[f]) # 0 => nic'.qp[f].fly <= GetWin(nic'.qp[f])
           /\ nic.qp[f].avail
                + (IF shifts_avail THEN nic'.qp[f].gap - nic.qp[f].gap ELSE 0) <= 0]_nic_vars
  BY NicStep, Zenon DEF AllInTurn, InTurn
<1> QED BY <1>1, NicInvAlways, PTL DEF NicSpec, SentInTurn

=============================================================================
