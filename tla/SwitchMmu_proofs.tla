-------------------------- MODULE SwitchMmu_proofs --------------------------
(***************************************************************************)
(* The invariants of SwitchMmu, for every number of ports and queues, every *)
(* packet size and every configuration that leaves a pool to share; and,    *)
(* of PfcHeadroom, that no packet of an upstream that obeys PFC is dropped. *)
(***************************************************************************)
EXTENDS PfcHeadroom, NatSums_proofs, SequenceTheorems

Counters == [Port -> [Queue -> Nat]]
Stores == [Port -> [Port -> [Queue -> Nat]]]

-----------------------------------------------------------------------------
(* The threshold of a port is within what is left of the pool. *)
LEMMA ThresholdRange ==
  ASSUME NEW i \in Port, NEW shared \in Nat, shared <= SharedPool
  PROVE  PfcThreshold(i, shared) \in Nat /\ PfcThreshold(i, shared) <= SharedPool - shared
<1>1. PfcDiv[i] \in Nat /\ PfcDiv[i] >= 1
  BY MmuConfig
<1>2. \A a \in Nat, d \in Nat : d >= 1 => a \div d \in Nat /\ a \div d <= a
  BY SMTT(30)
<1>3. SharedPool - shared \in Nat
  BY MmuPool
<1>4. QED
  BY <1>1, <1>2, <1>3 DEF PfcThreshold

LEMMA SharedUsedNat ==
  ASSUME NEW n \in Nat
  PROVE  SharedUsed(n) \in Nat /\ SharedUsed(n) <= n /\ n - SharedUsed(n) <= Reserve
BY MmuConfig DEF SharedUsed

(* Changing one ingress counter changes what is used of the pool by the    *)
(* change of that counter's own use. *)
LEMMA PoolTotalUpdate ==
  ASSUME NEW ing \in Counters, NEW i \in Port, NEW q \in Queue, NEW v \in Nat
  PROVE  PoolTotal([ing EXCEPT ![i][q] = v])
           = PoolTotal(ing) + SharedUsed(v) - SharedUsed(ing[i][q])
<1> DEFINE new == [ing EXCEPT ![i][q] = v]
           use(c, p) == [k \in Queue |-> SharedUsed(c[p][k])]
           per(c) == [p \in Port |-> PoolOf(c, p)]
<1>1. new \in Counters
  BY DEF Counters
<1>2. \A c \in Counters, p \in Port : use(c, p) \in [1..NQueue -> Int]
  <2>1. ASSUME NEW c \in Counters, NEW p \in Port, NEW k \in Queue
        PROVE  SharedUsed(c[p][k]) \in Int
    BY SharedUsedNat DEF Counters
  <2>2. QED
    BY <2>1 DEF Queue
<1>3. \A c \in Counters, p \in Port : PoolOf(c, p) \in Int
  BY <1>2, SumToType, MmuSizes DEF PoolOf
<1>4. PoolOf(new, i) = PoolOf(ing, i) + SharedUsed(v) - SharedUsed(ing[i][q])
  <2>1. \A k \in 1..NQueue : k # q => use(new, i)[k] = use(ing, i)[k]
    BY DEF Counters, Queue
  <2>2. use(new, i)[q] = SharedUsed(v) /\ use(ing, i)[q] = SharedUsed(ing[i][q])
    BY DEF Counters
  <2>3. use(new, i) \in [1..NQueue -> Int] /\ use(ing, i) \in [1..NQueue -> Int]
    BY <1>1, <1>2
  <2>4. q \in 1..NQueue
    BY DEF Queue
  <2> HIDE DEF use, new
  <2>5. SumTo(use(new, i), NQueue) = SumTo(use(ing, i), NQueue)
                                     + use(new, i)[q] - use(ing, i)[q]
    BY <2>1, <2>3, <2>4, SumToUpdate, MmuSizes
  <2>6. QED
    BY <2>2, <2>5 DEF PoolOf, use
<1>5. \A p \in Port : p # i => PoolOf(new, p) = PoolOf(ing, p)
  BY DEF PoolOf, Counters
<1>6. per(new) \in [1..NPort -> Int] /\ per(ing) \in [1..NPort -> Int]
  BY <1>1, <1>3 DEF Port
<1>7. /\ \A p \in 1..NPort : p # i => per(new)[p] = per(ing)[p]
      /\ per(new)[i] = PoolOf(new, i) /\ per(ing)[i] = PoolOf(ing, i)
  BY <1>5 DEF Port
<1>8. SumTo(per(new), NPort) = SumTo(per(ing), NPort) + per(new)[i] - per(ing)[i]
  <2> HIDE DEF per, new
  <2>1. QED
    BY <1>6, <1>7, SumToUpdate, MmuSizes DEF Port
<1>9. PoolTotal(ing) \in Int
  <2>1. SumTo(per(ing), NPort) \in Int
    BY <1>6, SumToType, MmuSizes
  <2>2. QED
    BY <2>1 DEF PoolTotal
<1>10. SharedUsed(v) \in Int /\ SharedUsed(ing[i][q]) \in Int
  BY SharedUsedNat DEF Counters
<1>11. QED
  BY <1>1, <1>3, <1>4, <1>7, <1>8, <1>9, <1>10 DEF PoolTotal

(* A (port, queue)'s use of the pool is part of the total. *)
LEMMA PoolTotalCovers ==
  ASSUME NEW ing \in Counters, NEW i \in Port, NEW q \in Queue
  PROVE  PoolTotal(ing) \in Nat /\ SharedUsed(ing[i][q]) <= PoolTotal(ing)
<1> DEFINE use == [p \in Port |-> [k \in Queue |-> SharedUsed(ing[p][k])]]
           per == [p \in Port |-> PoolOf(ing, p)]
<1>1. \A p \in Port : use[p] \in [1..NQueue -> Nat]
  BY SharedUsedNat DEF Counters, Queue
<1>2. \A p \in Port : PoolOf(ing, p) = SumTo(use[p], NQueue)
  BY DEF PoolOf
<1>3. \A p \in Port : PoolOf(ing, p) \in Nat
  <2> HIDE DEF use
  <2>1. QED
    BY <1>1, <1>2, SumToNat, MmuSizes
<1>4. SharedUsed(ing[i][q]) <= PoolOf(ing, i)
  <2>1. use[i][q] = SharedUsed(ing[i][q])
    OBVIOUS
  <2> HIDE DEF use
  <2>2. use[i][q] <= SumTo(use[i], NQueue)
    BY <1>1, SumToNat, MmuSizes DEF Queue
  <2>3. QED
    BY <1>2, <2>1, <2>2
<1>5. per \in [1..NPort -> Nat] /\ per[i] = PoolOf(ing, i)
  BY <1>3 DEF Port
<1>6. SumTo(per, NPort) \in Nat /\ per[i] <= SumTo(per, NPort)
  <2> HIDE DEF per
  <2>1. QED
    BY <1>5, SumToNat, MmuSizes DEF Port
<1>7. PoolTotal(ing) = SumTo(per, NPort)
  BY DEF PoolTotal
<1>8. SharedUsed(ing[i][q]) \in Nat
  BY SharedUsedNat DEF Counters
<1>9. QED
  BY <1>3, <1>4, <1>5, <1>6, <1>7, <1>8

(* One m_bytes cell takes the value v. *)
SetCell(mb, i, o, q, v) == [mb EXCEPT ![i][o][q] = v]

(* What is stored for an (ingress port, queue) follows one m_bytes cell. *)
LEMMA StoredUpdate ==
  ASSUME NEW mb \in Stores, NEW i \in Port, NEW o \in Port, NEW q \in Queue, NEW v \in Nat
  PROVE  /\ Stored(SetCell(mb, i, o, q, v), i, q) = Stored(mb, i, q) + v - mb[i][o][q]
         /\ \A j \in Port, r \in Queue : j # i \/ r # q =>
              Stored(SetCell(mb, i, o, q, v), j, r) = Stored(mb, j, r)
<1> DEFINE new == SetCell(mb, i, o, q, v)
           row(b, j, r) == [p \in Port |-> b[j][p][r]]
<1>1. \A j \in Port, r \in Queue : j # i \/ r # q => row(new, j, r) = row(mb, j, r)
  BY DEF Stores, SetCell
<1>2. row(mb, i, q) \in [1..NPort -> Int] /\ row(new, i, q) \in [1..NPort -> Int]
  <2>1. \A p \in Port : mb[i][p][q] \in Int /\ new[i][p][q] \in Int
    BY DEF Stores, SetCell
  <2>2. QED
    BY <2>1 DEF Port
<1>3. /\ \A p \in 1..NPort : p # o => row(new, i, q)[p] = row(mb, i, q)[p]
      /\ row(new, i, q)[o] = v /\ row(mb, i, q)[o] = mb[i][o][q]
  BY DEF Stores, Port, SetCell
<1>4. \A b, j, r : Stored(b, j, r) = SumTo(row(b, j, r), NPort)
  BY DEF Stored
<1>5. SumTo(row(new, i, q), NPort) = SumTo(row(mb, i, q), NPort) + v - mb[i][o][q]
  <2> HIDE DEF row, new
  <2>1. QED
    BY <1>2, <1>3, SumToUpdate, MmuSizes, SMTT(40) DEF Port
<1>6. QED
  <2> HIDE DEF row
  <2>1. QED
    BY <1>1, <1>4, <1>5

(* What waits for an (egress port, queue) follows one m_bytes cell. *)
LEMMA WaitingUpdate ==
  ASSUME NEW mb \in Stores, NEW i \in Port, NEW o \in Port, NEW q \in Queue, NEW v \in Nat
  PROVE  /\ Waiting(SetCell(mb, i, o, q, v), o, q) = Waiting(mb, o, q) + v - mb[i][o][q]
         /\ \A p \in Port, r \in Queue : p # o \/ r # q =>
              Waiting(SetCell(mb, i, o, q, v), p, r) = Waiting(mb, p, r)
<1> DEFINE new == SetCell(mb, i, o, q, v)
           col(b, p, r) == [j \in Port |-> b[j][p][r]]
<1>1. \A p \in Port, r \in Queue : p # o \/ r # q => col(new, p, r) = col(mb, p, r)
  BY DEF Stores, SetCell
<1>2. col(mb, o, q) \in [1..NPort -> Int] /\ col(new, o, q) \in [1..NPort -> Int]
  <2>1. \A j \in Port : mb[j][o][q] \in Int /\ new[j][o][q] \in Int
    BY DEF Stores, SetCell
  <2>2. QED
    BY <2>1 DEF Port
<1>3. /\ \A j \in 1..NPort : j # i => col(new, o, q)[j] = col(mb, o, q)[j]
      /\ col(new, o, q)[i] = v /\ col(mb, o, q)[i] = mb[i][o][q]
  BY DEF Stores, Port, SetCell
<1>4. \A b, p, r : Waiting(b, p, r) = SumTo(col(b, p, r), NPort)
  BY DEF Waiting
<1>5. SumTo(col(new, o, q), NPort) = SumTo(col(mb, o, q), NPort) + v - mb[i][o][q]
  <2> HIDE DEF col, new
  <2>1. QED
    BY <1>2, <1>3, SumToUpdate, MmuSizes, ZenonT(40) DEF Port
<1>6. QED
  <2> HIDE DEF col
  <2>1. QED
    BY <1>1, <1>4, <1>5

(* The sums cover each of their cells. *)
LEMMA StoreSums ==
  ASSUME NEW mb \in Stores, NEW i \in Port, NEW o \in Port, NEW q \in Queue
  PROVE  /\ Stored(mb, i, q) \in Nat /\ mb[i][o][q] <= Stored(mb, i, q)
         /\ Waiting(mb, o, q) \in Nat /\ mb[i][o][q] <= Waiting(mb, o, q)
<1> DEFINE row == [p \in Port |-> mb[i][p][q]]
           col == [j \in Port |-> mb[j][o][q]]
<1>1. /\ row \in [1..NPort -> Nat] /\ row[o] = mb[i][o][q]
      /\ col \in [1..NPort -> Nat] /\ col[i] = mb[i][o][q]
  <2>1. \A p \in Port : mb[i][p][q] \in Nat /\ mb[p][o][q] \in Nat
    BY DEF Stores
  <2>2. QED
    BY <2>1 DEF Port
<1>2. Stored(mb, i, q) = SumTo(row, NPort) /\ Waiting(mb, o, q) = SumTo(col, NPort)
  BY DEF Stored, Waiting
<1> HIDE DEF row, col
<1>3. /\ SumTo(row, NPort) \in Nat /\ row[o] <= SumTo(row, NPort)
      /\ SumTo(col, NPort) \in Nat /\ col[i] <= SumTo(col, NPort)
  BY <1>1, SumToNat, MmuSizes DEF Port
<1>4. QED
  BY <1>1, <1>2, <1>3

(* Before anything is stored all sums are zero. *)
LEMMA EmptyStore ==
  ASSUME NEW i \in Port, NEW q \in Queue
  PROVE  LET none == [j \in Port |-> [r \in Queue |-> 0]]
             empty == [j \in Port |-> [p \in Port |-> [r \in Queue |-> 0]]]
         IN  /\ Stored(empty, i, q) = 0 /\ Waiting(empty, i, q) = 0
             /\ PoolTotal(none) = 0
<1> DEFINE none == [j \in Port |-> [r \in Queue |-> 0]]
           empty == [j \in Port |-> [p \in Port |-> [r \in Queue |-> 0]]]
           zero == [p \in Port |-> 0]
           use == [r \in Queue |-> 0]
<1>1. zero \in [1..NPort -> Int] /\ use \in [1..NQueue -> Int]
  BY DEF Port, Queue
<1>2. SumTo(zero, NPort) = 0 /\ SumTo(use, NQueue) = 0
  BY <1>1, SumToZero, MmuSizes DEF Port, Queue
<1>3. Stored(empty, i, q) = SumTo(zero, NPort) /\ Waiting(empty, i, q) = SumTo(zero, NPort)
  BY DEF Stored, Waiting
<1>4. SharedUsed(0) = 0
  BY MmuConfig DEF SharedUsed
<1>5. \A j \in Port : PoolOf(none, j) = SumTo(use, NQueue)
  BY <1>4 DEF PoolOf
<1>6. PoolTotal(none) = SumTo(zero, NPort)
  BY <1>2, <1>5 DEF PoolTotal
<1>7. QED
  BY <1>2, <1>3, <1>6

-----------------------------------------------------------------------------
(* The inductive invariant.  That no unsigned subtraction wraps (TypeOK)   *)
(* needs the exact account of every counter; that the threshold is sane    *)
(* needs PoolNotOverdrawn, and PausedHasBacklog needs both.                *)
IInv ==
  /\ TypeOK
  /\ IngressAccounted
  /\ EgressAccounted
  /\ SharedAccounted
  /\ PoolNotOverdrawn
  /\ HeadroomRespected
  /\ HeadroomOnlyWhilePaused
  /\ PausedHasBacklog

LEMMA InitIInv == Init => IInv
<1> SUFFICES ASSUME Init PROVE IInv
  OBVIOUS
<1>1. TypeOK
  BY DEF Init, TypeOK
<1>2. \A i \in Port, q \in Queue : Stored(m_bytes, i, q) = 0 /\ Waiting(m_bytes, i, q) = 0
  BY EmptyStore DEF Init
<1>3. IngressAccounted /\ EgressAccounted
  <2>1. \A i \in Port, q \in Queue :
           hdrm_bytes[i][q] = 0 /\ ingress_bytes[i][q] = 0 /\ egress_bytes[i][q] = 0
    BY DEF Init
  <2>2. \A i \in Port, q \in Queue : hdrm_bytes[i][q] + ingress_bytes[i][q] = 0
    BY <2>1
  <2>3. QED
    BY <1>2, <2>1, <2>2 DEF IngressAccounted, EgressAccounted
<1>4. PoolTotal(ingress_bytes) = 0
  <2> DEFINE zero == [p \in Port |-> 0]
             use == [r \in Queue |-> 0]
  <2>1. zero \in [1..NPort -> Int] /\ use \in [1..NQueue -> Int]
    BY DEF Port, Queue
  <2>2. SumTo(zero, NPort) = 0 /\ SumTo(use, NQueue) = 0
    BY <2>1, SumToZero, MmuSizes DEF Port, Queue
  <2>3. SharedUsed(0) = 0
    BY MmuConfig DEF SharedUsed
  <2>4. \A j \in Port : PoolOf(ingress_bytes, j) = SumTo(use, NQueue)
    BY <2>3 DEF PoolOf, Init
  <2>5. PoolTotal(ingress_bytes) = SumTo(zero, NPort)
    BY <2>2, <2>4 DEF PoolTotal
  <2>6. QED
    BY <2>2, <2>5
<1>5. SharedAccounted /\ PoolNotOverdrawn
  BY <1>4, MmuPool DEF Init, SharedAccounted, PoolNotOverdrawn
<1>6. HeadroomRespected /\ HeadroomOnlyWhilePaused /\ PausedHasBacklog
  BY MmuConfig DEF Init, HeadroomRespected, HeadroomOnlyWhilePaused, PausedHasBacklog
<1>7. QED
  BY <1>1, <1>3, <1>5, <1>6 DEF IInv

(* The invariant, read at one (port, queue) and one m_bytes cell. *)
LEMMA IInvAt ==
  ASSUME IInv, NEW i \in Port, NEW o \in Port, NEW q \in Queue
  PROVE  /\ hdrm_bytes[i][q] \in Nat /\ ingress_bytes[i][q] \in Nat
         /\ m_bytes[i][o][q] \in Nat /\ egress_bytes[o][q] \in Nat
         /\ shared_used_bytes \in Nat
         /\ hdrm_bytes[i][q] + ingress_bytes[i][q] = Stored(m_bytes, i, q)
         /\ egress_bytes[o][q] = Waiting(m_bytes, o, q)
         /\ m_bytes[i][o][q] <= Stored(m_bytes, i, q)
         /\ m_bytes[i][o][q] <= Waiting(m_bytes, o, q)
         /\ SharedUsed(ingress_bytes[i][q]) <= shared_used_bytes
         /\ PfcThreshold(i, shared_used_bytes) \in Nat
         /\ PfcThreshold(i, shared_used_bytes) <= SharedPool - shared_used_bytes
<1>1. /\ hdrm_bytes \in Counters /\ ingress_bytes \in Counters
      /\ egress_bytes \in Counters /\ m_bytes \in Stores /\ shared_used_bytes \in Nat
  BY DEF IInv, TypeOK, Counters, Stores
<1>2. /\ hdrm_bytes[i][q] \in Nat /\ ingress_bytes[i][q] \in Nat
      /\ m_bytes[i][o][q] \in Nat /\ egress_bytes[o][q] \in Nat
  BY <1>1 DEF Counters, Stores
<1>3. /\ hdrm_bytes[i][q] + ingress_bytes[i][q] = Stored(m_bytes, i, q)
      /\ egress_bytes[o][q] = Waiting(m_bytes, o, q)
  BY DEF IInv, IngressAccounted, EgressAccounted
<1>4. /\ m_bytes[i][o][q] <= Stored(m_bytes, i, q)
      /\ m_bytes[i][o][q] <= Waiting(m_bytes, o, q)
  BY <1>1, StoreSums
<1>5. SharedUsed(ingress_bytes[i][q]) <= shared_used_bytes
  BY <1>1, PoolTotalCovers DEF IInv, SharedAccounted
<1>6. /\ PfcThreshold(i, shared_used_bytes) \in Nat
      /\ PfcThreshold(i, shared_used_bytes) <= SharedPool - shared_used_bytes
  BY <1>1, ThresholdRange DEF IInv, PoolNotOverdrawn
<1>7. QED
  BY <1>1, <1>2, <1>3, <1>4, <1>5, <1>6

(* What one step does to the three counters of its (port, queue): the      *)
(* bytes they account for change by what arrives or leaves.                *)
StepAt(i, q, hNew, gNew, sNew) ==
  /\ hNew \in Nat /\ gNew \in Nat /\ sNew \in Nat
  /\ hdrm_bytes' = [hdrm_bytes EXCEPT ![i][q] = hNew]
  /\ ingress_bytes' = [ingress_bytes EXCEPT ![i][q] = gNew]
  /\ shared_used_bytes' = sNew
  /\ hNew <= Headroom[i]
  /\ sNew <= SharedPool
  /\ sNew = shared_used_bytes + SharedUsed(gNew) - SharedUsed(ingress_bytes[i][q])

LEMMA EnqueueAt ==
  ASSUME IInv, NEW i \in Port, NEW o \in Port, NEW q \in Queue, NEW s \in PktSize,
         CheckIngressAdmission(i, q, s), ChargeIngress(i, q, s)
  PROVE  \E hNew, gNew, sNew \in Nat :
            /\ StepAt(i, q, hNew, gNew, sNew)
            /\ hNew + gNew = hdrm_bytes[i][q] + ingress_bytes[i][q] + s
            /\ hNew <= hdrm_bytes[i][q] + s
<1> DEFINE h == hdrm_bytes[i][q]
           g == ingress_bytes[i][q]
           T == PfcThreshold(i, shared_used_bytes)
<1>1. /\ h \in Nat /\ g \in Nat /\ shared_used_bytes \in Nat
      /\ T \in Nat /\ T <= SharedPool - shared_used_bytes
      /\ SharedUsed(g) <= shared_used_bytes
  BY IInvAt
<1>2. s \in Nat /\ s > 0 /\ Reserve \in Nat /\ SharedPool \in Nat /\ Headroom[i] \in Nat
  BY MmuPktSize, MmuConfig, MmuPool
<1>3. h <= Headroom[i] /\ shared_used_bytes <= SharedPool
  BY DEF IInv, HeadroomRespected, PoolNotOverdrawn
<1>4. hdrm_bytes \in Counters /\ ingress_bytes \in Counters
  BY DEF IInv, TypeOK, Counters
<1>5. CASE ToHeadroom(i, q, s)
  <2>1. g + s > Reserve /\ g + s - Reserve > T
    BY <1>1, <1>2, <1>5 DEF ToHeadroom
  <2>2. h + s <= Headroom[i]
    <3>1. s + h <= Headroom[i] \/ s + SharedUsed(g) <= T
      BY DEF CheckIngressAdmission
    <3>2. SharedUsed(g) \in Nat /\ SharedUsed(g) >= g - Reserve
      BY <1>1, <1>2 DEF SharedUsed
    <3>3. QED
      BY <1>1, <1>2, <2>1, <3>1, <3>2
  <2>3. /\ hdrm_bytes' = [hdrm_bytes EXCEPT ![i][q] = h + s]
        /\ ingress_bytes' = ingress_bytes
        /\ shared_used_bytes' = shared_used_bytes
    BY <1>5 DEF ChargeIngress
  <2>4. ingress_bytes' = [ingress_bytes EXCEPT ![i][q] = g]
    BY <1>4, <2>3 DEF Counters
  <2>5. SharedUsed(g) \in Nat /\ h + s \in Nat /\ (h + s) + g = h + g + s
    BY <1>1, <1>2, SharedUsedNat
  <2>6. shared_used_bytes = shared_used_bytes + SharedUsed(g) - SharedUsed(g)
    BY <1>1, <2>5
  <2>7. StepAt(i, q, h + s, g, shared_used_bytes)
    BY <1>1, <1>3, <2>2, <2>3, <2>4, <2>5, <2>6 DEF StepAt
  <2>8. QED
    BY <1>1, <1>2, <2>5, <2>7
<1>6. CASE ~ToHeadroom(i, q, s)
  <2> DEFINE n == IF g + s <= Reserve THEN shared_used_bytes
                  ELSE shared_used_bytes + Smaller(s, g + s - Reserve)
  <2>1. g + s <= Reserve \/ g + s - Reserve <= T
    BY <1>1, <1>2, <1>6 DEF ToHeadroom
  <2>2. n = shared_used_bytes + SharedUsed(g + s) - SharedUsed(g)
    BY <1>1, <1>2 DEF SharedUsed, Smaller
  <2>3. n \in Nat /\ n <= SharedPool
    BY <1>1, <1>2, <1>3, <2>1 DEF Smaller
  <2>4. /\ hdrm_bytes' = hdrm_bytes
        /\ ingress_bytes' = [ingress_bytes EXCEPT ![i][q] = g + s]
        /\ shared_used_bytes' = n
    BY <1>1, <1>2, <1>6 DEF ChargeIngress
  <2>5. hdrm_bytes' = [hdrm_bytes EXCEPT ![i][q] = h]
    BY <1>4, <2>4 DEF Counters
  <2> HIDE DEF n
  <2>6. g + s \in Nat /\ h + (g + s) = h + g + s
    BY <1>1, <1>2
  <2>7. StepAt(i, q, h, g + s, n)
    BY <1>1, <1>3, <2>2, <2>3, <2>4, <2>5, <2>6 DEF StepAt
  <2>8. QED
    BY <1>1, <1>2, <2>3, <2>6, <2>7
<1>7. QED
  BY <1>5, <1>6

LEMMA DequeueAt ==
  ASSUME IInv, NEW i \in Port, NEW o \in Port, NEW q \in Queue, NEW s \in PktSize,
         m_bytes[i][o][q] >= s, DischargeIngress(i, q, s)
  PROVE  \E hNew, gNew, sNew \in Nat :
            /\ StepAt(i, q, hNew, gNew, sNew)
            /\ hNew + gNew = hdrm_bytes[i][q] + ingress_bytes[i][q] - s
            /\ hNew > 0 => hdrm_bytes[i][q] > 0
            /\ hNew <= hdrm_bytes[i][q]
<1> DEFINE h == hdrm_bytes[i][q]
           g == ingress_bytes[i][q]
           f == Smaller(h, s)
           n == shared_used_bytes - Smaller(s - f, SharedUsed(g))
<1>1. /\ h \in Nat /\ g \in Nat /\ shared_used_bytes \in Nat
      /\ h + g = Stored(m_bytes, i, q) /\ m_bytes[i][o][q] <= Stored(m_bytes, i, q)
      /\ m_bytes[i][o][q] \in Nat
      /\ SharedUsed(g) <= shared_used_bytes
  BY IInvAt
<1>2. s \in Nat /\ s > 0 /\ Reserve \in Nat /\ SharedPool \in Nat /\ Headroom[i] \in Nat
  BY MmuPktSize, MmuConfig, MmuPool
<1>3. h <= Headroom[i] /\ shared_used_bytes <= SharedPool
  BY DEF IInv, HeadroomRespected, PoolNotOverdrawn
<1>4. h + g >= s
  BY <1>1, <1>2
<1>5. f \in Nat /\ f <= h /\ f <= s /\ s - f <= g
  BY <1>1, <1>2, <1>4 DEF Smaller
<1>6. SharedUsed(g) \in Nat
  BY <1>1, SharedUsedNat
<1>7. /\ n \in Nat /\ n <= shared_used_bytes
      /\ n = shared_used_bytes + SharedUsed(g - (s - f)) - SharedUsed(g)
  <2>1. Smaller(s - f, SharedUsed(g)) = SharedUsed(g) - SharedUsed(g - (s - f))
    BY <1>1, <1>2, <1>5, SMTT(40) DEF Smaller, SharedUsed
  <2>2. SharedUsed(g - (s - f)) \in Nat /\ SharedUsed(g - (s - f)) <= SharedUsed(g)
    BY <1>1, <1>2, <1>5 DEF SharedUsed
  <2> HIDE DEF f
  <2>3. QED
    BY <1>1, <1>6, <2>1, <2>2
<1>8. /\ hdrm_bytes' = [hdrm_bytes EXCEPT ![i][q] = h - f]
      /\ ingress_bytes' = [ingress_bytes EXCEPT ![i][q] = g - (s - f)]
      /\ shared_used_bytes' = n
  BY DEF DischargeIngress, FromHeadroom
<1> HIDE DEF f, n
<1>9. StepAt(i, q, h - f, g - (s - f), n)
  BY <1>1, <1>2, <1>3, <1>5, <1>7, <1>8 DEF StepAt
<1>10. QED
  BY <1>1, <1>2, <1>5, <1>7, <1>9

(* The accounting part of the invariant is kept by any step that moves the *)
(* counters of one (port, queue) along with the bytes stored for it.       *)
LEMMA AccountsKept ==
  ASSUME IInv, NEW i \in Port, NEW o \in Port, NEW q \in Queue,
         NEW hNew \in Nat, NEW gNew \in Nat, NEW sNew \in Nat,
         NEW mNew \in Nat, NEW eNew \in Nat,
         StepAt(i, q, hNew, gNew, sNew),
         m_bytes' = SetCell(m_bytes, i, o, q, mNew),
         egress_bytes' = [egress_bytes EXCEPT ![o][q] = eNew],
         hNew + gNew = hdrm_bytes[i][q] + ingress_bytes[i][q] + mNew - m_bytes[i][o][q],
         eNew = egress_bytes[o][q] + mNew - m_bytes[i][o][q],
         paused' \in [Port -> [Queue -> BOOLEAN]]
  PROVE  /\ TypeOK' /\ IngressAccounted' /\ EgressAccounted' /\ SharedAccounted'
         /\ PoolNotOverdrawn' /\ HeadroomRespected'
<1>1. /\ hdrm_bytes \in Counters /\ ingress_bytes \in Counters
      /\ egress_bytes \in Counters /\ m_bytes \in Stores
  BY DEF IInv, TypeOK, Counters, Stores
<1>2. TypeOK'
  BY <1>1 DEF StepAt, TypeOK, Counters, Stores, SetCell
<1>3. IngressAccounted'
  <2>1. ASSUME NEW j \in Port, NEW r \in Queue
        PROVE  hdrm_bytes'[j][r] + ingress_bytes'[j][r] = Stored(m_bytes', j, r)
    <3>1. CASE j = i /\ r = q
      <4>1. hdrm_bytes'[j][r] = hNew /\ ingress_bytes'[j][r] = gNew
        BY <1>1, <3>1 DEF StepAt, Counters
      <4>2. Stored(m_bytes', i, q) = Stored(m_bytes, i, q) + mNew - m_bytes[i][o][q]
        BY <1>1, StoredUpdate
      <4>3. QED
        BY <3>1, <4>1, <4>2, IInvAt
    <3>2. CASE j # i \/ r # q
      <4>1. hdrm_bytes'[j][r] = hdrm_bytes[j][r] /\ ingress_bytes'[j][r] = ingress_bytes[j][r]
        BY <1>1, <3>2 DEF StepAt, Counters
      <4>2. Stored(m_bytes', j, r) = Stored(m_bytes, j, r)
        BY <1>1, <3>2, StoredUpdate
      <4>3. QED
        BY <4>1, <4>2 DEF IInv, IngressAccounted
    <3>3. QED
      BY <3>1, <3>2
  <2>2. QED
    BY <2>1 DEF IngressAccounted
<1>4. EgressAccounted'
  <2>1. ASSUME NEW p \in Port, NEW r \in Queue
        PROVE  egress_bytes'[p][r] = Waiting(m_bytes', p, r)
    <3>1. CASE p = o /\ r = q
      <4>1. egress_bytes'[p][r] = eNew
        BY <1>1, <3>1 DEF Counters
      <4>2. Waiting(m_bytes', o, q) = Waiting(m_bytes, o, q) + mNew - m_bytes[i][o][q]
        BY <1>1, WaitingUpdate
      <4>3. QED
        BY <3>1, <4>1, <4>2, IInvAt
    <3>2. CASE p # o \/ r # q
      <4>1. egress_bytes'[p][r] = egress_bytes[p][r]
        BY <1>1, <3>2 DEF Counters
      <4>2. Waiting(m_bytes', p, r) = Waiting(m_bytes, p, r)
        BY <1>1, <3>2, WaitingUpdate
      <4>3. QED
        BY <4>1, <4>2 DEF IInv, EgressAccounted
    <3>3. QED
      BY <3>1, <3>2
  <2>2. QED
    BY <2>1 DEF EgressAccounted
<1>5. SharedAccounted'
  <2>1. PoolTotal(ingress_bytes') = PoolTotal(ingress_bytes)
                        + SharedUsed(gNew) - SharedUsed(ingress_bytes[i][q])
    BY <1>1, PoolTotalUpdate, ZenonT(40) DEF StepAt
  <2>2. QED
    BY <2>1 DEF StepAt, SharedAccounted, IInv
<1>6. PoolNotOverdrawn'
  BY DEF StepAt, PoolNotOverdrawn
<1>7. HeadroomRespected'
  BY <1>1 DEF StepAt, Counters, HeadroomRespected, IInv
<1>8. QED
  BY <1>2, <1>3, <1>4, <1>5, <1>6, <1>7

LEMMA EnqueueIInv ==
  ASSUME IInv, NEW i \in Port, NEW o \in Port, NEW q \in Queue, NEW s \in PktSize,
         Enqueue(i, o, q, s)
  PROVE  IInv'
<1>1. /\ hdrm_bytes \in Counters /\ ingress_bytes \in Counters
      /\ paused \in [Port -> [Queue -> BOOLEAN]] /\ m_bytes \in Stores
  BY DEF IInv, TypeOK, Counters, Stores
<1>2. s \in Nat /\ s > 0
  BY MmuPktSize
<1>3. PICK hNew \in Nat, gNew \in Nat, sNew \in Nat :
         /\ StepAt(i, q, hNew, gNew, sNew)
         /\ hNew + gNew = hdrm_bytes[i][q] + ingress_bytes[i][q] + s
  BY EnqueueAt DEF Enqueue
<1> DEFINE mNew == m_bytes[i][o][q] + s
           eNew == egress_bytes[o][q] + s
<1>4. /\ m_bytes' = [m_bytes EXCEPT ![i][o][q] = mNew]
      /\ egress_bytes' = [egress_bytes EXCEPT ![o][q] = eNew]
  BY DEF Enqueue
<1>c. m_bytes' = SetCell(m_bytes, i, o, q, mNew)
  BY <1>4 DEF SetCell
<1>5. /\ mNew \in Nat /\ eNew \in Nat
      /\ eNew = egress_bytes[o][q] + mNew - m_bytes[i][o][q]
      /\ hNew + gNew = hdrm_bytes[i][q] + ingress_bytes[i][q] + mNew - m_bytes[i][o][q]
  BY <1>2, <1>3, IInvAt
<1>6. \E b \in BOOLEAN : /\ paused' = [paused EXCEPT ![i][q] = b]
                         /\ hNew > 0 => b
                         /\ paused[i][q] => b
  <2> DEFINE c == CheckShouldPause(i, paused[i][q], hdrm_bytes'[i][q],
                                   ingress_bytes'[i][q], shared_used_bytes')
             b == paused[i][q] \/ c
  <2>1. paused[i][q] \in BOOLEAN
    BY <1>1
  <2>2. paused' = [paused EXCEPT ![i][q] = b]
    BY DEF Enqueue, CheckAndSendPfc
  <2>3. hdrm_bytes'[i][q] = hNew
    BY <1>1, <1>3 DEF StepAt, Counters
  <2>4. hNew > 0 => b
    BY <2>3 DEF CheckShouldPause
  <2>5. b \in BOOLEAN
    BY <2>1 DEF CheckShouldPause
  <2>6. QED
    BY <2>2, <2>4, <2>5
<1>7. PICK b \in BOOLEAN : /\ paused' = [paused EXCEPT ![i][q] = b]
                           /\ hNew > 0 => b
                           /\ paused[i][q] => b
  BY <1>6
<1>8. paused' \in [Port -> [Queue -> BOOLEAN]]
  BY <1>1, <1>7
<1>9. /\ TypeOK' /\ IngressAccounted' /\ EgressAccounted' /\ SharedAccounted'
      /\ PoolNotOverdrawn' /\ HeadroomRespected'
  <2> HIDE DEF mNew, eNew
  <2>1. QED
    BY <1>3, <1>4, <1>5, <1>c, <1>8, AccountsKept
<1>10. HeadroomOnlyWhilePaused'
  BY <1>1, <1>3, <1>7 DEF StepAt, Counters, HeadroomOnlyWhilePaused, IInv
<1>11. PausedHasBacklog'
  <2>1. ASSUME NEW j \in Port, NEW r \in Queue, paused'[j][r]
        PROVE  Stored(m_bytes', j, r) > 0
    <3>1. CASE j = i /\ r = q
      <4>1. Stored(m_bytes', i, q) = hNew + gNew
        BY <1>1, <1>3, <1>9 DEF StepAt, Counters, IngressAccounted
      <4>2. QED
        BY <1>2, <1>3, <3>1, <4>1, IInvAt
    <3>2. CASE j # i \/ r # q
      <4>1. paused[j][r]
        BY <1>1, <1>7, <2>1, <3>2
      <4>2. Stored(m_bytes', j, r) = Stored(m_bytes, j, r)
        BY <1>1, <1>5, <1>c, <3>2, StoredUpdate
      <4>3. QED
        BY <4>1, <4>2 DEF IInv, PausedHasBacklog
    <3>3. QED
      BY <3>1, <3>2
  <2>2. QED
    BY <2>1 DEF PausedHasBacklog
<1>12. QED
  BY <1>9, <1>10, <1>11 DEF IInv

LEMMA DequeueIInv ==
  ASSUME IInv, NEW i \in Port, NEW o \in Port, NEW q \in Queue, NEW s \in PktSize,
         Dequeue(i, o, q, s)
  PROVE  IInv'
<1>1. /\ hdrm_bytes \in Counters /\ ingress_bytes \in Counters
      /\ paused \in [Port -> [Queue -> BOOLEAN]] /\ m_bytes \in Stores
  BY DEF IInv, TypeOK, Counters, Stores
<1>2. s \in Nat /\ s > 0 /\ m_bytes[i][o][q] >= s
  BY MmuPktSize DEF Dequeue
<1>3. PICK hNew \in Nat, gNew \in Nat, sNew \in Nat :
         /\ StepAt(i, q, hNew, gNew, sNew)
         /\ hNew + gNew = hdrm_bytes[i][q] + ingress_bytes[i][q] - s
         /\ hNew > 0 => hdrm_bytes[i][q] > 0
  BY <1>2, DequeueAt DEF Dequeue
<1> DEFINE mNew == m_bytes[i][o][q] - s
           eNew == egress_bytes[o][q] - s
<1>4. /\ m_bytes' = [m_bytes EXCEPT ![i][o][q] = mNew]
      /\ egress_bytes' = [egress_bytes EXCEPT ![o][q] = eNew]
  BY DEF Dequeue
<1>c. m_bytes' = SetCell(m_bytes, i, o, q, mNew)
  BY <1>4 DEF SetCell
<1>5. /\ mNew \in Nat /\ eNew \in Nat
      /\ eNew = egress_bytes[o][q] + mNew - m_bytes[i][o][q]
      /\ hNew + gNew = hdrm_bytes[i][q] + ingress_bytes[i][q] + mNew - m_bytes[i][o][q]
  <2>1. /\ m_bytes[i][o][q] \in Nat /\ egress_bytes[o][q] \in Nat
        /\ m_bytes[i][o][q] <= egress_bytes[o][q]
        /\ hdrm_bytes[i][q] \in Nat /\ ingress_bytes[i][q] \in Nat
    BY IInvAt
  <2>2. QED
    BY <1>2, <1>3, <2>1
<1>6. /\ hdrm_bytes'[i][q] = hNew /\ ingress_bytes'[i][q] = gNew
      /\ shared_used_bytes' = sNew
  BY <1>1, <1>3 DEF StepAt, Counters
<1> DEFINE b == paused[i][q] /\ ~CheckShouldResume(i, paused[i][q], hNew, gNew, sNew)
<1>7. paused' = [paused EXCEPT ![i][q] = b]
  BY <1>6 DEF Dequeue, CheckAndSendResume
<1>8. /\ b \in BOOLEAN
      /\ b => paused[i][q]
      /\ hNew > 0 /\ paused[i][q] => b
      /\ b => hNew # 0 \/ SharedUsed(gNew) # 0
  BY <1>1, <1>3 DEF CheckShouldResume
<1> HIDE DEF b
<1>9. paused' \in [Port -> [Queue -> BOOLEAN]]
  BY <1>1, <1>7, <1>8
<1>10. /\ TypeOK' /\ IngressAccounted' /\ EgressAccounted' /\ SharedAccounted'
       /\ PoolNotOverdrawn' /\ HeadroomRespected'
  <2> HIDE DEF mNew, eNew
  <2>1. QED
    BY <1>3, <1>4, <1>5, <1>c, <1>9, AccountsKept
<1>11. HeadroomOnlyWhilePaused'
  BY <1>1, <1>3, <1>7, <1>8 DEF StepAt, Counters, HeadroomOnlyWhilePaused, IInv
<1>12. PausedHasBacklog'
  <2>1. ASSUME NEW j \in Port, NEW r \in Queue, paused'[j][r]
        PROVE  Stored(m_bytes', j, r) > 0
    <3>1. CASE j = i /\ r = q
      <4>1. Stored(m_bytes', i, q) = hNew + gNew
        BY <1>6, <1>10 DEF IngressAccounted
      <4>2. b
        BY <1>1, <1>7, <2>1, <3>1
      <4>3. hNew > 0 \/ gNew > 0
        BY <1>3, <1>8, <4>2, MmuConfig DEF SharedUsed
      <4>4. QED
        BY <1>3, <3>1, <4>1, <4>3
    <3>2. CASE j # i \/ r # q
      <4>1. paused[j][r]
        BY <1>1, <1>7, <2>1, <3>2
      <4>2. Stored(m_bytes', j, r) = Stored(m_bytes, j, r)
        BY <1>1, <1>5, <1>c, <3>2, StoredUpdate
      <4>3. QED
        BY <4>1, <4>2 DEF IInv, PausedHasBacklog
    <3>3. QED
      BY <3>1, <3>2
  <2>2. QED
    BY <2>1 DEF PausedHasBacklog
<1>13. QED
  BY <1>10, <1>11, <1>12 DEF IInv

LEMMA NextIInv == IInv /\ [Next]_mmu_vars => IInv'
<1> SUFFICES ASSUME IInv, [Next]_mmu_vars PROVE IInv'
  OBVIOUS
<1>1. CASE Next
  <2>1. PICK i \in Port, o \in Port, q \in Queue, s \in PktSize :
           Enqueue(i, o, q, s) \/ Drop(i, q, s) \/ Dequeue(i, o, q, s)
    BY <1>1 DEF Next
  <2>2. CASE Enqueue(i, o, q, s)
    BY <2>2, EnqueueIInv
  <2>3. CASE Dequeue(i, o, q, s)
    BY <2>3, DequeueIInv
  <2>4. CASE Drop(i, q, s)
    BY <2>4 DEF Drop, mmu_vars, IInv, TypeOK, IngressAccounted, EgressAccounted,
       SharedAccounted, PoolNotOverdrawn, HeadroomRespected, HeadroomOnlyWhilePaused,
       PausedHasBacklog
  <2>5. QED
    BY <2>1, <2>2, <2>3, <2>4
<1>2. CASE UNCHANGED mmu_vars
  BY <1>2 DEF mmu_vars, IInv, TypeOK, IngressAccounted, EgressAccounted,
     SharedAccounted, PoolNotOverdrawn, HeadroomRespected, HeadroomOnlyWhilePaused,
     PausedHasBacklog
<1>3. QED
  BY <1>1, <1>2

-----------------------------------------------------------------------------
(* The inductive invariant holds in every reachable state. *)
THEOREM MmuInvariant == Spec => []IInv
<1>1. Init => IInv
  BY InitIInv
<1>2. IInv /\ [Next]_mmu_vars => IInv'
  BY NextIInv
<1>3. QED
  BY <1>1, <1>2, PTL DEF Spec

(* No counter of the MMU ever wraps below zero: RemoveFromIngressAdmission *)
(* and RemoveFromEgressAdmission subtract no more than is there.           *)
THEOREM MmuCountersNeverWrap == Spec => []TypeOK
<1>1. IInv => TypeOK
  BY DEF IInv
<1>2. QED
  BY <1>1, MmuInvariant, PTL

(* Every counter of the MMU is an exact account: ingress and headroom of   *)
(* the bytes stored, egress of the bytes waiting, shared of the pool used. *)
THEOREM MmuAccountsExact == Spec => []AccountsExact
<1>1. IInv => AccountsExact
  BY DEF IInv, AccountsExact
<1>2. QED
  BY <1>1, MmuInvariant, PTL

(* Neither the pool nor the headroom of a port is overdrawn. *)
THEOREM MmuWithinBudget == Spec => []WithinBudget
<1>1. IInv => WithinBudget
  BY DEF IInv, WithinBudget
<1>2. QED
  BY <1>1, MmuInvariant, PTL

(* PFC state follows the buffer: headroom is only in use under a pause, and *)
(* a pause is only in force over a backlog that will trigger its resume.   *)
THEOREM MmuPauseFollowsBacklog == Spec => []PauseFollowsBacklog
<1>1. IInv => PauseFollowsBacklog
  BY DEF IInv, PauseFollowsBacklog
<1>2. QED
  BY <1>1, MmuInvariant, PTL

(* With one data queue per port no configuration stores more than the      *)
(* buffer: what a port stores is within its headroom, its reserve and its  *)
(* use of the pool, and these add up to no more than the buffer.           *)
LEMMA FitsBuffer ==
  ASSUME IInv, NQueue = 1
  PROVE  StoredFitsBuffer
<1> DEFINE cell(i) == [q \in Queue |-> Stored(m_bytes, i, q)]
           used(i) == [q \in Queue |-> SharedUsed(ingress_bytes[i][q])]
           stored == [i \in Port |-> SumTo(cell(i), NQueue)]
           pool == [i \in Port |-> PoolOf(ingress_bytes, i)]
<1>1. Queue = 1..1 /\ 1 \in Queue /\ Reserve \in Nat /\ NPort \in Nat
  BY MmuConfig, MmuSizes DEF Queue
<1>2. /\ hdrm_bytes \in Counters /\ ingress_bytes \in Counters
      /\ m_bytes \in Stores /\ shared_used_bytes \in Nat
  BY DEF IInv, TypeOK, Counters, Stores
<1>3. ASSUME NEW i \in Port
      PROVE  /\ stored[i] \in Int /\ pool[i] \in Int
             /\ stored[i] <= Headroom[i] + pool[i] + Reserve
  <2>1. /\ hdrm_bytes[i][1] \in Nat /\ ingress_bytes[i][1] \in Nat
        /\ hdrm_bytes[i][1] + ingress_bytes[i][1] = Stored(m_bytes, i, 1)
    BY <1>1, IInvAt
  <2>2. hdrm_bytes[i][1] <= Headroom[i] /\ Headroom[i] \in Nat
    BY <1>1, MmuConfig DEF IInv, HeadroomRespected
  <2>3. /\ SharedUsed(ingress_bytes[i][1]) \in Nat
        /\ ingress_bytes[i][1] <= SharedUsed(ingress_bytes[i][1]) + Reserve
    BY <1>1, <2>1 DEF SharedUsed
  <2>4. cell(i) \in [1..1 -> Int] /\ cell(i)[1] = Stored(m_bytes, i, 1)
    BY <1>1, <2>1
  <2>5. used(i) \in [1..1 -> Int] /\ used(i)[1] = SharedUsed(ingress_bytes[i][1])
    BY <1>1, <2>3
  <2>6. stored[i] = Stored(m_bytes, i, 1)
    <3>1. stored[i] = SumTo(cell(i), 1)
      OBVIOUS
    <3> HIDE DEF cell
    <3>2. SumTo(cell(i), 1) = cell(i)[1]
      BY <2>4, SumToOne
    <3>3. QED
      BY <2>4, <3>1, <3>2
  <2>7. pool[i] = SharedUsed(ingress_bytes[i][1])
    <3>1. pool[i] = SumTo(used(i), 1)
      BY DEF PoolOf
    <3> HIDE DEF used
    <3>2. SumTo(used(i), 1) = used(i)[1]
      BY <2>5, SumToOne
    <3>3. QED
      BY <2>5, <3>1, <3>2
  <2> HIDE DEF stored, pool
  <2>8. QED
    BY <1>1, <2>1, <2>2, <2>3, <2>6, <2>7
<1>4. /\ stored \in [1..NPort -> Int] /\ pool \in [1..NPort -> Int]
      /\ Headroom \in [1..NPort -> Int]
  <2>1. stored \in [Port -> Int] /\ pool \in [Port -> Int]
    BY <1>3
  <2>2. QED
    BY <2>1, MmuConfig DEF Port
<1>5. /\ StoredTotal(m_bytes) = SumTo(stored, NPort)
      /\ PoolTotal(ingress_bytes) = SumTo(pool, NPort)
      /\ total_hdrm = SumTo(Headroom, NPort) /\ total_rsrv = NPort * Reserve
  BY DEF StoredTotal, PoolTotal, total_hdrm, total_rsrv
<1> HIDE DEF stored, pool
<1>6. SumTo(stored, NPort) <= SumTo(Headroom, NPort) + SumTo(pool, NPort) + NPort * Reserve
  BY <1>1, <1>3, <1>4, SumToBound DEF Port
<1>7. /\ SumTo(stored, NPort) \in Int /\ SumTo(Headroom, NPort) \in Int
      /\ SumTo(pool, NPort) \in Int
  BY <1>1, <1>4, SumToType
<1>8. total_rsrv \in Int /\ BufferSize \in Int
  BY <1>1, <1>5, MmuConfig
<1>9. SumTo(pool, NPort) <= SharedPool
  BY <1>5 DEF IInv, SharedAccounted, PoolNotOverdrawn
<1>10. SumTo(stored, NPort) <= total_hdrm + SharedPool + total_rsrv
  <2> HIDE DEF total_rsrv
  <2>1. QED
    BY <1>5, <1>6, <1>7, <1>8, <1>9, MmuPool
<1>11. total_hdrm + SharedPool + total_rsrv = BufferSize
  <2>1. total_hdrm \in Int
    BY <1>5, <1>7
  <2>2. QED
    BY <1>8, <2>1 DEF SharedPool
<1>12. QED
  BY <1>5, <1>10, <1>11 DEF StoredFitsBuffer

(* A switch that carries its data in one queue never stores more than its  *)
(* buffer holds, whatever the configuration.                               *)
THEOREM MmuStoredFitsBuffer ==
  ASSUME NQueue = 1 PROVE Spec => []StoredFitsBuffer
<1>1. IInv => StoredFitsBuffer
  BY FitsBuffer
<1>2. QED
  BY <1>1, MmuInvariant, PTL

-----------------------------------------------------------------------------
(* The headroom of third.cc, for a link of any length that holds three     *)
(* packets of the largest size and two PFC frames.  What the upstream      *)
(* sends is no shorter than two PFC frames; what others send, or is sent   *)
(* to it, may be.                                                          *)
LongLink(mtu) ==
  /\ NQueue = 1
  /\ \A s \in PktSize : s <= mtu
  /\ \A s \in SentSize : 2 * PfcSize <= s
  /\ 3 * mtu + 2 * PfcSize <= LinkDelay[Watched]

Packets == [q : Queue, size : SentSize, in : Nat]
Decisions == [q : Queue, pause : BOOLEAN]
Flying == [q : Queue, pause : BOOLEAN, in : Nat]

Lag == LinkDelay[Watched]
Final(s) == s[Len(s)]
IsPaused == paused[Watched][1]

(* How long the queued PFC frames take, and with what the device is busy   *)
(* and the frame a paused queue will want for its resume.                  *)
Load == PfcSize * Len(frames)
Queued == Load + answering + (IF IsPaused THEN PfcSize ELSE 0)

(* When the last PFC frame under way will be received, ...                 *)
Coming == Len(frames) > 0 \/ Len(back) > 0
Left == IF Len(frames) > 0 THEN answering + Load + Lag ELSE Final(back).in

(* ... by when the last packet the upstream sends until then is received,  *)
(* and what has been received of the next packet.                          *)
Ends(mtu) == IF Coming THEN IF sending > Left THEN sending + Lag ELSE Left + mtu + Lag
             ELSE IF Len(wire) > 0 THEN Final(wire).in ELSE 0
Part == IF Len(wire) > 0 /\ wire[1].size > wire[1].in
        THEN wire[1].size - wire[1].in ELSE 0

LinkOK(mtu) ==
  /\ sending \in Nat /\ sending <= mtu /\ answering \in Nat
  /\ wire \in Seq(Packets) /\ frames \in Seq(Decisions) /\ back \in Seq(Flying)

(* Both directions carry one thing at a time, in order.                    *)
InOrder ==
  /\ \A j, k \in 1..Len(wire) : j < k => wire[j].in + wire[k].size <= wire[k].in
  /\ \A k \in 1..Len(wire) : wire[k].in <= sending + Lag
  /\ \A j, k \in 1..Len(back) : j < k => back[j].in <= back[k].in
  /\ \A k \in 1..Len(back) : back[k].in <= answering + Lag

(* The last PFC frame under way to a paused upstream is a pause; when none *)
(* is under way it has stopped.                                            *)
LastIsPause ==
  IsPaused => IF Len(frames) > 0 THEN Final(frames).pause
              ELSE IF Len(back) > 0 THEN Final(back).pause ELSE 1 \in stopped

(* PFC frames do not pile up: a pause comes of a packet, which takes as    *)
(* long as a pause and a resume do.                                        *)
FewFrames(mtu) ==
  /\ Queued <= mtu + 3 * PfcSize
  /\ Len(wire) > 0 => Queued <= mtu + PfcSize + wire[1].in

(* What is in the headroom, and all that can still come, fit into it.      *)
RoomLeft(mtu) ==
  IsPaused => hdrm_bytes[Watched][1] + Ends(mtu) + Part <= Headroom[Watched]

LinkInv(mtu) ==
  LinkOK(mtu) /\ InOrder /\ LastIsPause /\ FewFrames(mtu) /\ RoomLeft(mtu)

LEMMA Appended ==
  ASSUME NEW S, NEW s \in Seq(S), NEW e \in S
  PROVE  /\ Append(s, e) \in Seq(S) /\ Len(Append(s, e)) = Len(s) + 1
         /\ \A k \in 1..Len(s) : Append(s, e)[k] = s[k]
         /\ Append(s, e)[Len(s) + 1] = e /\ Final(Append(s, e)) = e
BY AppendProperties DEF Final

LEMMA Popped ==
  ASSUME NEW S, NEW s \in Seq(S), s # <<>>
  PROVE  /\ Tail(s) \in Seq(S) /\ Len(s) \in Nat /\ Len(s) >= 1 /\ Head(s) = s[1]
         /\ Len(Tail(s)) = Len(s) - 1
         /\ \A k \in 1..(Len(s) - 1) : Tail(s)[k] = s[k + 1]
         /\ Len(s) > 1 => Final(Tail(s)) = Final(s)
<1>1. Len(s) \in Nat /\ Len(s) >= 1
  BY EmptySeq, LenProperties
<1>2. /\ Tail(s) \in Seq(S) /\ Len(Tail(s)) = Len(s) - 1
      /\ \A k \in 1..(Len(s) - 1) : Tail(s)[k] = s[k + 1]
  BY HeadTailProperties
<1>3. Head(s) = s[1]
  OBVIOUS
<1>4. QED
  BY <1>1, <1>2, <1>3 DEF Final

LEMMA Loads ==
  /\ PfcSize \in Nat /\ PfcSize >= 1
  /\ \A n \in Nat : /\ PfcSize * n \in Nat /\ PfcSize * (n + 1) = PfcSize * n + PfcSize
                    /\ n > 0 => PfcSize * n >= PfcSize /\ PfcSize * (n - 1) = PfcSize * n - PfcSize
                    /\ n = 0 => PfcSize * n = 0
<1>1. PfcSize \in Nat /\ PfcSize >= 1
  BY HeadroomLink
<1>2. ASSUME NEW n \in Nat
      PROVE  PfcSize * n \in Nat /\ PfcSize * (n + 1) = PfcSize * n + PfcSize
  BY <1>1
<1>3. ASSUME NEW n \in Nat, n > 0
      PROVE  PfcSize * (n - 1) \in Nat /\ PfcSize * (n - 1) = PfcSize * n - PfcSize
  BY <1>1, <1>3
<1>4. PfcSize * 0 = 0
  BY <1>1
<1>5. ASSUME NEW n \in Nat, n > 0 PROVE PfcSize * n >= PfcSize
  BY <1>1, <1>2, <1>3, <1>5
<1>6. QED
  BY <1>1, <1>2, <1>3, <1>4, <1>5

(* The numbers of a long link. *)
LEMMA LinkNumbers ==
  ASSUME NEW mtu \in Nat, LongLink(mtu)
  PROVE  /\ Lag \in Nat /\ 3 * mtu + 2 * PfcSize <= Lag
         /\ Headroom[Watched] = 3 * Lag
         /\ Queue = {1} /\ Watched \in Port
         /\ \A s \in PktSize : s \in Nat /\ s <= mtu
         /\ \A s \in SentSize : s \in PktSize /\ s \in Nat /\ 2 * PfcSize <= s /\ s <= mtu
<1>1. Queue = {1}
  BY DEF Queue, LongLink
<1>2. Lag \in Nat /\ Watched \in Port /\ Headroom[Watched] = Lag * 3
  BY HeadroomLink DEF Lag, HeadroomOf
<1>3. Lag * 3 = 3 * Lag
  BY <1>2
<1>4. \A s \in SentSize : s \in PktSize
  BY HeadroomLink
<1>5. QED
  BY <1>1, <1>2, <1>3, <1>4, MmuPktSize DEF LongLink, Lag

(* The invariant, read field by field. *)
LEMMA LinkFields ==
  ASSUME NEW mtu \in Nat, LongLink(mtu), IInv, LinkOK(mtu)
  PROVE  /\ Len(wire) \in Nat /\ Len(frames) \in Nat /\ Len(back) \in Nat
         /\ \A k \in 1..Len(wire) : /\ wire[k] \in Packets /\ wire[k].in \in Nat
                                    /\ wire[k].q = 1 /\ wire[k].size \in SentSize
                                    /\ wire[k].size \in Nat
         /\ \A k \in 1..Len(back) : back[k] \in Flying /\ back[k].in \in Nat
         /\ \A k \in 1..Len(back) : back[k].q = 1 /\ back[k].pause \in BOOLEAN
         /\ \A k \in 1..Len(frames) : /\ frames[k] \in Decisions
                                      /\ frames[k].q = 1 /\ frames[k].pause \in BOOLEAN
         /\ IsPaused \in BOOLEAN /\ hdrm_bytes[Watched][1] \in Nat
         /\ Load \in Nat /\ Queued \in Nat /\ Part \in Nat
         /\ Len(frames) = 0 => Load = 0
         /\ Len(frames) > 0 => Load >= PfcSize
         /\ Coming => Left \in Nat
         /\ Ends(mtu) \in Nat
<1>1. /\ Len(wire) \in Nat /\ Len(frames) \in Nat /\ Len(back) \in Nat
      /\ \A k \in 1..Len(wire) : wire[k] \in Packets
      /\ \A k \in 1..Len(back) : back[k] \in Flying
      /\ \A k \in 1..Len(frames) : frames[k] \in Decisions
  BY LenProperties, ElementOfSeq DEF LinkOK
<1>2. \A k \in 1..Len(wire) : /\ wire[k].in \in Nat /\ wire[k].q = 1
                              /\ wire[k].size \in SentSize /\ wire[k].size \in Nat
  BY <1>1, LinkNumbers DEF Packets
<1>3. /\ \A k \in 1..Len(back) : back[k].in \in Nat
      /\ \A k \in 1..Len(back) : back[k].q = 1 /\ back[k].pause \in BOOLEAN
  BY <1>1, LinkNumbers DEF Flying
<1>4. \A k \in 1..Len(frames) : frames[k].q = 1 /\ frames[k].pause \in BOOLEAN
  BY <1>1, LinkNumbers DEF Decisions
<1>5. IsPaused \in BOOLEAN /\ hdrm_bytes[Watched][1] \in Nat
  <2>1. 1 \in Queue /\ Watched \in Port
    BY LinkNumbers
  <2>2. QED
    BY <2>1, IInvAt DEF IInv, TypeOK, IsPaused
<1>6. /\ Load \in Nat /\ (Len(frames) = 0 => Load = 0)
      /\ (Len(frames) > 0 => Load >= PfcSize)
  BY <1>1, Loads DEF Load
<1>7. Queued \in Nat
  BY <1>6, Loads DEF Queued, LinkOK
<1>8. Part \in Nat
  BY <1>1, <1>2 DEF Part
<1>9. Coming => Left \in Nat
  BY <1>1, <1>3, <1>6, LinkNumbers DEF Coming, Left, Final, LinkOK
<1>10. Ends(mtu) \in Nat
  <2>1. Len(wire) > 0 => Final(wire).in \in Nat
    BY <1>1, <1>2 DEF Final
  <2>2. sending \in Nat /\ Lag \in Nat
    BY LinkNumbers DEF LinkOK
  <2>3. QED
    BY <1>9, <2>1, <2>2 DEF Ends
<1>11. QED
  BY <1>1, <1>2, <1>3, <1>4, <1>5, <1>6, <1>7, <1>8, <1>9, <1>10

(* The upstream sends a packet: it is after all that is on the wire.       *)
LEMMA TransmitKeeps ==
  ASSUME NEW mtu \in Nat, LongLink(mtu), IInv, LinkInv(mtu),
         NEW q \in Queue, NEW s \in SentSize, Transmit(q, s)
  PROVE  LinkInv(mtu)'
<1> DEFINE p == [q |-> q, size |-> s, in |-> s + Lag]
           n == Len(wire)
<1>1. /\ sending = 0 /\ sending' = s /\ wire' = Append(wire, p)
      /\ 1 \notin stopped
      /\ UNCHANGED <<mmu_vars, stopped, answering, frames, back>>
  BY LinkNumbers DEF Transmit, Lag
<1>2. /\ LinkOK(mtu) /\ InOrder /\ LastIsPause /\ FewFrames(mtu) /\ RoomLeft(mtu)
  BY DEF LinkInv
<1>3. /\ s \in Nat /\ s >= 1 /\ s <= mtu /\ Lag \in Nat
  BY LinkNumbers, Loads
<1>4. p \in Packets
  BY <1>3 DEF Packets
<1>5. /\ wire' \in Seq(Packets) /\ Len(wire') = n + 1 /\ Final(wire') = p
      /\ \A k \in 1..n : wire'[k] = wire[k]
      /\ wire'[n + 1] = p
  BY <1>1, <1>2, <1>4, Appended DEF LinkOK
<1>6. p.in = s + Lag /\ p.size = s
  OBVIOUS
<1> HIDE DEF p
<1>7. LinkOK(mtu)'
  BY <1>1, <1>2, <1>3, <1>5 DEF LinkOK
<1>8. n \in Nat /\ \A k \in 1..n : wire[k].in \in Nat /\ wire[k].size \in Nat
  BY <1>2, LinkFields
<1>9. InOrder'
  <2>1. \A j, k \in 1..(n + 1) : j < k => wire'[j].in + wire'[k].size <= wire'[k].in
    <3>1. \A k \in 1..n : wire[k].in <= Lag
      BY <1>1, <1>2, <1>3, <1>8 DEF InOrder
    <3>2. TAKE j, k \in 1..(n + 1)
    <3>3. CASE k = n + 1
      <4>1. HAVE j < k
      <4>2. j \in 1..n /\ wire'[j] = wire[j] /\ wire'[k] = p
        BY <1>5, <1>8, <3>3, <4>1
      <4>3. QED
        BY <1>3, <1>6, <1>8, <3>1, <4>2
    <3>4. CASE k # n + 1
      <4>1. HAVE j < k
      <4>2. j \in 1..n /\ k \in 1..n /\ wire'[j] = wire[j] /\ wire'[k] = wire[k]
        BY <1>5, <1>8, <3>4, <4>1
      <4>3. QED
        BY <1>2, <4>1, <4>2 DEF InOrder
    <3>5. QED
      BY <3>3, <3>4
  <2>2. \A k \in 1..(n + 1) : wire'[k].in <= s + Lag
    <3>1. TAKE k \in 1..(n + 1)
    <3>2. CASE k = n + 1
      BY <1>3, <1>5, <1>6, <3>2
    <3>3. CASE k # n + 1
      <4>1. k \in 1..n /\ wire'[k] = wire[k]
        BY <1>5, <1>8, <3>3
      <4>2. QED
        BY <1>1, <1>2, <1>3, <1>8, <4>1 DEF InOrder
    <3>4. QED
      BY <3>2, <3>3
  <2>3. Lag' = Lag
    BY DEF Lag
  <2>4. QED
    BY <1>1, <1>2, <1>5, <2>1, <2>2, <2>3 DEF InOrder
<1>10. /\ IsPaused' = IsPaused /\ Load' = Load /\ Queued' = Queued
       /\ Coming' = Coming /\ Left' = Left /\ Lag' = Lag
       /\ hdrm_bytes' = hdrm_bytes
  BY <1>1 DEF mmu_vars, IsPaused, Load, Queued, Coming, Left, Final, Lag
<1>11. LastIsPause'
  BY <1>1, <1>2, <1>10 DEF LastIsPause, Final
<1>12. (n > 0 => wire'[1] = wire[1]) /\ (n = 0 => wire'[1] = p)
  BY <1>5, <1>8
<1>13. FewFrames(mtu)'
  <2>1. Queued <= mtu + 3 * PfcSize /\ (n > 0 => Queued <= mtu + PfcSize + wire[1].in)
    BY <1>2 DEF FewFrames
  <2>2. n = 0 => Queued <= mtu + PfcSize + wire'[1].in
    <3>1. Lag >= 2 * PfcSize
      BY LinkNumbers, Loads
    <3>2. Queued \in Nat
      BY <1>2, LinkFields
    <3>3. QED
      BY <1>3, <1>6, <1>12, <2>1, <3>1, <3>2, Loads
  <2>3. QED
    BY <1>8, <1>10, <1>12, <2>1, <2>2 DEF FewFrames
<1>14. RoomLeft(mtu)'
  <2>1. SUFFICES ASSUME IsPaused
                 PROVE  hdrm_bytes[Watched][1] + Ends(mtu)' + Part' <= Headroom[Watched]
    BY <1>10 DEF RoomLeft
  <2>2. Coming
    BY <1>1, <1>2, <1>8, <2>1, LinkFields DEF LastIsPause, Coming
  <2>3. Left \in Nat /\ Part \in Nat /\ hdrm_bytes[Watched][1] \in Nat
    BY <1>2, <2>2, LinkFields
  <2>4. Ends(mtu) = Left + mtu + Lag
    BY <1>1, <2>2, <2>3 DEF Ends
  <2>5. Ends(mtu)' = IF s > Left THEN s + Lag ELSE Left + mtu + Lag
    BY <1>1, <1>10, <2>2 DEF Ends
  <2>6. Part' = Part
    <3>1. CASE n > 0
      BY <1>5, <1>8, <1>12, <3>1 DEF Part
    <3>2. CASE n = 0
      BY <1>3, <1>5, <1>6, <1>8, <1>12, <3>2 DEF Part
    <3>3. QED
      BY <1>8, <3>1, <3>2
  <2>7. hdrm_bytes[Watched][1] + Ends(mtu) + Part <= Headroom[Watched]
    BY <1>2, <2>1 DEF RoomLeft
  <2>8. Headroom[Watched] \in Nat
    BY LinkNumbers
  <2>9. QED
    BY <1>3, <2>3, <2>4, <2>5, <2>6, <2>7, <2>8
<1>15. QED
  BY <1>7, <1>9, <1>11, <1>13, <1>14 DEF LinkInv

(* A PFC frame is received by the upstream: the last one, when it is a     *)
(* pause, has stopped it.                                                  *)
LEMMA ReceivePfcKeeps ==
  ASSUME NEW mtu \in Nat, LongLink(mtu), IInv, LinkInv(mtu), ReceivePfc
  PROVE  LinkInv(mtu)'
<1> DEFINE n == Len(back)
<1>1. /\ back # <<>> /\ back' = Tail(back) /\ Head(back).in = 0
      /\ stopped' = IF Head(back).pause THEN stopped \cup {Head(back).q}
                    ELSE stopped \ {Head(back).q}
      /\ UNCHANGED <<mmu_vars, sending, wire, answering, frames>>
  BY DEF ReceivePfc
<1>2. /\ LinkOK(mtu) /\ InOrder /\ LastIsPause /\ FewFrames(mtu) /\ RoomLeft(mtu)
  BY DEF LinkInv
<1>3. /\ back' \in Seq(Flying) /\ n \in Nat /\ n >= 1 /\ Head(back) = back[1]
      /\ Len(back') = n - 1 /\ \A k \in 1..(n - 1) : back'[k] = back[k + 1]
      /\ n > 1 => Final(back') = Final(back)
  BY <1>1, <1>2, Popped DEF LinkOK
<1>4. LinkOK(mtu)'
  BY <1>1, <1>2, <1>3 DEF LinkOK
<1>5. /\ \A k \in 1..n : back[k].in \in Nat
      /\ \A k \in 1..n : back[k].q = 1 /\ back[k].pause \in BOOLEAN
      /\ Len(frames) \in Nat /\ Len(wire) \in Nat
      /\ \A k \in 1..Len(wire) : wire[k].in \in Nat
  BY <1>2, LinkFields
<1>6. /\ IsPaused' = IsPaused /\ Load' = Load /\ Queued' = Queued /\ Lag' = Lag
      /\ hdrm_bytes' = hdrm_bytes /\ Part' = Part
  BY <1>1 DEF mmu_vars, IsPaused, Load, Queued, Lag, Part
<1>7. InOrder'
  <2>1. \A j, k \in 1..(n - 1) : j < k => back'[j].in <= back'[k].in
    <3>1. TAKE j, k \in 1..(n - 1)
    <3>2. j + 1 \in 1..n /\ k + 1 \in 1..n /\ (j < k => j + 1 < k + 1)
      BY <1>3
    <3>3. QED
      BY <1>2, <1>3, <3>2 DEF InOrder
  <2>2. \A k \in 1..(n - 1) : back'[k].in <= answering + Lag
    <3>1. TAKE k \in 1..(n - 1)
    <3>2. k + 1 \in 1..n
      BY <1>3
    <3>3. QED
      BY <1>2, <1>3, <3>2 DEF InOrder
  <2>3. QED
    BY <1>1, <1>2, <1>3, <1>6, <2>1, <2>2 DEF InOrder
<1>8. LastIsPause'
  <2>1. CASE Len(frames) > 0
    BY <1>1, <1>2, <1>6, <2>1 DEF LastIsPause, Final
  <2>2. CASE Len(frames) = 0 /\ n > 1
    BY <1>1, <1>2, <1>3, <1>6, <2>2 DEF LastIsPause, Final
  <2>3. CASE Len(frames) = 0 /\ n = 1
    BY <1>1, <1>2, <1>3, <1>5, <1>6, <2>3 DEF LastIsPause, Final
  <2>4. QED
    BY <1>3, <1>5, <2>1, <2>2, <2>3
<1>9. FewFrames(mtu)'
  BY <1>1, <1>2, <1>6 DEF FewFrames
<1>10. RoomLeft(mtu)'
  <2>1. Ends(mtu)' \in Nat /\ Ends(mtu)' <= Ends(mtu)
    <3>1. Ends(mtu) \in Nat /\ sending \in Nat /\ Lag \in Nat
      BY <1>2, LinkFields, LinkNumbers DEF LinkOK
    <3>2. CASE Len(frames) > 0 \/ n > 1
      <4>1. Coming /\ Coming' /\ Left' = Left
        BY <1>1, <1>3, <1>6, <3>2 DEF Coming, Left
      <4>2. Ends(mtu)' = Ends(mtu)
        BY <1>1, <1>6, <4>1 DEF Ends
      <4>3. QED
        BY <3>1, <4>2
    <3>3. CASE Len(frames) = 0 /\ n = 1
      <4>1. Coming /\ ~Coming' /\ Left = 0
        BY <1>1, <1>3, <3>3 DEF Coming, Left, Final
      <4>2. Ends(mtu) = IF sending > 0 THEN sending + Lag ELSE mtu + Lag
        BY <4>1 DEF Ends
      <4>3. Ends(mtu)' = IF Len(wire) > 0 THEN Final(wire).in ELSE 0
        BY <1>1, <4>1 DEF Ends, Final
      <4>4. Len(wire) > 0 => Final(wire).in \in Nat /\ Final(wire).in <= sending + Lag
        BY <1>2, <1>5 DEF InOrder, Final
      <4>5. QED
        BY <3>1, <4>2, <4>3, <4>4
    <3>4. QED
      BY <1>3, <1>5, <3>2, <3>3
  <2>2. /\ hdrm_bytes[Watched][1] \in Nat /\ Part \in Nat /\ Ends(mtu) \in Nat
        /\ Headroom[Watched] \in Nat
    BY <1>2, LinkFields, LinkNumbers
  <2>3. QED
    BY <1>2, <1>6, <2>1, <2>2 DEF RoomLeft
<1>11. QED
  BY <1>4, <1>7, <1>8, <1>9, <1>10 DEF LinkInv

(* The switch's device sends a PFC frame: it will be received when it was  *)
(* said to be.                                                             *)
LEMMA TransmitPfcKeeps ==
  ASSUME NEW mtu \in Nat, LongLink(mtu), IInv, LinkInv(mtu), TransmitPfc
  PROVE  LinkInv(mtu)'
<1> DEFINE n == Len(back)
           m == Len(frames)
           f == [q |-> Head(frames).q, pause |-> Head(frames).pause, in |-> PfcSize + Lag]
<1>1. /\ answering = 0 /\ answering' = PfcSize /\ frames # <<>> /\ frames' = Tail(frames)
      /\ back' = Append(back, f)
      /\ UNCHANGED <<mmu_vars, sending, stopped, wire>>
  BY DEF TransmitPfc, Lag
<1>2. /\ LinkOK(mtu) /\ InOrder /\ LastIsPause /\ FewFrames(mtu) /\ RoomLeft(mtu)
  BY DEF LinkInv
<1>3. /\ frames' \in Seq(Decisions) /\ m \in Nat /\ m >= 1 /\ Head(frames) = frames[1]
      /\ Len(frames') = m - 1 /\ (m > 1 => Final(frames') = Final(frames))
  BY <1>1, <1>2, Popped DEF LinkOK
<1>4. Lag \in Nat /\ PfcSize \in Nat
  BY LinkNumbers, Loads
<1>5. f \in Flying
  <2>1. frames[1] \in Decisions
    BY <1>2, <1>3, LinkFields
  <2>2. QED
    BY <1>3, <1>4, <2>1 DEF Decisions, Flying
<1>6. f.in = PfcSize + Lag /\ f.pause = Head(frames).pause
  OBVIOUS
<1>7. /\ back' \in Seq(Flying) /\ Len(back') = n + 1 /\ Final(back') = f
      /\ \A k \in 1..n : back'[k] = back[k]
      /\ back'[n + 1] = f
  BY <1>1, <1>2, <1>5, Appended DEF LinkOK
<1> HIDE DEF f
<1>8. LinkOK(mtu)'
  BY <1>1, <1>2, <1>3, <1>4, <1>7 DEF LinkOK
<1>9. n \in Nat /\ (\A k \in 1..n : back[k].in \in Nat) /\ Load \in Nat
  BY <1>2, LinkFields
<1>10. /\ IsPaused' = IsPaused /\ Lag' = Lag /\ hdrm_bytes' = hdrm_bytes /\ Part' = Part
       /\ Load' = Load - PfcSize
  BY <1>1, <1>3, Loads DEF mmu_vars, IsPaused, Lag, Part, Load
<1>11. InOrder'
  <2>1. \A k \in 1..n : back[k].in <= Lag
    BY <1>1, <1>2, <1>4, <1>9 DEF InOrder
  <2>2. \A j, k \in 1..(n + 1) : j < k => back'[j].in <= back'[k].in
    <3>1. TAKE j, k \in 1..(n + 1)
    <3>2. HAVE j < k
    <3>3. j \in 1..n /\ back'[j] = back[j]
      BY <1>7, <1>9, <3>2
    <3>4. CASE k = n + 1
      BY <1>4, <1>6, <1>7, <1>9, <2>1, <3>3, <3>4
    <3>5. CASE k # n + 1
      <4>1. k \in 1..n /\ back'[k] = back[k]
        BY <1>7, <1>9, <3>5
      <4>2. QED
        BY <1>2, <3>2, <3>3, <4>1 DEF InOrder
    <3>6. QED
      BY <3>4, <3>5
  <2>3. \A k \in 1..(n + 1) : back'[k].in <= PfcSize + Lag
    <3>1. TAKE k \in 1..(n + 1)
    <3>2. CASE k = n + 1
      BY <1>4, <1>6, <1>7, <3>2
    <3>3. CASE k # n + 1
      <4>1. k \in 1..n /\ back'[k] = back[k]
        BY <1>7, <1>9, <3>3
      <4>2. QED
        BY <1>4, <1>9, <2>1, <4>1
    <3>4. QED
      BY <3>2, <3>3
  <2>4. QED
    BY <1>1, <1>2, <1>7, <1>10, <2>2, <2>3 DEF InOrder
<1>12. LastIsPause'
  <2>1. CASE m > 1
    BY <1>2, <1>3, <1>10, <2>1 DEF LastIsPause
  <2>2. CASE m = 1
    BY <1>2, <1>3, <1>6, <1>7, <1>9, <1>10, <2>2 DEF LastIsPause, Final
  <2>3. QED
    BY <1>3, <2>1, <2>2
<1>13. FewFrames(mtu)'
  <2>1. Queued' = Queued
    BY <1>1, <1>4, <1>9, <1>10 DEF Queued
  <2>2. QED
    BY <1>1, <1>2, <2>1 DEF FewFrames
<1>14. RoomLeft(mtu)'
  <2>1. Coming /\ Coming'
    BY <1>3, <1>7, <1>9 DEF Coming
  <2>2. Left' = Left
    <3>1. Left = Load + Lag
      BY <1>1, <1>3, <1>4, <1>9 DEF Left
    <3>2. CASE m > 1
      BY <1>1, <1>3, <1>4, <1>9, <1>10, <3>1, <3>2 DEF Left
    <3>3. CASE m = 1
      <4>1. Load = PfcSize
        BY <1>4, <3>3, Loads DEF Load
      <4>2. QED
        BY <1>3, <1>6, <1>7, <3>1, <3>3, <4>1 DEF Left
    <3>4. QED
      BY <1>3, <3>2, <3>3
  <2>3. Ends(mtu)' = Ends(mtu)
    BY <1>1, <1>10, <2>1, <2>2 DEF Ends
  <2>4. QED
    BY <1>2, <1>10, <2>3 DEF RoomLeft
<1>15. QED
  BY <1>8, <1>11, <1>12, <1>13, <1>14 DEF LinkInv

(* It sends another packet: no PFC frame waits.                            *)
LEMMA TransmitOtherKeeps ==
  ASSUME NEW mtu \in Nat, LongLink(mtu), IInv, LinkInv(mtu),
         NEW s \in PktSize, TransmitOther(s)
  PROVE  LinkInv(mtu)'
<1>1. /\ answering = 0 /\ answering' = s /\ frames = <<>>
      /\ UNCHANGED <<mmu_vars, sending, stopped, wire, frames, back>>
  BY DEF TransmitOther
<1>2. /\ LinkOK(mtu) /\ InOrder /\ LastIsPause /\ FewFrames(mtu) /\ RoomLeft(mtu)
  BY DEF LinkInv
<1>3. /\ s \in Nat /\ s <= mtu /\ Lag \in Nat /\ Len(frames) = 0
      /\ Load = 0 /\ PfcSize \in Nat
  <2>1. Len(frames) = 0
    BY <1>1
  <2>2. QED
    BY <1>2, <2>1, LinkNumbers, LinkFields, Loads
<1>4. LinkOK(mtu)'
  BY <1>1, <1>2, <1>3 DEF LinkOK
<1>5. /\ IsPaused' = IsPaused /\ Lag' = Lag /\ hdrm_bytes' = hdrm_bytes /\ Part' = Part
      /\ Load' = Load /\ Coming' = Coming /\ Left' = Left
  BY <1>1, <1>3 DEF mmu_vars, IsPaused, Lag, Part, Load, Coming, Left, Final
<1>6. InOrder'
  <2>1. \A k \in 1..Len(back) : back[k].in <= s + Lag
    BY <1>1, <1>2, <1>3, LinkFields DEF InOrder
  <2>2. QED
    BY <1>1, <1>2, <1>5, <2>1 DEF InOrder
<1>7. LastIsPause'
  BY <1>1, <1>2, <1>5 DEF LastIsPause, Final
<1>8. FewFrames(mtu)'
  <2>1. Queued' <= mtu + PfcSize /\ Queued' \in Nat
    BY <1>1, <1>3, <1>5 DEF Queued
  <2>2. Len(wire) > 0 => wire[1].in \in Nat
    BY <1>2, LinkFields
  <2>3. QED
    BY <1>1, <1>3, <2>1, <2>2 DEF FewFrames
<1>9. RoomLeft(mtu)'
  <2>1. Ends(mtu)' = Ends(mtu)
    BY <1>1, <1>5 DEF Ends, Final
  <2>2. QED
    BY <1>2, <1>5, <2>1 DEF RoomLeft
<1>10. QED
  BY <1>4, <1>6, <1>7, <1>8, <1>9 DEF LinkInv

(* What the MMU's steps do to the headroom and the pause of each port.     *)
LEMMA EnqueueSees ==
  ASSUME IInv, NEW i \in Port, NEW o \in Port, NEW q \in Queue, NEW s \in PktSize,
         Enqueue(i, o, q, s)
  PROVE  /\ hdrm_bytes'[i][q] \in Nat /\ hdrm_bytes'[i][q] <= hdrm_bytes[i][q] + s
         /\ paused[i][q] => paused'[i][q]
         /\ paused'[i][q] \in BOOLEAN
         /\ \A j \in Port : j # i => hdrm_bytes'[j] = hdrm_bytes[j] /\ paused'[j] = paused[j]
<1>1. hdrm_bytes \in Counters /\ paused \in [Port -> [Queue -> BOOLEAN]]
  BY DEF IInv, TypeOK, Counters
<1>2. PICK hNew \in Nat, gNew \in Nat, sNew \in Nat :
         StepAt(i, q, hNew, gNew, sNew) /\ hNew <= hdrm_bytes[i][q] + s
  BY EnqueueAt DEF Enqueue
<1>3. /\ hdrm_bytes'[i][q] = hNew
      /\ \A j \in Port : j # i => hdrm_bytes'[j] = hdrm_bytes[j]
  BY <1>1, <1>2 DEF StepAt, Counters
<1> DEFINE b == paused[i][q] \/ CheckShouldPause(i, paused[i][q], hdrm_bytes'[i][q],
                                   ingress_bytes'[i][q], shared_used_bytes')
<1>4. paused' = [paused EXCEPT ![i][q] = b]
  BY DEF Enqueue, CheckAndSendPfc
<1>5. b \in BOOLEAN /\ (paused[i][q] => b)
  BY <1>1 DEF CheckShouldPause
<1> HIDE DEF b
<1>6. paused'[i][q] = b /\ \A j \in Port : j # i => paused'[j] = paused[j]
  BY <1>1, <1>4
<1>7. QED
  BY <1>2, <1>3, <1>5, <1>6

LEMMA DequeueSees ==
  ASSUME IInv, NEW i \in Port, NEW o \in Port, NEW q \in Queue, NEW s \in PktSize,
         Dequeue(i, o, q, s)
  PROVE  /\ hdrm_bytes'[i][q] \in Nat /\ hdrm_bytes'[i][q] <= hdrm_bytes[i][q]
         /\ paused'[i][q] => paused[i][q]
         /\ paused'[i][q] \in BOOLEAN
         /\ \A j \in Port : j # i => hdrm_bytes'[j] = hdrm_bytes[j] /\ paused'[j] = paused[j]
<1>1. hdrm_bytes \in Counters /\ paused \in [Port -> [Queue -> BOOLEAN]]
  BY DEF IInv, TypeOK, Counters
<1>2. PICK hNew \in Nat, gNew \in Nat, sNew \in Nat :
         StepAt(i, q, hNew, gNew, sNew) /\ hNew <= hdrm_bytes[i][q]
  BY DequeueAt DEF Dequeue
<1>3. /\ hdrm_bytes'[i][q] = hNew
      /\ \A j \in Port : j # i => hdrm_bytes'[j] = hdrm_bytes[j]
  BY <1>1, <1>2 DEF StepAt, Counters
<1> DEFINE b == paused[i][q] /\ ~CheckShouldResume(i, paused[i][q], hdrm_bytes'[i][q],
                                   ingress_bytes'[i][q], shared_used_bytes')
<1>4. paused' = [paused EXCEPT ![i][q] = b]
  BY DEF Dequeue, CheckAndSendResume
<1>5. b \in BOOLEAN /\ (b => paused[i][q])
  BY <1>1 DEF CheckShouldResume
<1> HIDE DEF b
<1>6. paused'[i][q] = b /\ \A j \in Port : j # i => paused'[j] = paused[j]
  BY <1>1, <1>4
<1>7. QED
  BY <1>2, <1>3, <1>5, <1>6

(* The frame that tells of a new decision.                                 *)
Decision == [q |-> 1, pause |-> IsPaused']

(* A step of the MMU that does not pause the upstream and takes nothing    *)
(* more of its headroom.                                                   *)
LEMMA ReliefKeeps ==
  ASSUME NEW mtu \in Nat, LongLink(mtu), IInv, LinkInv(mtu),
         hdrm_bytes'[Watched][1] \in Nat,
         hdrm_bytes'[Watched][1] <= hdrm_bytes[Watched][1],
         IsPaused' \in BOOLEAN, IsPaused' => IsPaused,
         frames' = IF IsPaused' = IsPaused THEN frames ELSE Append(frames, Decision),
         UNCHANGED <<sending, stopped, wire, answering, back>>
  PROVE  LinkInv(mtu)'
<1>1. UNCHANGED <<sending, stopped, wire, answering, back>>
  OBVIOUS
<1>2. /\ LinkOK(mtu) /\ InOrder /\ LastIsPause /\ FewFrames(mtu) /\ RoomLeft(mtu)
  BY DEF LinkInv
<1>3. Lag' = Lag /\ Part' = Part
  BY <1>1 DEF Lag, Part
<1>4. InOrder'
  BY <1>1, <1>2, <1>3 DEF InOrder
<1>5. CASE IsPaused' = IsPaused
  <2>1. frames' = frames
    BY <1>5
  <2>2. LinkOK(mtu)'
    BY <1>1, <1>2, <2>1 DEF LinkOK
  <2>3. LastIsPause'
    BY <1>1, <1>2, <1>5, <2>1 DEF LastIsPause, Final
  <2>4. Load' = Load /\ Coming' = Coming
    BY <1>1, <2>1 DEF Load, Coming
  <2>5. Queued' = Queued /\ Left' = Left
    BY <1>1, <1>3, <1>5, <2>1, <2>4 DEF Queued, Left, Final
  <2>6. FewFrames(mtu)'
    BY <1>1, <1>2, <2>5 DEF FewFrames
  <2>7. Ends(mtu)' = Ends(mtu)
    BY <1>1, <1>3, <2>4, <2>5 DEF Ends, Final
  <2>8. /\ hdrm_bytes[Watched][1] \in Nat /\ Part \in Nat /\ Ends(mtu) \in Nat
        /\ Headroom[Watched] \in Nat
    BY <1>2, LinkFields, LinkNumbers
  <2>9. RoomLeft(mtu)'
    BY <1>2, <1>3, <1>5, <2>7, <2>8 DEF RoomLeft
  <2>10. QED
    BY <1>4, <2>2, <2>3, <2>6, <2>9 DEF LinkInv
<1>6. CASE IsPaused' # IsPaused
  <2>1. IsPaused /\ ~IsPaused'
    BY <1>2, <1>6, LinkFields
  <2>2. frames' = Append(frames, Decision) /\ Decision \in Decisions
    BY <1>6, LinkNumbers DEF Decision, Decisions
  <2>3. frames' \in Seq(Decisions) /\ Len(frames') = Len(frames) + 1 /\ Len(frames) \in Nat
    BY <1>2, <2>2, Appended, LinkFields DEF LinkOK
  <2>4. LinkOK(mtu)'
    BY <1>1, <1>2, <2>3 DEF LinkOK
  <2>5. LastIsPause' /\ RoomLeft(mtu)'
    BY <2>1 DEF LastIsPause, RoomLeft
  <2>6. Load' = Load + PfcSize
    BY <2>3, Loads DEF Load
  <2>7. Queued' = Queued
    <3>1. Load \in Nat /\ PfcSize \in Nat /\ answering \in Nat
      BY <1>2, LinkFields, Loads DEF LinkOK
    <3>2. QED
      BY <1>1, <2>1, <2>6, <3>1 DEF Queued
  <2>8. FewFrames(mtu)'
    BY <1>1, <1>2, <2>7 DEF FewFrames
  <2>9. QED
    BY <1>4, <2>4, <2>5, <2>8 DEF LinkInv
<1>7. QED
  BY <1>5, <1>6

LEMMA ArriveElsewhereKeeps ==
  ASSUME NEW mtu \in Nat, LongLink(mtu), IInv, LinkInv(mtu),
         NEW i \in Port, NEW o \in Port, NEW q \in Queue, NEW s \in PktSize,
         ArriveElsewhere(i, o, q, s)
  PROVE  LinkInv(mtu)'
<1>1. /\ i # Watched /\ (Enqueue(i, o, q, s) \/ UNCHANGED mmu_vars)
      /\ UNCHANGED link_vars
  BY DEF ArriveElsewhere, Drop
<1>2. /\ hdrm_bytes'[Watched] = hdrm_bytes[Watched] /\ paused'[Watched] = paused[Watched]
  BY <1>1, EnqueueSees, LinkNumbers DEF mmu_vars
<1>3. IsPaused \in BOOLEAN /\ hdrm_bytes[Watched][1] \in Nat
  BY LinkFields DEF LinkInv
<1>4. IsPaused' = IsPaused
  BY <1>2 DEF IsPaused
<1>5. QED
  BY <1>1, <1>2, <1>3, <1>4, ReliefKeeps DEF link_vars

LEMMA LeaveKeeps ==
  ASSUME NEW mtu \in Nat, LongLink(mtu), IInv, LinkInv(mtu),
         NEW i \in Port, NEW o \in Port, NEW q \in Queue, NEW s \in PktSize,
         Leave(i, o, q, s)
  PROVE  LinkInv(mtu)'
<1>1. /\ Dequeue(i, o, q, s) /\ UNCHANGED <<sending, stopped, wire, answering, back>>
      /\ SendPfc(q) /\ q = 1
  BY LinkNumbers DEF Leave
<1>2. frames' = IF IsPaused' = IsPaused THEN frames ELSE Append(frames, Decision)
  BY <1>1 DEF SendPfc, IsPaused, Decision
<1>3. IsPaused \in BOOLEAN /\ hdrm_bytes[Watched][1] \in Nat /\ Watched \in Port
  BY LinkFields, LinkNumbers DEF LinkInv
<1>4. /\ hdrm_bytes'[Watched][1] \in Nat
      /\ hdrm_bytes'[Watched][1] <= hdrm_bytes[Watched][1]
      /\ IsPaused' \in BOOLEAN /\ (IsPaused' => IsPaused)
  <2>1. CASE i = Watched
    BY <1>1, <2>1, DequeueSees DEF IsPaused
  <2>2. CASE i # Watched
    BY <1>1, <1>3, <2>2, DequeueSees DEF IsPaused
  <2>3. QED
    BY <2>1, <2>2
<1>5. QED
  BY <1>1, <1>2, <1>4, ReliefKeeps

(* A packet that arrives is admitted.                                      *)
LEMMA ArrivalFits ==
  ASSUME NEW mtu \in Nat, LongLink(mtu), IInv, LinkInv(mtu),
         Len(wire) > 0, wire[1].in = 0
  PROVE  CheckIngressAdmission(Watched, 1, wire[1].size)
<1> DEFINE h == hdrm_bytes[Watched][1]
           s == wire[1].size
<1>1. /\ h \in Nat /\ s \in Nat /\ s > 0 /\ s <= mtu /\ Ends(mtu) \in Nat
      /\ Headroom[Watched] = 3 * Lag /\ Lag \in Nat /\ 3 * mtu + 2 * PfcSize <= Lag
      /\ PfcSize \in Nat
  <2>1. 1 \in 1..Len(wire)
    BY LinkFields DEF LinkInv
  <2>2. s \in SentSize
    BY <2>1, LinkFields DEF LinkInv
  <2>3. QED
    BY <2>2, LinkFields, LinkNumbers, Loads, MmuPktSize DEF LinkInv
<1>2. CASE IsPaused
  <2>1. h + Ends(mtu) + Part <= Headroom[Watched]
    BY <1>2 DEF LinkInv, RoomLeft
  <2>2. Part = s
    BY <1>1 DEF Part
  <2>3. s + h <= Headroom[Watched]
    BY <1>1, <2>1, <2>2
  <2>4. QED
    BY <2>3 DEF CheckIngressAdmission
<1>3. CASE ~IsPaused
  <2>1. h = 0
    BY <1>1, <1>3, LinkNumbers DEF IInv, HeadroomOnlyWhilePaused, IsPaused
  <2>2. s + h <= Headroom[Watched]
    BY <1>1, <2>1
  <2>3. QED
    BY <2>2 DEF CheckIngressAdmission
<1>4. QED
  BY <1>2, <1>3

(* A packet arrives.  When it makes the MMU decide to pause, the headroom  *)
(* is empty but for this packet; the frame waits for those queued before   *)
(* it, the upstream may have begun a packet until the frame is there.      *)
LEMMA ArriveKeeps ==
  ASSUME NEW mtu \in Nat, LongLink(mtu), IInv, LinkInv(mtu), IInv',
         NEW o \in Port, Arrive(o)
  PROVE  LinkInv(mtu)'
<1> DEFINE n == Len(wire)
           s == wire[1].size
           h == hdrm_bytes[Watched][1]
<1>1. /\ LinkOK(mtu) /\ InOrder /\ LastIsPause /\ FewFrames(mtu) /\ RoomLeft(mtu)
  BY DEF LinkInv
<1>2. /\ wire # <<>> /\ wire' = Tail(wire) /\ Head(wire).in = 0
      /\ UNCHANGED <<sending, stopped, answering, back>>
      /\ SendPfc(Head(wire).q)
  BY DEF Arrive
<1>3. /\ wire' \in Seq(Packets) /\ n \in Nat /\ n >= 1 /\ Head(wire) = wire[1]
      /\ Len(wire') = n - 1 /\ \A k \in 1..(n - 1) : wire'[k] = wire[k + 1]
      /\ n > 1 => Final(wire') = Final(wire)
  BY <1>1, <1>2, Popped DEF LinkOK
<1>4. \A k \in 1..n : /\ wire[k].in \in Nat /\ wire[k].q = 1
                      /\ wire[k].size \in SentSize /\ wire[k].size \in Nat
  BY <1>1, LinkFields
<1>5. /\ 1 \in 1..n /\ wire[1].in = 0 /\ wire[1].q = 1 /\ s \in PktSize /\ s \in Nat
      /\ 2 * PfcSize <= s /\ s <= mtu
  BY <1>2, <1>3, <1>4, LinkNumbers
<1>6. CheckIngressAdmission(Watched, 1, s)
  BY <1>3, <1>5, ArrivalFits
<1>7. Enqueue(Watched, o, 1, s)
  BY <1>3, <1>5, <1>6 DEF Arrive
<1>8. /\ hdrm_bytes'[Watched][1] \in Nat /\ hdrm_bytes'[Watched][1] <= h + s
      /\ IsPaused => IsPaused'
      /\ IsPaused \in BOOLEAN /\ IsPaused' \in BOOLEAN
  <2>1. 1 \in Queue /\ Watched \in Port /\ IsPaused \in BOOLEAN
    BY <1>1, LinkNumbers, LinkFields
  <2>2. QED
    BY <1>5, <1>7, <2>1, EnqueueSees DEF IsPaused
<1>9. frames' = IF IsPaused' = IsPaused THEN frames ELSE Append(frames, Decision)
  BY <1>2, <1>3, <1>5 DEF SendPfc, IsPaused, Decision
<1>10. /\ Len(frames) \in Nat /\ Load \in Nat /\ Queued \in Nat /\ h \in Nat
       /\ Ends(mtu) \in Nat /\ Part \in Nat /\ Lag \in Nat /\ PfcSize \in Nat
       /\ sending \in Nat /\ sending <= mtu /\ answering \in Nat
       /\ 3 * mtu + 2 * PfcSize <= Lag /\ Headroom[Watched] = 3 * Lag
       /\ Coming => Left \in Nat
  BY <1>1, LinkFields, LinkNumbers, Loads DEF LinkOK
<1>11. InOrder'
  <2>1. \A j, k \in 1..(n - 1) : j < k => wire'[j].in + wire'[k].size <= wire'[k].in
    <3>1. TAKE j, k \in 1..(n - 1)
    <3>2. j + 1 \in 1..n /\ k + 1 \in 1..n /\ (j < k => j + 1 < k + 1)
      BY <1>3
    <3>3. QED
      BY <1>1, <1>3, <3>2 DEF InOrder
  <2>2. \A k \in 1..(n - 1) : wire'[k].in <= sending + Lag
    <3>1. TAKE k \in 1..(n - 1)
    <3>2. k + 1 \in 1..n
      BY <1>3
    <3>3. QED
      BY <1>1, <1>3, <3>2 DEF InOrder
  <2>3. Lag' = Lag
    BY DEF Lag
  <2>4. QED
    BY <1>1, <1>2, <1>3, <2>1, <2>2, <2>3 DEF InOrder
<1>12. n > 1 => /\ wire'[1].in \in Nat /\ wire'[1].size \in Nat
                /\ 2 * PfcSize <= wire'[1].size /\ wire'[1].size <= wire'[1].in
  <2>1. SUFFICES ASSUME n > 1
                 PROVE  /\ wire[2].in \in Nat /\ wire[2].size \in Nat
                        /\ 2 * PfcSize <= wire[2].size /\ wire[2].size <= wire[2].in
    BY <1>3
  <2>2. 2 \in 1..n
    BY <1>3, <2>1
  <2>3. wire[1].in + wire[2].size <= wire[2].in
    BY <1>1, <1>5, <2>2 DEF InOrder
  <2>4. QED
    BY <1>4, <1>5, <2>2, <2>3, LinkNumbers
<1>13. Part = s /\ Part' = 0
  <2>1. Part = s
    BY <1>3, <1>5, <1>10, LinkNumbers, MmuPktSize DEF Part
  <2>2. Part' = 0
    BY <1>3, <1>12 DEF Part
  <2>3. QED
    BY <2>1, <2>2
<1>14. Queued <= mtu + PfcSize
  BY <1>1, <1>3, <1>5, <1>10 DEF FewFrames
<1>15. Lag' = Lag
  BY DEF Lag
<1>16. CASE IsPaused' = IsPaused
  <2>1. frames' = frames
    BY <1>9, <1>16
  <2>2. LinkOK(mtu)'
    BY <1>1, <1>2, <1>3, <2>1 DEF LinkOK
  <2>3. LastIsPause'
    BY <1>1, <1>2, <1>16, <2>1 DEF LastIsPause, Final
  <2>4. Load' = Load /\ Coming' = Coming
    BY <1>2, <2>1 DEF Load, Coming
  <2>5. Queued' = Queued /\ Left' = Left
    BY <1>2, <1>15, <1>16, <2>1, <2>4 DEF Queued, Left, Final
  <2>6. FewFrames(mtu)'
    BY <1>3, <1>10, <1>12, <1>14, <2>5 DEF FewFrames
  <2>7. Ends(mtu)' \in Nat /\ Ends(mtu)' <= Ends(mtu)
    <3>1. CASE Coming
      <4>1. Ends(mtu)' = Ends(mtu)
        BY <1>2, <1>15, <2>4, <2>5, <3>1 DEF Ends
      <4>2. QED
        BY <1>10, <4>1
    <3>2. CASE ~Coming /\ n > 1
      <4>1. Ends(mtu)' = Ends(mtu)
        BY <1>3, <2>4, <3>2 DEF Ends
      <4>2. QED
        BY <1>10, <4>1
    <3>3. CASE ~Coming /\ n = 1
      <4>1. Ends(mtu)' = 0
        BY <1>3, <2>4, <3>3 DEF Ends
      <4>2. QED
        BY <1>10, <4>1
    <3>4. QED
      BY <1>3, <3>1, <3>2, <3>3
  <2>8. RoomLeft(mtu)'
    <3>1. IsPaused => h + Ends(mtu) + Part <= Headroom[Watched]
      BY <1>1 DEF RoomLeft
    <3>2. SUFFICES ASSUME IsPaused
                   PROVE  hdrm_bytes'[Watched][1] + Ends(mtu)' + Part' <= Headroom[Watched]
      BY <1>16 DEF RoomLeft
    <3>3. h + Ends(mtu) + s <= 3 * Lag
      BY <1>10, <1>13, <3>1, <3>2
    <3> HIDE DEF h, s
    <3>4. hdrm_bytes'[Watched][1] + Ends(mtu)' + 0 <= 3 * Lag
      BY <1>5, <1>8, <1>10, <2>7, <3>3
    <3>5. QED
      BY <1>10, <1>13, <3>4
  <2>9. QED
    BY <1>11, <2>2, <2>3, <2>6, <2>8 DEF LinkInv
<1>17. CASE IsPaused' # IsPaused
  <2>1. ~IsPaused /\ IsPaused'
    BY <1>8, <1>17
  <2>2. frames' = Append(frames, Decision) /\ Decision \in Decisions /\ Decision.pause
    BY <1>8, <1>9, <1>17, <2>1, LinkNumbers DEF Decision, Decisions
  <2>3. /\ frames' \in Seq(Decisions) /\ Len(frames') = Len(frames) + 1
        /\ Final(frames') = Decision
    BY <1>1, <2>2, Appended DEF LinkOK
  <2>4. LinkOK(mtu)'
    BY <1>1, <1>2, <1>3, <2>3 DEF LinkOK
  <2>5. LastIsPause'
    BY <1>10, <2>2, <2>3 DEF LastIsPause
  <2>6. Load' = Load + PfcSize
    BY <1>10, <2>3, Loads DEF Load
  <2>7. Queued = Load + answering /\ Queued' = Load + answering + 2 * PfcSize
    BY <1>2, <1>10, <2>1, <2>6 DEF Queued
  <2>8. FewFrames(mtu)'
    BY <1>3, <1>10, <1>12, <1>14, <2>7 DEF FewFrames
  <2>9. h = 0
    BY <1>10, <2>1, LinkNumbers DEF IInv, HeadroomOnlyWhilePaused, IsPaused
  <2>10. Coming' /\ Left' = answering + Load + PfcSize + Lag
    <3>1. Len(frames') > 0
      BY <1>10, <2>3
    <3>2. Left' = answering + (Load + PfcSize) + Lag
      BY <1>2, <1>15, <2>6, <3>1 DEF Left
    <3>3. QED
      BY <1>10, <3>1, <3>2 DEF Coming
  <2>11. Left' \in Nat /\ Left' <= mtu + 2 * PfcSize + Lag
    BY <1>10, <1>14, <2>7, <2>10
  <2>12. Ends(mtu)' \in Nat /\ Ends(mtu)' <= 2 * mtu + 2 * PfcSize + 2 * Lag
    <3>1. Ends(mtu)' = IF sending > Left' THEN sending + Lag ELSE Left' + mtu + Lag
      BY <1>2, <1>15, <2>10 DEF Ends
    <3>2. /\ sending \in Nat /\ sending <= mtu /\ Lag \in Nat /\ PfcSize \in Nat
      BY <1>10
    <3>3. ASSUME NEW l \in Nat, l <= mtu + 2 * PfcSize + Lag
          PROVE  LET e == IF sending > l THEN sending + Lag ELSE l + mtu + Lag
                 IN  e \in Nat /\ e <= 2 * mtu + 2 * PfcSize + 2 * Lag
      BY <3>2, <3>3
    <3>4. QED
      BY <2>11, <3>1, <3>3
  <2>13. RoomLeft(mtu)'
    <3>1. hdrm_bytes'[Watched][1] \in Nat /\ hdrm_bytes'[Watched][1] <= mtu
      BY <1>5, <1>8, <2>9
    <3>2. Headroom[Watched] = 3 * Lag /\ Lag \in Nat /\ 3 * mtu + 2 * PfcSize <= Lag
      BY <1>10
    <3>3. ASSUME NEW x \in Nat, NEW e \in Nat, x <= mtu, e <= 2 * mtu + 2 * PfcSize + 2 * Lag
          PROVE  x + e + 0 <= 3 * Lag
      BY <1>10, <3>2, <3>3
    <3>4. hdrm_bytes'[Watched][1] + Ends(mtu)' + 0 <= 3 * Lag
      BY <2>12, <3>1, <3>3
    <3>5. QED
      BY <1>13, <3>2, <3>4 DEF RoomLeft
  <2>14. QED
    BY <1>11, <2>4, <2>5, <2>8, <2>13 DEF LinkInv
<1>18. QED
  BY <1>16, <1>17

LEMMA Remade ==
  ASSUME NEW S, NEW s, NEW n \in Nat, s \in [1..n -> S]
  PROVE  s \in Seq(S) /\ Len(s) = n
BY SeqDef

(* Time passes for what is on the wire, each way.                          *)
LEMMA TickWire ==
  ASSUME NEW mtu \in Nat, LongLink(mtu), IInv, LinkInv(mtu), Tick
  PROVE  /\ wire' \in Seq(Packets) /\ Len(wire') = Len(wire)
         /\ \A k \in 1..Len(wire) : /\ wire[k].in >= 1 /\ wire'[k].in = wire[k].in - 1
                                    /\ wire'[k].size = wire[k].size
<1> DEFINE n == Len(wire)
           next == [k \in DOMAIN wire |-> [wire[k] EXCEPT !.in = @ - 1]]
<1>1. wire' = next /\ ~(wire # <<>> /\ Head(wire).in = 0)
  BY DEF Tick
<1>2. wire \in Seq(Packets) /\ n \in Nat /\ DOMAIN wire = 1..n
  BY LenProperties DEF LinkInv, LinkOK
<1>3. \A k \in 1..n : wire[k] \in Packets /\ wire[k].in \in Nat /\ wire[k].size \in Nat
  BY LinkFields DEF LinkInv
<1>4. n > 0 => wire[1].in # 0
  BY <1>1, <1>2, EmptySeq
<1>5. \A k \in 1..n : wire[k].in >= 1
  <2>1. TAKE k \in 1..n
  <2>2. CASE k = 1
    BY <1>2, <1>3, <1>4, <2>2
  <2>3. CASE k # 1
    <3>1. 1 \in 1..n /\ 1 < k
      BY <1>2, <2>3
    <3>2. wire[1].in + wire[k].size <= wire[k].in
      BY <3>1 DEF LinkInv, InOrder
    <3>3. QED
      BY <1>2, <1>3, <1>4, <3>1, <3>2
  <2>4. QED
    BY <2>2, <2>3
<1>6. \A k \in 1..n : /\ next[k] \in Packets /\ next[k].in = wire[k].in - 1
                      /\ next[k].size = wire[k].size
  <2>1. TAKE k \in 1..n
  <2>2. next[k] = [wire[k] EXCEPT !.in = @ - 1]
    BY <1>2
  <2>3. wire[k].in - 1 \in Nat
    BY <1>3, <1>5
  <2>4. QED
    BY <1>3, <2>2, <2>3 DEF Packets
<1>7. next \in [1..n -> Packets]
  BY <1>2, <1>6
<1> HIDE DEF next
<1>8. next \in Seq(Packets) /\ Len(next) = n
  BY <1>2, <1>7, Remade
<1>9. QED
  BY <1>1, <1>5, <1>6, <1>8

LEMMA TickBack ==
  ASSUME NEW mtu \in Nat, LongLink(mtu), IInv, LinkInv(mtu), Tick
  PROVE  /\ back' \in Seq(Flying) /\ Len(back') = Len(back)
         /\ \A k \in 1..Len(back) : /\ back[k].in >= 1 /\ back'[k].in = back[k].in - 1
                                    /\ back'[k].pause = back[k].pause
<1> DEFINE n == Len(back)
           next == [k \in DOMAIN back |-> [back[k] EXCEPT !.in = @ - 1]]
<1>1. back' = next /\ ~(back # <<>> /\ Head(back).in = 0)
  BY DEF Tick
<1>2. back \in Seq(Flying) /\ n \in Nat /\ DOMAIN back = 1..n
  BY LenProperties DEF LinkInv, LinkOK
<1>3. \A k \in 1..n : back[k] \in Flying /\ back[k].in \in Nat
  BY LinkFields DEF LinkInv
<1>4. n > 0 => back[1].in # 0
  BY <1>1, <1>2, EmptySeq
<1>5. \A k \in 1..n : back[k].in >= 1
  <2>1. TAKE k \in 1..n
  <2>2. CASE k = 1
    BY <1>2, <1>3, <1>4, <2>2
  <2>3. CASE k # 1
    <3>1. 1 \in 1..n /\ 1 < k
      BY <1>2, <2>3
    <3>2. back[1].in <= back[k].in
      BY <3>1 DEF LinkInv, InOrder
    <3>3. QED
      BY <1>2, <1>3, <1>4, <3>1, <3>2
  <2>4. QED
    BY <2>2, <2>3
<1>6. \A k \in 1..n : /\ next[k] \in Flying /\ next[k].in = back[k].in - 1
                      /\ next[k].pause = back[k].pause
  <2>1. TAKE k \in 1..n
  <2>2. next[k] = [back[k] EXCEPT !.in = @ - 1]
    BY <1>2
  <2>3. back[k].in - 1 \in Nat
    BY <1>3, <1>5
  <2>4. QED
    BY <1>3, <2>2, <2>3 DEF Flying
<1>7. next \in [1..n -> Flying]
  BY <1>2, <1>6
<1> HIDE DEF next
<1>8. next \in Seq(Flying) /\ Len(next) = n
  BY <1>2, <1>7, Remade
<1>9. QED
  BY <1>1, <1>5, <1>6, <1>8

(* Time passes: what has been received of the next packet grows by no more *)
(* than what can still come shrinks.                                       *)
LEMMA TickKeeps ==
  ASSUME NEW mtu \in Nat, LongLink(mtu), IInv, LinkInv(mtu), Tick
  PROVE  LinkInv(mtu)'
<1> DEFINE n == Len(wire)
           m == Len(back)
<1>1. /\ sending' = sending - Smaller(1, sending)
      /\ answering' = answering - Smaller(1, answering)
      /\ answering = 0 => frames = <<>>
      /\ UNCHANGED <<mmu_vars, stopped, frames>>
  BY DEF Tick
<1>2. /\ LinkOK(mtu) /\ InOrder /\ LastIsPause /\ FewFrames(mtu) /\ RoomLeft(mtu)
  BY DEF LinkInv
<1>3. /\ wire' \in Seq(Packets) /\ Len(wire') = n /\ n \in Nat
      /\ \A k \in 1..n : /\ wire[k].in \in Nat /\ wire[k].size \in Nat
                         /\ wire[k].in >= 1 /\ wire'[k].in = wire[k].in - 1
                         /\ wire'[k].size = wire[k].size
  BY <1>2, TickWire, LinkFields
<1>4. /\ back' \in Seq(Flying) /\ Len(back') = m /\ m \in Nat
      /\ \A k \in 1..m : /\ back[k].in \in Nat
                         /\ back[k].in >= 1 /\ back'[k].in = back[k].in - 1
                         /\ back'[k].pause = back[k].pause
  BY <1>2, TickBack, LinkFields
<1>5. /\ sending \in Nat /\ sending <= mtu /\ answering \in Nat
      /\ Len(frames) \in Nat /\ Load \in Nat /\ Lag \in Nat /\ PfcSize \in Nat
      /\ Part \in Nat /\ hdrm_bytes[Watched][1] \in Nat
      /\ Headroom[Watched] \in Nat
  <2>1. Lag \in Nat /\ Headroom[Watched] = 3 * Lag /\ PfcSize \in Nat
    BY LinkNumbers, Loads
  <2>2. sending \in Nat /\ sending <= mtu /\ answering \in Nat
    BY <1>2 DEF LinkOK
  <2>3. /\ Len(frames) \in Nat /\ Load \in Nat /\ Part \in Nat
        /\ hdrm_bytes[Watched][1] \in Nat
    BY <1>2, LinkFields
  <2>4. QED
    BY <2>1, <2>2, <2>3
<1>6. /\ sending' = IF sending > 0 THEN sending - 1 ELSE 0
      /\ answering' = IF answering > 0 THEN answering - 1 ELSE 0
      /\ Len(frames) > 0 => answering > 0
  <2>1. answering = 0 => Len(frames) = 0
    BY <1>1
  <2>2. QED
    BY <1>1, <1>5, <2>1 DEF Smaller
<1>7. LinkOK(mtu)'
  BY <1>1, <1>2, <1>3, <1>4, <1>5, <1>6 DEF LinkOK
<1>8. /\ IsPaused' = IsPaused /\ Load' = Load /\ Lag' = Lag
      /\ hdrm_bytes' = hdrm_bytes /\ frames' = frames
  BY <1>1 DEF mmu_vars, IsPaused, Load, Lag
<1>9. InOrder'
  <2>1. \A j, k \in 1..n : j < k => wire'[j].in + wire'[k].size <= wire'[k].in
    <3>1. TAKE j, k \in 1..n
    <3>2. HAVE j < k
    <3>3. wire[j].in + wire[k].size <= wire[k].in
      BY <1>2, <3>2 DEF InOrder
    <3>4. /\ wire[j].in \in Nat /\ wire[k].in \in Nat /\ wire[k].size \in Nat
          /\ wire'[j].in = wire[j].in - 1 /\ wire'[k].in = wire[k].in - 1
          /\ wire'[k].size = wire[k].size
      BY <1>3
    <3>5. QED
      BY <3>3, <3>4
  <2>2. \A k \in 1..n : wire'[k].in <= sending' + Lag
    <3>1. TAKE k \in 1..n
    <3>2. wire[k].in <= sending + Lag
      BY <1>2 DEF InOrder
    <3>3. wire[k].in \in Nat /\ wire'[k].in = wire[k].in - 1 /\ wire[k].in >= 1
      BY <1>3
    <3>4. sending \in Nat /\ Lag \in Nat
      BY <1>5
    <3>5. QED
      BY <1>6, <3>2, <3>3, <3>4
  <2>3. \A j, k \in 1..m : j < k => back'[j].in <= back'[k].in
    BY <1>2, <1>4 DEF InOrder
  <2>4. \A k \in 1..m : back'[k].in <= answering' + Lag
    <3>1. TAKE k \in 1..m
    <3>2. back[k].in <= answering + Lag
      BY <1>2 DEF InOrder
    <3>3. back[k].in \in Nat /\ back'[k].in = back[k].in - 1 /\ back[k].in >= 1
      BY <1>4
    <3>4. answering \in Nat /\ Lag \in Nat
      BY <1>5
    <3>5. QED
      BY <1>6, <3>2, <3>3, <3>4
  <2>5. QED
    BY <1>3, <1>4, <1>8, <2>1, <2>2, <2>3, <2>4 DEF InOrder
<1>10. LastIsPause'
  <2>1. m > 0 => Final(back').pause = Final(back).pause
    BY <1>4 DEF Final
  <2>2. QED
    BY <1>1, <1>2, <1>4, <1>8, <2>1 DEF LastIsPause, Final
<1>11. FewFrames(mtu)'
  <2>1. Queued' = IF answering > 0 THEN Queued - 1 ELSE Queued
    BY <1>5, <1>6, <1>8 DEF Queued
  <2>2. Queued \in Nat /\ (answering > 0 => Queued >= 1)
    BY <1>5 DEF Queued
  <2>3. answering = 0 => Queued <= PfcSize
    <3>1. answering = 0 => Load = 0
      BY <1>1, <1>2, LinkFields
    <3>2. QED
      BY <1>5, <3>1 DEF Queued
  <2>4. Queued <= mtu + 3 * PfcSize /\ (n > 0 => Queued <= mtu + PfcSize + wire[1].in)
    BY <1>2 DEF FewFrames
  <2>5. n > 0 => wire[1].in \in Nat /\ wire[1].in >= 1 /\ wire'[1].in = wire[1].in - 1
    BY <1>3
  <2>6. CASE answering > 0
    <3>1. Queued' = Queued - 1
      BY <2>1, <2>6
    <3>2. PfcSize \in Nat /\ Queued' \in Nat /\ Queued' <= mtu + 3 * PfcSize
      BY <1>5, <2>2, <2>4, <2>6, <3>1
    <3>3. n > 0 => Queued' <= mtu + PfcSize + wire'[1].in
      BY <2>2, <2>4, <2>5, <3>1, <3>2
    <3>4. QED
      BY <1>3, <3>2, <3>3 DEF FewFrames
  <2>7. CASE answering = 0
    <3>1. Queued' = Queued
      BY <2>1, <2>7
    <3>2. QED
      BY <1>3, <1>5, <2>2, <2>3, <2>5, <2>7, <3>1 DEF FewFrames
  <2>8. QED
    BY <1>5, <2>6, <2>7
<1>12. RoomLeft(mtu)'
  <2>1. Coming' = Coming
    BY <1>4, <1>8 DEF Coming
  <2>2. Coming => Left \in Nat /\ Left >= 1 /\ Left' = Left - 1
    <3>1. CASE Len(frames) > 0
      BY <1>5, <1>6, <1>8, <3>1 DEF Left
    <3>2. CASE Len(frames) = 0 /\ m > 0
      BY <1>4, <1>8, <3>2 DEF Left, Final
    <3>3. QED
      BY <1>4, <1>5, <3>1, <3>2 DEF Coming
  <2>3. Ends(mtu) \in Nat
    BY <1>2, LinkFields
  <2>4. Coming \/ n > 0 => Ends(mtu) >= 1 /\ Ends(mtu)' = Ends(mtu) - 1
    <3>1. CASE Coming
      <4>1. /\ Ends(mtu) = IF sending > Left THEN sending + Lag ELSE Left + mtu + Lag
            /\ Ends(mtu)' = IF sending' > Left' THEN sending' + Lag ELSE Left' + mtu + Lag
        BY <1>8, <2>1, <3>1 DEF Ends
      <4>2. CASE sending > Left
        <5>1. sending' = sending - 1 /\ sending' > Left'
          BY <1>5, <1>6, <2>2, <3>1, <4>2
        <5>2. QED
          BY <1>5, <2>2, <3>1, <4>1, <4>2, <5>1
      <4>3. CASE ~(sending > Left)
        <5>1. ~(sending' > Left')
          BY <1>5, <1>6, <2>2, <3>1, <4>3
        <5>2. QED
          BY <1>5, <2>2, <3>1, <4>1, <4>3, <5>1
      <4>4. QED
        BY <4>2, <4>3
    <3>2. CASE ~Coming /\ n > 0
      BY <1>3, <2>1, <3>2 DEF Ends, Final
    <3>3. QED
      BY <3>1, <3>2
  <2>5. /\ n > 0 => Part' \in Nat /\ Part' <= Part + 1
        /\ n = 0 => Part' = 0 /\ Part = 0
    BY <1>3 DEF Part
  <2>6. CASE Coming \/ n > 0
    <3>1. SUFFICES ASSUME IsPaused
                   PROVE  hdrm_bytes[Watched][1] + Ends(mtu)' + Part' <= Headroom[Watched]
      BY <1>8 DEF RoomLeft
    <3>2. hdrm_bytes[Watched][1] + Ends(mtu) + Part <= Headroom[Watched]
      BY <1>2, <3>1 DEF RoomLeft
    <3>3. Part' \in Nat /\ Part' <= Part + 1
      BY <1>3, <1>5, <2>5
    <3>4. Ends(mtu)' = Ends(mtu) - 1 /\ Ends(mtu) >= 1
      BY <2>4, <2>6
    <3>5. QED
      BY <1>5, <2>3, <3>2, <3>3, <3>4
  <2>7. CASE ~Coming /\ n = 0
    <3>1. Ends(mtu)' = 0 /\ Ends(mtu) = 0
      BY <1>3, <2>1, <2>7 DEF Ends
    <3>2. QED
      BY <1>2, <1>8, <2>5, <2>7, <3>1 DEF RoomLeft
  <2>8. QED
    BY <1>3, <2>6, <2>7
<1>13. QED
  BY <1>7, <1>9, <1>10, <1>11, <1>12 DEF LinkInv

LEMMA PfcInitLink ==
  ASSUME NEW mtu \in Nat, LongLink(mtu), PfcInit
  PROVE  IInv /\ LinkInv(mtu)
<1>1. /\ Init /\ sending = 0 /\ stopped = {} /\ wire = <<>>
      /\ answering = 0 /\ frames = <<>> /\ back = <<>>
  BY DEF PfcInit
<1>2. /\ wire \in Seq(Packets) /\ Len(wire) = 0 /\ frames \in Seq(Decisions)
      /\ Len(frames) = 0 /\ back \in Seq(Flying) /\ Len(back) = 0
  BY <1>1, EmptySeq
<1>3. LinkOK(mtu)
  BY <1>1, <1>2 DEF LinkOK
<1>4. ~IsPaused
  BY <1>1, LinkNumbers DEF Init, IsPaused
<1>5. Queued = 0
  <2>1. Load = 0
    BY <1>2, Loads DEF Load
  <2>2. QED
    BY <1>1, <1>4, <2>1 DEF Queued
<1>6. InOrder /\ LastIsPause /\ RoomLeft(mtu)
  BY <1>2, <1>4 DEF InOrder, LastIsPause, RoomLeft
<1>7. FewFrames(mtu)
  <2>1. mtu + 3 * PfcSize \in Nat
    BY Loads
  <2>2. QED
    BY <1>2, <1>5, <2>1 DEF FewFrames
<1>8. QED
  BY <1>1, <1>3, <1>6, <1>7, InitIInv DEF LinkInv

(* Every step of the link is one of the MMU, or leaves the MMU alone.      *)
WireTyped == wire \in Seq([q : Queue, size : SentSize, in : Int])

LEMMA PfcNextMmu ==
  ASSUME WireTyped, [PfcNext]_pfc_vars
  PROVE  WireTyped' /\ [Next]_mmu_vars
<1> DEFINE P == [q : Queue, size : SentSize, in : Int]
<1>1. /\ SentSize \subseteq PktSize /\ Watched \in Port
      /\ LinkDelay[Watched] \in Nat /\ PktSize \subseteq Nat
  BY HeadroomLink, MmuPktSize
<1>2. CASE \E o \in Port \ {Watched} : Arrive(o)
  <2>1. PICK o \in Port : Arrive(o)
    BY <1>2
  <2>2. /\ wire # <<>> /\ wire' = Tail(wire)
        /\ \/ Enqueue(Watched, o, Head(wire).q, Head(wire).size)
           \/ UNCHANGED mmu_vars
    BY <2>1 DEF Arrive, Drop
  <2>3. Head(wire) \in P /\ WireTyped'
    BY <2>2, HeadTailProperties DEF WireTyped
  <2>4. Head(wire).q \in Queue /\ Head(wire).size \in PktSize
    BY <1>1, <2>3
  <2>5. QED
    BY <1>1, <2>2, <2>3, <2>4 DEF Next
<1>3. CASE \E i \in Port, q \in Queue, s \in PktSize : \E o \in Port \ {i} :
             ArriveElsewhere(i, o, q, s) \/ Leave(i, o, q, s)
  BY <1>3 DEF ArriveElsewhere, Leave, Next, WireTyped, link_vars
<1>4. CASE \E q \in Queue, s \in SentSize : Transmit(q, s)
  <2>1. PICK q \in Queue, s \in SentSize : Transmit(q, s)
    BY <1>4
  <2>2. [q |-> q, size |-> s, in |-> s + LinkDelay[Watched]] \in P
    BY <1>1
  <2>3. WireTyped'
    BY <2>1, <2>2, AppendProperties DEF Transmit, WireTyped
  <2>4. QED
    BY <2>1, <2>3 DEF Transmit
<1>5. CASE ReceivePfc \/ TransmitPfc \/ (\E s \in PktSize : TransmitOther(s)) \/ UNCHANGED pfc_vars
  BY <1>5 DEF ReceivePfc, TransmitPfc, TransmitOther, WireTyped, pfc_vars, mmu_vars, link_vars
<1>6. CASE Tick
  <2>1. wire' = [k \in DOMAIN wire |-> [wire[k] EXCEPT !.in = @ - 1]] /\ UNCHANGED mmu_vars
    BY <1>6 DEF Tick
  <2>2. /\ Len(wire) \in Nat /\ DOMAIN wire = 1..Len(wire)
        /\ \A k \in 1..Len(wire) : wire[k] \in P
    BY LenProperties, ElementOfSeq DEF WireTyped
  <2>3. \A k \in 1..Len(wire) : [wire[k] EXCEPT !.in = @ - 1] \in P
    BY <2>2
  <2>4. wire' \in [1..Len(wire) -> P]
    BY <2>1, <2>2, <2>3
  <2>5. WireTyped'
    BY <2>2, <2>4, SeqDef DEF WireTyped
  <2>6. QED
    BY <2>1, <2>5
<1>7. QED
  BY <1>2, <1>3, <1>4, <1>5, <1>6 DEF PfcNext

(* The MMU behind a link that takes time is the MMU: what is proved of     *)
(* Spec for packets that come and go in any order holds for packets and    *)
(* PFC frames that meet on the wires (switch-node.cc:151-181, 240-262).    *)
THEOREM LinkIsMmu == PfcSpec => Spec
<1>1. PfcInit => Init /\ WireTyped
  <2>1. <<>> \in Seq([q : Queue, size : SentSize, in : Int])
    OBVIOUS
  <2>2. QED
    BY <2>1 DEF PfcInit, WireTyped
<1>2. WireTyped /\ [PfcNext]_pfc_vars => WireTyped' /\ [Next]_mmu_vars
  BY PfcNextMmu
<1>3. QED
  BY <1>1, <1>2, PTL DEF PfcSpec, Spec

LEMMA PfcNextKeeps ==
  ASSUME NEW mtu \in Nat, LongLink(mtu), IInv, LinkInv(mtu), [PfcNext]_pfc_vars
  PROVE  IInv' /\ LinkInv(mtu)'
<1>1. CASE UNCHANGED pfc_vars
  <2>1. UNCHANGED mmu_vars /\ UNCHANGED link_vars
    BY <1>1 DEF pfc_vars
  <2>2. IInv'
    BY <2>1, NextIInv
  <2>3. hdrm_bytes' = hdrm_bytes /\ IsPaused' = IsPaused
    BY <2>1 DEF mmu_vars, IsPaused
  <2>4. hdrm_bytes[Watched][1] \in Nat /\ IsPaused \in BOOLEAN
    BY LinkFields DEF LinkInv
  <2>5. LinkInv(mtu)'
    BY <2>1, <2>3, <2>4, ReliefKeeps DEF link_vars
  <2>6. QED
    BY <2>2, <2>5
<1>2. CASE PfcNext
  <2>1. IInv'
    <3>1. Packets \subseteq [q : Queue, size : SentSize, in : Int]
      BY DEF Packets
    <3>2. WireTyped
      <4>1. wire \in Seq(Packets)
        BY DEF LinkInv, LinkOK
      <4>2. QED
        BY <3>1, <4>1, SeqMonotonic DEF WireTyped
    <3>3. QED
      BY <1>2, <3>2, PfcNextMmu, NextIInv
  <2>2. CASE \E q \in Queue, s \in SentSize : Transmit(q, s)
    BY <2>1, <2>2, TransmitKeeps
  <2>3. CASE ReceivePfc
    BY <2>1, <2>3, ReceivePfcKeeps
  <2>4. CASE \E o \in Port \ {Watched} : Arrive(o)
    BY <2>1, <2>4, ArriveKeeps
  <2>5. CASE \E i \in Port, q \in Queue, s \in PktSize : \E o \in Port \ {i} :
               ArriveElsewhere(i, o, q, s)
    BY <2>1, <2>5, ArriveElsewhereKeeps
  <2>6. CASE \E i \in Port, q \in Queue, s \in PktSize : \E o \in Port \ {i} :
               Leave(i, o, q, s)
    BY <2>1, <2>6, LeaveKeeps
  <2>7. CASE TransmitPfc
    BY <2>1, <2>7, TransmitPfcKeeps
  <2>8. CASE \E s \in PktSize : TransmitOther(s)
    BY <2>1, <2>8, TransmitOtherKeeps
  <2>9. CASE Tick
    BY <2>1, <2>9, TickKeeps
  <2>10. LinkInv(mtu)'
    BY <1>2, <2>2, <2>3, <2>4, <2>5, <2>6, <2>7, <2>8, <2>9 DEF PfcNext
  <2>11. QED
    BY <2>1, <2>10
<1>3. QED
  BY <1>1, <1>2

(* Three times what is on the way is headroom enough: on a link that holds *)
(* three packets of the largest size and two PFC frames, whatever the      *)
(* other ports, the pool and its shares, every packet of an upstream that  *)
(* obeys PFC, and sends none shorter than two PFC frames, is admitted      *)
(* (third.cc:831, switch-node.cc:173).                                     *)
THEOREM HeadroomSuffices ==
  ASSUME NEW mtu \in Nat, LongLink(mtu)
  PROVE  PfcSpec => []Lossless
<1>1. PfcInit => IInv /\ LinkInv(mtu)
  BY PfcInitLink
<1>2. (IInv /\ LinkInv(mtu)) /\ [PfcNext]_pfc_vars => (IInv /\ LinkInv(mtu))'
  BY PfcNextKeeps
<1>3. IInv /\ LinkInv(mtu) => Lossless
  <2>1. SUFFICES ASSUME IInv, LinkInv(mtu), wire # <<>>, Head(wire).in = 0
                 PROVE  CheckIngressAdmission(Watched, Head(wire).q, Head(wire).size)
    BY DEF Lossless
  <2>2. Len(wire) \in Nat /\ Len(wire) >= 1 /\ Head(wire) = wire[1]
    BY <2>1, Popped DEF LinkInv, LinkOK
  <2>3. wire[1].q = 1
    BY <2>1, <2>2, LinkFields DEF LinkInv
  <2>4. QED
    BY <2>1, <2>2, <2>3, ArrivalFits
<1>4. QED
  BY <1>1, <1>2, <1>3, PTL DEF PfcSpec

=============================================================================
