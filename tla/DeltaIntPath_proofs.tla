------------------------- MODULE DeltaIntPath_proofs -------------------------
(***************************************************************************)
(* What DeltaIntPath keeps for any network, flows, paths, hash function,   *)
(* latencies, difference that is not sent, number of probes under way and  *)
(* number of losses.                                                       *)
(***************************************************************************)
EXTENDS DeltaIntPath, SequenceTheorems, TLAPS

(* Needed for what a switch remembers of a flow, one record whatever the   *)
(* hop.                                                                    *)
NoLoops ==
  \A f \in Flow : \A j, k \in Hop(f) : Path[f][j] = Path[f][k] => j = k

-----------------------------------------------------------------------------
(* The shape of the state.                                                 *)
Header == UNION {[D -> Nat] : D \in SUBSET Field}
Probe == [headers : Seq(Header), meant : Seq(Nat)]
Register == [flow : Flow \cup {NoFlow}, last : [Field -> Nat]]

Hops(probe) == Len(probe.headers)

Shape ==
  /\ index \in Hash /\ slow \subseteq Queues
  /\ dint_register \in [Switch -> [Slot -> Register]]
  /\ probes \in [Flow -> Seq(Probe)]
  /\ DOMAIN known = Flow
  /\ \A f \in Flow : DOMAIN known[f] = 0 .. (Len(Path[f]) - 1)
  /\ DOMAIN tor \subseteq Field \ {"iport"}
  /\ harmed \subseteq Flow
  /\ failed \in BOOLEAN /\ losses \in 0 .. MaxLoss

(* A flight is a sequence of probes of a flow.                             *)
Sound(f, flight) ==
  \A p \in DOMAIN flight :
    /\ Hops(flight[p]) <= Len(Path[f])
    /\ Len(flight[p].meant) = Hops(flight[p])
InOrder(flight) ==
  \A p, q \in DOMAIN flight : p < q => Hops(flight[q]) <= Hops(flight[p])

Flights ==
  \A f \in Flow :
    /\ Sound(f, probes[f]) /\ InOrder(probes[f])
    /\ \A p \in DOMAIN probes[f] : Hops(probes[f][p]) > 0

(* What is told of a hop is right but for the latency.                     *)
HeaderOf(probe, k) == probe.headers[Len(probe.headers) + 1 - k]
MeantOf(probe, k) == probe.meant[Len(probe.meant) + 1 - k]

OfHop(f, k, h) ==
  /\ "deviceno" \in DOMAIN h => h["deviceno"] = Path[f][k]
  /\ "iport" \in DOMAIN h => h["iport"] = PortBefore(f, k)
  /\ "eport" \in DOMAIN h => h["eport"] = PortAfter(f, k)

Right(f, flight) ==
  \A p \in DOMAIN flight : \A k \in 1 .. Hops(flight[p]) :
    OfHop(f, k, HeaderOf(flight[p], k))

OnRoute ==
  \A f \in Flow :
    /\ Right(f, probes[f])
    /\ \A k \in Hop(f) : OfHop(f, k, known[f][Len(Path[f]) - k])
    /\ OfHop(f, Len(Path[f]), tor)

RouteInv == Shape /\ Flights /\ OnRoute

-----------------------------------------------------------------------------
(* Why a field left out can be filled in, for a flow that lost none.       *)
RegisterOf(f, k) == dint_register[Path[f][k]][index[f]]
Memory(f, k) == Known(f, Len(Path[f]) - k)

(* What hop k says of x has been seen by a receiver that has seen D before *)
(* and takes in the first p probes of flight.                              *)
Carries(probe, k, x) == k <= Hops(probe) /\ x \in DOMAIN HeaderOf(probe, k)
Seen(D, k, x, flight, p) == x \in D \/ \E q \in 1 .. p : Carries(flight[q], k, x)

Supplied(f, flight) ==
  \A k \in Hop(f), x \in Field :
    /\ \A p \in DOMAIN flight :
         k <= Hops(flight[p]) => Seen(DOMAIN Memory(f, k), k, x, flight, p)
    /\ RegisterOf(f, k).flow = f => Seen(DOMAIN Memory(f, k), k, x, flight, Len(flight))

(* The latency of hop k is v for a receiver that has map on the hop and    *)
(* takes in the first p probes of flight.                                  *)
Holds(map, k, flight, p, v) ==
  IF p = 0 THEN "timedelta" \in DOMAIN map /\ map["timedelta"] = v * Scale
  ELSE MeantOf(flight[p], k) = v

(* Probe p is the last one past hop k.                                     *)
IsLast(flight, k, p) ==
  /\ p # 0 => k <= Hops(flight[p])
  /\ p # Len(flight) => Hops(flight[p + 1]) < k

(* A header has the latency its switch remembers, or all that is before it *)
(* has.                                                                    *)
Tells(map, k, flight, p) ==
  IF "timedelta" \in DOMAIN HeaderOf(flight[p], k)
  THEN HeaderOf(flight[p], k)["timedelta"] = MeantOf(flight[p], k)
  ELSE Holds(map, k, flight, p - 1, MeantOf(flight[p], k))

Told(f, flight) ==
  \A k \in 1 .. (Len(Path[f]) - 1) :
    LET map == known[f][Len(Path[f]) - k]
    IN  /\ \A p \in DOMAIN flight : k <= Hops(flight[p]) => Tells(map, k, flight, p)
        /\ RegisterOf(f, k).flow = f =>
             \A p \in 0 .. Len(flight) : IsLast(flight, k, p) =>
               Holds(map, k, flight, p, RegisterOf(f, k).last["timedelta"])

MemoryInv == \A f \in Flow \ harmed : Supplied(f, probes[f]) /\ Told(f, probes[f])

-----------------------------------------------------------------------------
(* Paths, places in the registers, and what a switch sends.                *)

LEMMA PathFacts ==
  ASSUME NEW f \in Flow
  PROVE  /\ Path[f] \in Seq(Switch) /\ Len(Path[f]) \in Nat \ {0}
         /\ Hop(f) = 1 .. Len(Path[f])
         /\ \A k \in Hop(f) : /\ Path[f][k] \in Switch
                              /\ PortBefore(f, k) \in Switch \cup {Host}
                              /\ PortAfter(f, k) \in Switch \cup {Host}
                              /\ Queue(f, k) \in Queues
         /\ Switch \cup {Host} \subseteq Nat
<1>1. Path[f] \in Seq(Switch) /\ Path[f] # <<>> /\ Switch \subseteq Nat
  BY IntPaths
<1>2. Len(Path[f]) \in Nat \ {0}
  BY <1>1, EmptySeq
<1>3. ASSUME NEW k \in Hop(f)
      PROVE  /\ Path[f][k] \in Switch
             /\ PortBefore(f, k) \in Switch \cup {Host}
             /\ PortAfter(f, k) \in Switch \cup {Host}
             /\ Queue(f, k) \in Queues
  <2>1. \A j \in 1 .. Len(Path[f]) : Path[f][j] \in Switch
    BY <1>1
  <2>2. k \in 1 .. Len(Path[f])
    BY DEF Hop
  <2>3. PortBefore(f, k) \in Switch \cup {Host}
    BY <2>1, <2>2, <1>2 DEF PortBefore
  <2>4. PortAfter(f, k) \in Switch \cup {Host}
    BY <2>1, <2>2, <1>2 DEF PortAfter
  <2>5. Queue(f, k) \in Queues
    BY DEF Queues
  <2>. QED BY <2>1, <2>2, <2>3, <2>4, <2>5
<1>4. Switch \cup {Host} \subseteq Nat
  BY <1>1 DEF Host
<1>. QED BY <1>1, <1>2, <1>3, <1>4 DEF Hop

LEMMA IndexInSlot ==
  ASSUME Shape, NEW f \in Flow
  PROVE  index[f] \in Slot
BY IntPaths DEF Shape, Slot

LEMMA MeasuredFacts ==
  ASSUME NEW f \in Flow, NEW k \in Hop(f), NEW d \in Nat
  PROVE  /\ Measured(f, k, d) \in [Field -> Nat]
         /\ Measured(f, k, d)["deviceno"] = Path[f][k]
         /\ Measured(f, k, d)["iport"] = PortBefore(f, k)
         /\ Measured(f, k, d)["eport"] = PortAfter(f, k)
         /\ Measured(f, k, d)["timedelta"] = d \div Scale
<1>1. /\ Path[f][k] \in Nat /\ PortBefore(f, k) \in Nat /\ PortAfter(f, k) \in Nat
  BY PathFacts
<1>2. d \div Scale \in Nat
  BY IntNumbers
<1>. QED BY <1>1, <1>2 DEF Measured, Field

(* A switch leaves out a field only if its register is the flow's and the  *)
(* field, but for the latency, is unchanged; it remembers what it sent.    *)
LEMMA OutputFacts ==
  ASSUME NEW f \in Flow, NEW s \in Switch, Shape, NEW cur \in [Field -> Nat]
  PROVE  LET r == dint_register[s][index[f]]
             out == Output(f, s, cur)
         IN  /\ Saved(f, s, cur) \subseteq Field
             /\ Saved(f, s, cur) # {} => r.flow = f
             /\ out \in [Field -> Nat]
             /\ \A x \in Field : x # "timedelta" => out[x] = cur[x]
             /\ "timedelta" \in Saved(f, s, cur) => out["timedelta"] = r.last["timedelta"]
             /\ "timedelta" \notin Saved(f, s, cur) => out["timedelta"] = cur["timedelta"]
<1>. DEFINE r == dint_register[s][index[f]]
<1>1. r \in Register
  BY IndexInSlot DEF Shape
<1>2. r.last \in [Field -> Nat]
  BY <1>1 DEF Register
<1>3. /\ Saved(f, s, cur) \subseteq Field
      /\ Saved(f, s, cur) # {} => r.flow = f
      /\ \A x \in Saved(f, s, cur) : x # "timedelta" => r.last[x] = cur[x]
  BY DEF Saved
<1>. QED BY <1>2, <1>3 DEF Output, Field

LEMMA Prepended ==
  ASSUME NEW S, NEW h \in S, NEW s \in Seq(S)
  PROVE  /\ <<h>> \o s \in Seq(S) /\ Len(<<h>> \o s) = Len(s) + 1
         /\ (<<h>> \o s)[1] = h
         /\ \A i \in 1 .. Len(s) : (<<h>> \o s)[i + 1] = s[i]
<1>1. <<h>> \in Seq(S) /\ Len(<<h>>) = 1 /\ <<h>>[1] = h
  OBVIOUS
<1>2. /\ <<h>> \o s \in Seq(S)
      /\ Len(<<h>> \o s) = 1 + Len(s)
      /\ \A i \in 1 .. (1 + Len(s)) :
           (<<h>> \o s)[i] = IF i <= 1 THEN <<h>>[i] ELSE s[i - 1]
  BY <1>1, ConcatProperties
<1>3. Len(s) \in Nat
  BY LenProperties
<1>. QED BY <1>1, <1>2, <1>3

LEMMA RemoveAtProperties ==
  ASSUME NEW S, NEW s \in Seq(S), NEW k \in DOMAIN s
  PROVE  /\ RemoveAt(s, k) \in Seq(S)
         /\ Len(RemoveAt(s, k)) = Len(s) - 1
         /\ \A i \in 1..(Len(s) - 1) :
              RemoveAt(s, k)[i] = IF i < k THEN s[i] ELSE s[i + 1]
<1>1. k \in 1..Len(s) /\ Len(s) \in Nat
  BY LenProperties
<1>2. /\ SubSeq(s, 1, k - 1) \in Seq(S) /\ Len(SubSeq(s, 1, k - 1)) = k - 1
      /\ \A i \in 1..(k - 1) : SubSeq(s, 1, k - 1)[i] = s[i]
  BY <1>1
<1>3. /\ SubSeq(s, k + 1, Len(s)) \in Seq(S) /\ Len(SubSeq(s, k + 1, Len(s))) = Len(s) - k
      /\ \A i \in 1..(Len(s) - k) : SubSeq(s, k + 1, Len(s))[i] = s[i + k]
  <2>1. \A i \in (k + 1)..Len(s) : s[i] \in S
    BY <1>1, ElementOfSeq
  <2>2. k + 1 \in Int /\ Len(s) \in Int
    BY <1>1
  <2>3. /\ SubSeq(s, k + 1, Len(s)) \in Seq(S)
        /\ Len(SubSeq(s, k + 1, Len(s))) = IF k + 1 <= Len(s) THEN Len(s) - (k + 1) + 1 ELSE 0
        /\ \A i \in 1..(Len(s) - (k + 1) + 1) :
             SubSeq(s, k + 1, Len(s))[i] = s[(k + 1) + i - 1]
    BY <2>1, <2>2, SubSeqProperties
  <2> QED BY <1>1, <2>3
<1> DEFINE front == SubSeq(s, 1, k - 1)
           back == SubSeq(s, k + 1, Len(s))
<1>4. /\ front \o back \in Seq(S)
      /\ Len(front \o back) = Len(front) + Len(back)
      /\ \A i \in 1..(Len(front) + Len(back)) :
           (front \o back)[i] = IF i <= Len(front) THEN front[i] ELSE back[i - Len(front)]
  BY <1>2, <1>3, ConcatProperties
<1>5. RemoveAt(s, k) = front \o back
  BY DEF RemoveAt
<1>6. Len(front) = k - 1 /\ Len(back) = Len(s) - k /\ Len(front) + Len(back) = Len(s) - 1
  <2>1. Len(front) = k - 1
    BY <1>2
  <2>2. Len(back) = Len(s) - k
    BY <1>3
  <2> HIDE DEF front, back
  <2> QED BY <1>1, <2>1, <2>2
<1>7. ASSUME NEW i \in 1..(Len(s) - 1)
      PROVE  (front \o back)[i] = IF i < k THEN s[i] ELSE s[i + 1]
  <2> HIDE DEF front, back
  <2>1. (front \o back)[i] = IF i <= k - 1 THEN front[i] ELSE back[i - (k - 1)]
    BY <1>4, <1>6
  <2>2. CASE i < k
    <3>1. i \in 1..(k - 1) /\ i <= k - 1
      BY <1>1, <2>2
    <3>2. front[i] = s[i]
      BY <1>2, <3>1 DEF front
    <3> QED BY <2>1, <2>2, <3>1, <3>2
  <2>3. CASE ~(i < k)
    <3>1. i - (k - 1) \in 1..(Len(s) - k) /\ ~(i <= k - 1) /\ (i - (k - 1)) + k = i + 1
      BY <1>1, <2>3
    <3>2. back[i - (k - 1)] = s[(i - (k - 1)) + k]
      BY <1>3, <3>1 DEF back
    <3> QED BY <2>1, <2>3, <3>1, <3>2
  <2> QED BY <2>2, <2>3
<1> HIDE DEF front, back
<1> QED BY <1>4, <1>5, <1>6, <1>7

-----------------------------------------------------------------------------
(* The state after probe p of flight, a flight of f, passed its next       *)
(* switch, which had cur to tell.                                          *)
Stepped(f, flight, p, cur) ==
  LET k == Hops(flight[p]) + 1
      s == Path[f][k]
      after == probes'[f]
  IN  /\ after \in Seq(Probe) /\ Len(after) = Len(flight)
      /\ \A q \in DOMAIN flight : q # p => after[q] = flight[q]
      /\ Hops(after[p]) = k /\ Len(after[p].meant) = k
      /\ \A j \in 1 .. Hops(flight[p]) :
           /\ HeaderOf(after[p], j) = HeaderOf(flight[p], j)
           /\ MeantOf(after[p], j) = MeantOf(flight[p], j)
      /\ DOMAIN HeaderOf(after[p], k) = Field \ Saved(f, s, cur)
      /\ \A x \in Field \ Saved(f, s, cur) : HeaderOf(after[p], k)[x] = cur[x]
      /\ MeantOf(after[p], k) = Output(f, s, cur)["timedelta"]
      /\ \A g \in Flow : g # f => probes'[g] = probes[g]
      /\ dint_register' = [dint_register EXCEPT ![s][index[f]] =
                             [flow |-> f, last |-> Output(f, s, cur)]]
      /\ probes' \in [Flow -> Seq(Probe)]
      /\ UNCHANGED <<index, slow, receiver, harmed, losses>>

LEMMA PassedProperties ==
  ASSUME NEW f \in Flow, NEW probe \in Probe, Shape,
         Len(probe.meant) = Hops(probe), Hops(probe) + 1 \in Hop(f),
         NEW cur \in [Field -> Nat]
  PROVE  LET k == Hops(probe) + 1
             s == Path[f][k]
             after == Passed(f, probe, cur)
         IN  /\ after \in Probe
             /\ Hops(after) = k /\ Len(after.meant) = k
             /\ \A j \in 1 .. Hops(probe) :
                  /\ HeaderOf(after, j) = HeaderOf(probe, j)
                  /\ MeantOf(after, j) = MeantOf(probe, j)
             /\ DOMAIN HeaderOf(after, k) = Field \ Saved(f, s, cur)
             /\ \A x \in Field \ Saved(f, s, cur) : HeaderOf(after, k)[x] = cur[x]
             /\ MeantOf(after, k) = Output(f, s, cur)["timedelta"]
<1>. DEFINE k == Hops(probe) + 1
            s == Path[f][k]
            h == Restrict(cur, Field \ Saved(f, s, cur))
            m == Output(f, s, cur)["timedelta"]
            after == Passed(f, probe, cur)
<1>1. /\ probe.headers \in Seq(Header) /\ probe.meant \in Seq(Nat)
      /\ Hops(probe) = Len(probe.headers) /\ Len(probe.headers) \in Nat
      /\ Len(probe.meant) = Len(probe.headers)
  BY LenProperties DEF Probe, Hops
<1>2. s \in Switch
  BY PathFacts
<1>3. m \in Nat
  BY <1>2, OutputFacts DEF Field
<1>4. /\ DOMAIN h = Field \ Saved(f, s, cur)
      /\ \A x \in Field \ Saved(f, s, cur) : h[x] = cur[x]
  BY DEF Restrict
<1>5. h \in Header
  <2>1. h \in [Field \ Saved(f, s, cur) -> Nat]
    BY DEF Restrict
  <2>2. Field \ Saved(f, s, cur) \in SUBSET Field
    OBVIOUS
  <2>. HIDE DEF h
  <2>. QED BY <2>1, <2>2 DEF Header
<1>6. after = [headers |-> <<h>> \o probe.headers, meant |-> <<m>> \o probe.meant]
  BY <1>1 DEF Passed
<1>. HIDE DEF h, m, after
<1>7. /\ <<h>> \o probe.headers \in Seq(Header)
      /\ Len(<<h>> \o probe.headers) = Len(probe.headers) + 1
      /\ (<<h>> \o probe.headers)[1] = h
      /\ \A i \in 1 .. Len(probe.headers) :
           (<<h>> \o probe.headers)[i + 1] = probe.headers[i]
  BY <1>1, <1>5, Prepended
<1>8. /\ <<m>> \o probe.meant \in Seq(Nat)
      /\ Len(<<m>> \o probe.meant) = Len(probe.meant) + 1
      /\ (<<m>> \o probe.meant)[1] = m
      /\ \A i \in 1 .. Len(probe.meant) : (<<m>> \o probe.meant)[i + 1] = probe.meant[i]
  BY <1>1, <1>3, Prepended
<1>9. /\ after.headers = <<h>> \o probe.headers /\ after.meant = <<m>> \o probe.meant
      /\ after \in Probe
  BY <1>6, <1>7, <1>8 DEF Probe
<1>10. Hops(after) = k /\ Len(after.meant) = k
  BY <1>1, <1>7, <1>8, <1>9 DEF Hops
<1>11. HeaderOf(after, k) = h /\ MeantOf(after, k) = m
  <2>1. Len(after.headers) = k /\ Len(after.meant) = k /\ k \in Nat
    BY <1>1, <1>10 DEF Hops
  <2>2. k + 1 - k = 1
    BY <2>1
  <2>. HIDE DEF k
  <2>. QED BY <1>7, <1>8, <1>9, <2>1, <2>2 DEF HeaderOf, MeantOf
<1>12. ASSUME NEW j \in 1 .. Hops(probe)
       PROVE  /\ HeaderOf(after, j) = HeaderOf(probe, j)
              /\ MeantOf(after, j) = MeantOf(probe, j)
  <2>. DEFINE i == Len(probe.headers) + 1 - j
  <2>1. i \in 1 .. Len(probe.headers) /\ Len(probe.headers) + 1 + 1 - j = i + 1
    BY <1>1
  <2>2. HeaderOf(after, j) = (<<h>> \o probe.headers)[i + 1]
    BY <1>7, <1>9, <2>1 DEF HeaderOf
  <2>3. MeantOf(after, j) = (<<m>> \o probe.meant)[i + 1]
    BY <1>1, <1>8, <1>9, <2>1 DEF MeantOf
  <2>4. HeaderOf(probe, j) = probe.headers[i] /\ MeantOf(probe, j) = probe.meant[i]
    BY <1>1 DEF HeaderOf, MeantOf
  <2>. QED BY <1>1, <1>7, <1>8, <2>1, <2>2, <2>3, <2>4
<1>. QED BY <1>4, <1>9, <1>10, <1>11, <1>12 DEF m, after

(* A step of Egress is one for some latency of the queue.                  *)
LEMMA EgressStep ==
  ASSUME NEW f \in Flow, NEW flight \in Seq(Probe), NEW p \in DOMAIN flight, Shape,
         Sound(f, flight), Hops(flight[p]) < Len(Path[f]), Egress(f, flight, p)
  PROVE  \E d \in Nat :
           /\ d \in Latency[Queue(f, Hops(flight[p]) + 1)] \cup {SlowLatency}
           /\ Stepped(f, flight, p, Measured(f, Hops(flight[p]) + 1, d))
<1>. DEFINE k == Hops(flight[p]) + 1
            s == Path[f][k]
<1>1. /\ flight[p] \in Probe /\ Hops(flight[p]) \in Nat
      /\ Hops(flight[p]) = Len(flight[p].headers)
      /\ Len(flight[p].meant) = Hops(flight[p])
  <2>1. p \in 1 .. Len(flight)
    BY LenProperties
  <2>2. flight[p] \in Probe
    BY <2>1, ElementOfSeq
  <2>3. flight[p].headers \in Seq(Header)
    BY <2>2 DEF Probe
  <2>. QED BY <2>2, <2>3, LenProperties DEF Hops, Sound
<1>2. k \in Hop(f) /\ Queue(f, k) \in Queues
  BY <1>1, PathFacts
<1>3. PICK d \in IF Queue(f, k) \in slow THEN {SlowLatency} ELSE Latency[Queue(f, k)] :
        /\ probes' = [probes EXCEPT ![f] =
             [flight EXCEPT ![p] = Passed(f, flight[p], Measured(f, k, d))]]
        /\ dint_register' = [dint_register EXCEPT ![s][index[f]] =
             [flow |-> f, last |-> Output(f, s, Measured(f, k, d))]]
        /\ UNCHANGED <<index, slow, receiver, harmed, losses>>
  BY <1>1 DEF Egress
<1>4. d \in Nat /\ d \in Latency[Queue(f, k)] \cup {SlowLatency}
  BY <1>2, Latencies, IntNumbers
<1>. DEFINE cur == Measured(f, k, d)
            after == Passed(f, flight[p], cur)
<1>5. cur \in [Field -> Nat]
  BY <1>2, <1>4, MeasuredFacts
<1>. HIDE DEF cur
<1>6. /\ after \in Probe
      /\ Hops(after) = k /\ Len(after.meant) = k
      /\ \A j \in 1 .. Hops(flight[p]) :
           /\ HeaderOf(after, j) = HeaderOf(flight[p], j)
           /\ MeantOf(after, j) = MeantOf(flight[p], j)
      /\ DOMAIN HeaderOf(after, k) = Field \ Saved(f, s, cur)
      /\ \A x \in Field \ Saved(f, s, cur) : HeaderOf(after, k)[x] = cur[x]
      /\ MeantOf(after, k) = Output(f, s, cur)["timedelta"]
  BY <1>1, <1>2, <1>5, PassedProperties
<1>. HIDE DEF after
<1>7. /\ probes'[f] = [flight EXCEPT ![p] = after]
      /\ \A g \in Flow : g # f => probes'[g] = probes[g]
      /\ DOMAIN probes' = Flow /\ probes' = [probes EXCEPT ![f] = [flight EXCEPT ![p] = after]]
  BY <1>3 DEF Shape, after, cur
<1>8. /\ probes'[f] \in Seq(Probe) /\ Len(probes'[f]) = Len(flight)
      /\ probes'[f][p] = after
      /\ \A q \in DOMAIN flight : q # p => probes'[f][q] = flight[q]
  <2>1. p \in 1 .. Len(flight)
    BY LenProperties
  <2>. QED BY <1>6, <1>7, <2>1, ExceptSeq
<1>9. probes' \in [Flow -> Seq(Probe)]
  BY <1>7, <1>8 DEF Shape
<1>10. Stepped(f, flight, p, cur)
  BY <1>3, <1>6, <1>7, <1>8, <1>9 DEF Stepped, cur
<1>. QED BY <1>4, <1>10 DEF cur

-----------------------------------------------------------------------------
(* The invariant of the routes.                                            *)

(* In flight, the probes of f and maybe one that is being sent, probe p    *)
(* may pass the next switch.                                               *)
Ready(f, flight, p) ==
  /\ flight \in Seq(Probe) /\ p \in 1 .. Len(flight)
  /\ Sound(f, flight) /\ InOrder(flight) /\ Right(f, flight)
  /\ Hops(flight[p]) < Len(Path[f])
  /\ \A q \in 1 .. (p - 1) : Hops(flight[q]) > Hops(flight[p])
  /\ \A q \in 1 .. Len(flight) : q # p => Hops(flight[q]) > 0

LEMMA FlightFacts ==
  ASSUME NEW flight \in Seq(Probe)
  PROVE  /\ Len(flight) \in Nat /\ DOMAIN flight = 1 .. Len(flight)
         /\ \A p \in DOMAIN flight : flight[p] \in Probe /\ Hops(flight[p]) \in Nat
<1>1. /\ Len(flight) \in Nat /\ DOMAIN flight = 1 .. Len(flight)
  BY LenProperties
<1>2. ASSUME NEW p \in DOMAIN flight
      PROVE  flight[p] \in Probe /\ Hops(flight[p]) \in Nat
  <2>1. flight[p] \in Probe
    BY <1>1, ElementOfSeq
  <2>2. flight[p].headers \in Seq(Header)
    BY <2>1 DEF Probe
  <2>. QED BY <2>1, <2>2, LenProperties DEF Hops
<1>. QED BY <1>1, <1>2

LEMMA PassReady ==
  ASSUME RouteInv, NEW f \in Flow, NEW p \in DOMAIN probes[f], PassSwitch(f, p)
  PROVE  Ready(f, probes[f], p) /\ Egress(f, probes[f], p)
<1>1. probes[f] \in Seq(Probe)
  BY DEF RouteInv, Shape
<1>. QED BY <1>1, FlightFacts DEF RouteInv, Flights, OnRoute, PassSwitch, Ready, Hops

(* The flight with the probe that is being sent.                           *)
Blank == [headers |-> <<>>, meant |-> <<>>]
WithNew(f) == Append(probes[f], Blank)

LEMMA WithNewFacts ==
  ASSUME RouteInv, NEW f \in Flow
  PROVE  LET n == Len(probes[f])
         IN  /\ WithNew(f) \in Seq(Probe) /\ Len(WithNew(f)) = n + 1 /\ n \in Nat
             /\ DOMAIN WithNew(f) = 1 .. (n + 1) /\ DOMAIN probes[f] = 1 .. n
             /\ \A q \in 1 .. n : WithNew(f)[q] = probes[f][q]
             /\ Hops(WithNew(f)[n + 1]) = 0
             /\ Len(WithNew(f)[n + 1].meant) = 0
<1>1. /\ probes[f] \in Seq(Probe) /\ Len(probes[f]) \in Nat
      /\ DOMAIN probes[f] = 1 .. Len(probes[f])
  BY LenProperties DEF RouteInv, Shape
<1>2. Blank \in Probe /\ Hops(Blank) = 0 /\ Len(Blank.meant) = 0
  BY DEF Blank, Probe, Hops
<1>3. /\ WithNew(f) \in Seq(Probe) /\ Len(WithNew(f)) = Len(probes[f]) + 1
      /\ \A q \in 1 .. Len(probes[f]) : WithNew(f)[q] = probes[f][q]
      /\ WithNew(f)[Len(probes[f]) + 1] = Blank
  BY <1>1, <1>2, AppendProperties DEF WithNew
<1>4. DOMAIN WithNew(f) = 1 .. (Len(probes[f]) + 1)
  BY <1>3, LenProperties
<1>. QED BY <1>1, <1>2, <1>3, <1>4

LEMMA SendReady ==
  ASSUME RouteInv, NEW f \in Flow, SendProbe(f)
  PROVE  /\ Ready(f, WithNew(f), Len(WithNew(f)))
         /\ Egress(f, WithNew(f), Len(WithNew(f)))
<1>. DEFINE flight == WithNew(f)
            n == Len(probes[f])
<1>1. /\ flight \in Seq(Probe) /\ Len(flight) = n + 1 /\ n \in Nat
      /\ \A q \in 1 .. n : flight[q] = probes[f][q]
      /\ Hops(flight[n + 1]) = 0 /\ Len(flight[n + 1].meant) = 0
      /\ DOMAIN flight = 1 .. (n + 1) /\ DOMAIN probes[f] = 1 .. n
  BY WithNewFacts
<1>2. Egress(f, flight, Len(flight))
  BY <1>1 DEF SendProbe, WithNew, Blank
<1>. HIDE DEF flight
<1>3. /\ \A q \in 1 .. n : Hops(flight[q]) \in Nat /\ Hops(flight[q]) > 0
      /\ Len(Path[f]) \in Nat \ {0}
  BY <1>1, FlightFacts, PathFacts DEF RouteInv, Flights
<1>4. Sound(f, flight)
  BY <1>1, <1>3 DEF Sound, RouteInv, Flights
<1>5. InOrder(flight)
  <2>. SUFFICES ASSUME NEW i \in 1 .. (n + 1), NEW j \in 1 .. (n + 1), i < j
                PROVE  Hops(flight[j]) <= Hops(flight[i])
    BY <1>1 DEF InOrder
  <2>1. InOrder(probes[f]) /\ i \in 1 .. n
    BY <1>1 DEF RouteInv, Flights
  <2>2. CASE j = n + 1
    BY <1>1, <1>3, <2>1, <2>2
  <2>3. CASE j # n + 1
    <3>1. j \in 1 .. n
      BY <1>1, <2>3
    <3>2. Hops(probes[f][j]) <= Hops(probes[f][i])
      BY <1>1, <2>1, <3>1 DEF InOrder
    <3>. QED BY <1>1, <2>1, <3>1, <3>2
  <2>. QED BY <2>2, <2>3
<1>6. Right(f, flight)
  BY <1>1, <1>3 DEF Right, RouteInv, OnRoute
<1>7. Ready(f, flight, n + 1)
  BY <1>1, <1>3, <1>4, <1>5, <1>6 DEF Ready
<1>. QED BY <1>1, <1>2, <1>7 DEF flight

LEMMA ReadyStep ==
  ASSUME RouteInv, NEW f \in Flow, NEW flight, NEW p, Ready(f, flight, p), Egress(f, flight, p)
  PROVE  \E d \in Nat :
           /\ d \in Latency[Queue(f, Hops(flight[p]) + 1)] \cup {SlowLatency}
           /\ Stepped(f, flight, p, Measured(f, Hops(flight[p]) + 1, d))
<1>1. p \in DOMAIN flight
  BY FlightFacts DEF Ready
<1>. QED BY <1>1, EgressStep DEF Ready, RouteInv

LEMMA SteppedShape ==
  ASSUME RouteInv, NEW f \in Flow, NEW flight, NEW p, Ready(f, flight, p),
         NEW cur \in [Field -> Nat], Stepped(f, flight, p, cur)
  PROVE  Shape'
<1>. DEFINE s == Path[f][Hops(flight[p]) + 1]
<1>1. Hops(flight[p]) + 1 \in Hop(f)
  BY FlightFacts, PathFacts DEF Ready
<1>2. s \in Switch /\ index[f] \in Slot
  BY <1>1, PathFacts, IndexInSlot DEF RouteInv
<1>3. [flow |-> f, last |-> Output(f, s, cur)] \in Register
  BY <1>2, OutputFacts DEF Register, RouteInv
<1>. HIDE DEF s
<1>4. dint_register' \in [Switch -> [Slot -> Register]]
  <2>1. dint_register' = [dint_register EXCEPT ![s][index[f]] =
                            [flow |-> f, last |-> Output(f, s, cur)]]
    BY DEF Stepped, s
  <2>. QED BY <1>2, <1>3, <2>1 DEF RouteInv, Shape
<1>. QED BY <1>4 DEF Stepped, RouteInv, Shape, receiver

LEMMA SteppedFlights ==
  ASSUME RouteInv, NEW f \in Flow, NEW flight, NEW p, Ready(f, flight, p),
         NEW cur \in [Field -> Nat], Stepped(f, flight, p, cur)
  PROVE  Flights'
<1>. DEFINE k == Hops(flight[p]) + 1
            after == probes'[f]
<1>1. /\ Len(flight) \in Nat /\ p \in 1 .. Len(flight) /\ k \in 1 .. Len(Path[f])
      /\ Len(Path[f]) \in Nat /\ DOMAIN after = 1 .. Len(flight)
      /\ DOMAIN flight = 1 .. Len(flight)
      /\ \A q \in 1 .. Len(flight) : Hops(flight[q]) \in Nat
  <2>1. after \in Seq(Probe) /\ Len(after) = Len(flight)
    BY DEF Stepped
  <2>2. DOMAIN after = 1 .. Len(flight)
    BY <2>1, LenProperties
  <2>. QED BY <2>2, FlightFacts, PathFacts DEF Ready
<1>2. /\ \A q \in 1 .. Len(flight) : q # p => after[q] = flight[q]
      /\ Hops(after[p]) = k /\ Len(after[p].meant) = k
      /\ \A g \in Flow : g # f => probes'[g] = probes[g]
  BY <1>1 DEF Stepped
<1>. HIDE DEF after
<1>3. Sound(f, after)
  BY <1>1, <1>2 DEF Sound, Ready
<1>4. InOrder(after)
  <2>. SUFFICES ASSUME NEW i \in 1 .. Len(flight), NEW j \in 1 .. Len(flight), i < j
                PROVE  Hops(after[j]) <= Hops(after[i])
    BY <1>1 DEF InOrder
  <2>1. CASE j = p
    <3>1. i \in 1 .. (p - 1) /\ i # p
      BY <1>1, <2>1
    <3>. QED BY <1>1, <1>2, <2>1, <3>1 DEF Ready
  <2>2. CASE j # p
    <3>1. Hops(flight[j]) <= Hops(flight[i])
      BY <1>1 DEF Ready, InOrder
    <3>2. after[j] = flight[j]
      BY <1>2, <2>2
    <3>3. CASE i = p
      <4>. QED BY <1>1, <1>2, <3>1, <3>2, <3>3, SMTT(40)
    <3>4. CASE i # p
      <4>1. after[i] = flight[i]
        BY <1>2, <3>4
      <4>. QED BY <3>1, <3>2, <4>1
    <3>. QED BY <3>3, <3>4
  <2>. QED BY <2>1, <2>2
<1>5. \A q \in DOMAIN after : Hops(after[q]) > 0
  BY <1>1, <1>2 DEF Ready
<1>. QED BY <1>2, <1>3, <1>4, <1>5 DEF Flights, after, RouteInv, Sound, InOrder, Hops

LEMMA SteppedOnRoute ==
  ASSUME RouteInv, NEW f \in Flow, NEW flight, NEW p, Ready(f, flight, p), NEW d \in Nat,
         Stepped(f, flight, p, Measured(f, Hops(flight[p]) + 1, d))
  PROVE  OnRoute'
<1>. DEFINE k == Hops(flight[p]) + 1
            cur == Measured(f, k, d)
            s == Path[f][k]
            after == probes'[f]
<1>1. /\ Len(flight) \in Nat /\ p \in 1 .. Len(flight) /\ k \in Hop(f)
      /\ Hops(flight[p]) \in Nat /\ DOMAIN flight = 1 .. Len(flight)
  BY FlightFacts, PathFacts DEF Ready
<1>2. after \in Seq(Probe) /\ Len(after) = Len(flight) /\ DOMAIN after = 1 .. Len(flight)
  <2>1. after \in Seq(Probe) /\ Len(after) = Len(flight)
    BY DEF Stepped
  <2>. QED BY <2>1, LenProperties
<1>3. /\ cur["deviceno"] = Path[f][k] /\ cur["iport"] = PortBefore(f, k)
      /\ cur["eport"] = PortAfter(f, k)
  BY <1>1, MeasuredFacts
<1>4. /\ \A q \in DOMAIN flight : q # p => after[q] = flight[q]
      /\ Hops(after[p]) = k
      /\ \A j \in 1 .. Hops(flight[p]) : HeaderOf(after[p], j) = HeaderOf(flight[p], j)
      /\ DOMAIN HeaderOf(after[p], k) = Field \ Saved(f, s, cur)
      /\ \A x \in Field \ Saved(f, s, cur) : HeaderOf(after[p], k)[x] = cur[x]
  BY DEF Stepped
<1>. HIDE DEF cur, after
<1>5. OfHop(f, k, HeaderOf(after[p], k))
  BY <1>3, <1>4 DEF OfHop
<1>6. Right(f, after)
  <2>. SUFFICES ASSUME NEW q \in DOMAIN after, NEW j \in 1 .. Hops(after[q])
                PROVE  OfHop(f, j, HeaderOf(after[q], j))
    BY DEF Right
  <2>1. CASE q # p
    BY <1>1, <1>2, <1>4, <2>1 DEF Ready, Right
  <2>2. CASE q = p /\ j = k
    BY <1>5, <2>2
  <2>3. CASE q = p /\ j # k
    <3>1. j \in 1 .. Hops(flight[p])
      BY <1>1, <1>4, <2>3
    <3>. QED BY <1>1, <1>4, <2>3, <3>1 DEF Ready, Right
  <2>. QED BY <2>1, <2>2, <2>3
<1>7. /\ \A g \in Flow : g # f => probes'[g] = probes[g]
      /\ known' = known /\ tor' = tor
  BY DEF Stepped, receiver
<1>8. ASSUME NEW g \in Flow
      PROVE  Right(g, probes'[g])
  BY <1>6, <1>7 DEF RouteInv, OnRoute, after
<1>9. OnRoute' <=> \A g \in Flow :
        /\ Right(g, probes'[g])
        /\ \A j \in Hop(g) : OfHop(g, j, known'[g][Len(Path[g]) - j])
        /\ OfHop(g, Len(Path[g]), tor')
  BY DEF OnRoute, Right, OfHop, HeaderOf, Hops
<1>. QED BY <1>7, <1>8, <1>9 DEF RouteInv, OnRoute

(* Probe r of f is gone, taken in or lost.                                 *)
Removed(f, r) ==
  LET after == probes'[f]
      n == Len(probes[f])
  IN  /\ after \in Seq(Probe) /\ Len(after) = n - 1
      /\ \A i \in 1 .. (n - 1) : after[i] = probes[f][IF i < r THEN i ELSE i + 1]
      /\ \A g \in Flow : g # f => probes'[g] = probes[g]
      /\ probes' \in [Flow -> Seq(Probe)]

LEMMA ReceiveRemoves ==
  ASSUME RouteInv, NEW f \in Flow, Receive(f)
  PROVE  Removed(f, 1) /\ 1 \in DOMAIN probes[f] /\ Head(probes[f]) = probes[f][1]
<1>1. probes \in [Flow -> Seq(Probe)] /\ probes[f] \in Seq(Probe) /\ probes[f] # <<>>
  BY DEF RouteInv, Shape, Receive, AtHost
<1>2. /\ probes' = [probes EXCEPT ![f] = Tail(probes[f])]
      /\ probes'[f] = Tail(probes[f])
  BY <1>1 DEF Receive
<1>3. /\ Tail(probes[f]) \in Seq(Probe) /\ Len(Tail(probes[f])) = Len(probes[f]) - 1
      /\ \A i \in 1 .. (Len(probes[f]) - 1) : Tail(probes[f])[i] = probes[f][i + 1]
      /\ Head(probes[f]) = probes[f][1]
      /\ Len(probes[f]) \in Nat /\ Len(probes[f]) > 0 /\ DOMAIN probes[f] = 1 .. Len(probes[f])
  BY <1>1, HeadTailProperties, LenProperties, EmptySeq
<1>4. probes' \in [Flow -> Seq(Probe)]
  BY <1>1, <1>2, <1>3
<1>5. \A g \in Flow : g # f => probes'[g] = probes[g]
  BY <1>1, <1>2
<1>. QED BY <1>2, <1>3, <1>4, <1>5 DEF Removed

LEMMA LoseRemoves ==
  ASSUME RouteInv, NEW f \in Flow, NEW p \in DOMAIN probes[f], LoseProbe(f, p)
  PROVE  Removed(f, p)
<1>1. probes \in [Flow -> Seq(Probe)] /\ probes[f] \in Seq(Probe)
  BY DEF RouteInv, Shape
<1>2. probes' = [probes EXCEPT ![f] = RemoveAt(probes[f], p)]
  BY <1>1 DEF LoseProbe
<1>. DEFINE rest == RemoveAt(probes[f], p)
<1>3. /\ rest \in Seq(Probe) /\ Len(rest) = Len(probes[f]) - 1
      /\ \A i \in 1 .. (Len(probes[f]) - 1) :
           rest[i] = probes[f][IF i < p THEN i ELSE i + 1]
  BY <1>1, RemoveAtProperties
<1>. HIDE DEF rest
<1>4. probes'[f] = rest
  BY <1>1, <1>2 DEF rest
<1>5. probes' \in [Flow -> Seq(Probe)] /\ \A g \in Flow : g # f => probes'[g] = probes[g]
  BY <1>1, <1>2, <1>3 DEF rest
<1>. QED BY <1>3, <1>4, <1>5 DEF Removed

(* The probes that are left are probes there were before, in the same      *)
(* order.                                                                  *)
LEMMA RemovedFacts ==
  ASSUME RouteInv, NEW f \in Flow, NEW r \in DOMAIN probes[f], Removed(f, r)
  PROVE  /\ Flights'
         /\ \A g \in Flow : Right(g, probes'[g])
<1>. DEFINE n == Len(probes[f])
            after == probes'[f]
            Old(i) == IF i < r THEN i ELSE i + 1
<1>1. /\ n \in Nat /\ DOMAIN probes[f] = 1 .. n /\ r \in 1 .. n
  BY FlightFacts DEF RouteInv, Shape
<1>2. /\ DOMAIN after = 1 .. (n - 1)
      /\ \A i \in 1 .. (n - 1) : after[i] = probes[f][Old(i)]
      /\ \A g \in Flow : g # f => probes'[g] = probes[g]
  BY <1>1, LenProperties DEF Removed
<1>3. /\ \A i \in 1 .. (n - 1) : Old(i) \in 1 .. n
      /\ \A i, j \in 1 .. (n - 1) : i < j => Old(i) < Old(j)
  BY <1>1
<1>. HIDE DEF after, Old, n
<1>4. /\ Sound(f, probes[f]) /\ InOrder(probes[f]) /\ Right(f, probes[f])
      /\ \A p \in DOMAIN probes[f] : Hops(probes[f][p]) > 0
  BY DEF RouteInv, Flights, OnRoute
<1>5. Sound(f, after)
  BY <1>1, <1>2, <1>3, <1>4 DEF Sound
<1>6. InOrder(after)
  BY <1>1, <1>2, <1>3, <1>4 DEF InOrder
<1>7. Right(f, after)
  BY <1>1, <1>2, <1>3, <1>4 DEF Right
<1>8. \A p \in DOMAIN after : Hops(after[p]) > 0
  BY <1>1, <1>2, <1>3, <1>4
<1>9. ASSUME NEW g \in Flow
      PROVE  /\ Sound(g, probes'[g]) /\ InOrder(probes'[g]) /\ Right(g, probes'[g])
             /\ \A p \in DOMAIN probes'[g] : Hops(probes'[g][p]) > 0
  <2>1. CASE g = f
    BY <2>1, <1>5, <1>6, <1>7, <1>8 DEF after
  <2>2. CASE g # f
    BY <2>2, <1>2 DEF RouteInv, Flights, OnRoute
  <2>. QED BY <2>1, <2>2
<1>10. Flights'
  BY <1>9 DEF Flights, Sound, InOrder, Hops
<1>. QED BY <1>9, <1>10

-----------------------------------------------------------------------------
(* What the receiver makes of the oldest probe of f.                       *)

LEMMA AtHostFacts ==
  ASSUME RouteInv, NEW f \in Flow, AtHost(f)
  PROVE  LET probe == probes[f][1]
             n == Len(Path[f])
         IN  /\ probe \in Probe /\ Head(probes[f]) = probe /\ 1 \in DOMAIN probes[f]
             /\ Hops(probe) = n /\ Len(probe.meant) = n
             /\ \A k \in Hop(f) :
                  /\ n - k \in DOMAIN known[f] /\ (n - k = 0 <=> k = n)
                  /\ HeaderOf(probe, k) = probe.headers[(n - k) + 1]
                  /\ MeantOf(probe, k) = probe.meant[(n - k) + 1]
                  /\ DOMAIN HeaderOf(probe, k) \subseteq Field
                  /\ OfHop(f, k, HeaderOf(probe, k))
             /\ \A i \in DOMAIN known[f] : n - i \in Hop(f) /\ n - (n - i) = i
<1>. DEFINE probe == probes[f][1]
            n == Len(Path[f])
<1>1. probes[f] \in Seq(Probe) /\ probes[f] # <<>>
  BY DEF RouteInv, Shape, AtHost
<1>2. /\ Head(probes[f]) = probe /\ 1 \in DOMAIN probes[f] /\ probe \in Probe
      /\ n \in Nat \ {0} /\ Hop(f) = 1 .. n
  BY <1>1, FlightFacts, HeadTailProperties, EmptySeq, PathFacts
<1>3. Hops(probe) = n /\ Len(probe.meant) = n
  BY <1>2 DEF AtHost, Hops, RouteInv, Flights, Sound
<1>4. DOMAIN known[f] = 0 .. (n - 1)
  BY DEF RouteInv, Shape
<1>5. probe.headers \in Seq(Header) /\ Len(probe.headers) = n
  BY <1>2, <1>3 DEF Probe, Hops
<1>6. Right(f, probes[f])
  BY DEF RouteInv, OnRoute
<1>. HIDE DEF probe, n
<1>7. ASSUME NEW k \in Hop(f)
      PROVE  /\ n - k \in DOMAIN known[f] /\ (n - k = 0 <=> k = n)
             /\ HeaderOf(probe, k) = probe.headers[(n - k) + 1]
             /\ MeantOf(probe, k) = probe.meant[(n - k) + 1]
             /\ DOMAIN HeaderOf(probe, k) \subseteq Field
             /\ OfHop(f, k, HeaderOf(probe, k))
  <2>1. k \in 1 .. n /\ n + 1 - k = (n - k) + 1 /\ (n - k) + 1 \in 1 .. n
    BY <1>2
  <2>2. /\ HeaderOf(probe, k) = probe.headers[(n - k) + 1]
        /\ MeantOf(probe, k) = probe.meant[(n - k) + 1]
    BY <1>3, <1>5, <2>1 DEF HeaderOf, MeantOf
  <2>3. HeaderOf(probe, k) \in Header
    BY <1>5, <2>1, <2>2, ElementOfSeq
  <2>4. DOMAIN HeaderOf(probe, k) \subseteq Field
    BY <2>3 DEF Header
  <2>5. OfHop(f, k, HeaderOf(probe, k))
    BY <1>2, <1>3, <1>6, <2>1 DEF Right, probe
  <2>6. n - k \in DOMAIN known[f] /\ (n - k = 0 <=> k = n)
    BY <1>2, <1>4, <2>1
  <2>. QED BY <2>2, <2>4, <2>5, <2>6
<1>8. \A i \in DOMAIN known[f] : n - i \in Hop(f) /\ n - (n - i) = i
  BY <1>2, <1>4
<1>. QED BY <1>2, <1>3, <1>7, <1>8 DEF probe, n

LEMMA TorFacts ==
  ASSUME NEW header
  PROVE  /\ DOMAIN TorLearned(header) = DOMAIN tor \cup (DOMAIN header \ {"iport"})
         /\ \A x \in DOMAIN TorLearned(header) :
              TorLearned(header)[x] =
                IF x \in DOMAIN header /\ (x = "timedelta" \/ x \notin DOMAIN tor)
                THEN header[x] ELSE tor[x]
<1>. DEFINE D == DOMAIN header \ ({"iport"} \cup (DOMAIN tor \ {"timedelta"}))
            h == Restrict(header, D)
<1>1. DOMAIN h = D /\ \A x \in D : h[x] = header[x]
  BY DEF Restrict
<1>2. TorLearned(header) = Learned(tor, h)
  BY DEF TorLearned
<1>. HIDE DEF h
<1>3. /\ DOMAIN TorLearned(header) = DOMAIN tor \cup D
      /\ \A x \in D : TorLearned(header)[x] = header[x]
      /\ \A x \in DOMAIN tor : x \notin D => TorLearned(header)[x] = tor[x]
  BY <1>1, <1>2 DEF Learned
<1>5. DOMAIN tor \cup D = DOMAIN tor \cup (DOMAIN header \ {"iport"})
  BY DEF D
<1>6. ASSUME NEW x \in DOMAIN tor \cup D
      PROVE  TorLearned(header)[x] =
               IF x \in DOMAIN header /\ (x = "timedelta" \/ x \notin DOMAIN tor)
               THEN header[x] ELSE tor[x]
  BY <1>3 DEF D
<1>. HIDE DEF D
<1>. QED BY <1>3, <1>5, <1>6

(* The receiver fills the route in right.                                  *)
LEMMA KnownFacts ==
  ASSUME RouteInv, NEW f \in Flow, NEW k \in Hop(f)
  PROVE  /\ OfHop(f, k, Memory(f, k)) /\ DOMAIN Memory(f, k) \subseteq
              DOMAIN known[f][Len(Path[f]) - k] \cup DOMAIN tor
         /\ k # Len(Path[f]) => Memory(f, k) = known[f][Len(Path[f]) - k]
         /\ DOMAIN Memory(f, Len(Path[f])) =
              DOMAIN tor \cup (DOMAIN known[f][0] \cap {"iport"})
         /\ "timedelta" \in DOMAIN Memory(f, Len(Path[f])) =>
              /\ "timedelta" \in DOMAIN tor
              /\ Memory(f, Len(Path[f]))["timedelta"] = tor["timedelta"]
<1>. DEFINE n == Len(Path[f])
<1>1. /\ k \in 1 .. n /\ n \in Nat \ {0} /\ n - n = 0 /\ n \in Hop(f)
      /\ (n - k > 0 <=> k # n) /\ (k # n => n - k > 0)
  BY PathFacts
<1>2. /\ OfHop(f, k, known[f][n - k]) /\ OfHop(f, n, tor) /\ "iport" \notin DOMAIN tor
  BY DEF RouteInv, OnRoute, Shape
<1>3. k # n => Memory(f, k) = known[f][n - k]
  BY <1>1 DEF Memory, Known
<1>4. /\ DOMAIN Memory(f, n) = DOMAIN tor \cup (DOMAIN known[f][0] \cap {"iport"})
      /\ \A x \in DOMAIN tor \cup (DOMAIN known[f][0] \cap {"iport"}) :
           Memory(f, n)[x] = IF x = "iport" THEN known[f][0][x] ELSE tor[x]
  BY <1>1 DEF Memory, Known
<1>5. k = n => OfHop(f, n, Memory(f, n))
  BY <1>1, <1>2, <1>4 DEF OfHop
<1>6. k = n => DOMAIN Memory(f, k) \subseteq DOMAIN known[f][n - k] \cup DOMAIN tor
  BY <1>1, <1>4
<1>7. "timedelta" \in DOMAIN Memory(f, n) =>
        "timedelta" \in DOMAIN tor /\ Memory(f, n)["timedelta"] = tor["timedelta"]
  BY <1>4
<1>. HIDE DEF n
<1>. QED BY <1>2, <1>3, <1>4, <1>5, <1>6, <1>7 DEF n

LEMMA RecoveredFacts ==
  ASSUME RouteInv, NEW f \in Flow, AtHost(f), IsRecoverable(f, probes[f][1]), NEW k \in Hop(f)
  PROVE  LET r == Recovered(f, probes[f][1], Len(Path[f]) - k)
             h == HeaderOf(probes[f][1], k)
         IN  /\ r["deviceno"] = Path[f][k] /\ r["iport"] = PortBefore(f, k)
             /\ r["eport"] = PortAfter(f, k)
             /\ Field \subseteq DOMAIN h \cup DOMAIN Memory(f, k)
             /\ r["timedelta"] = IF "timedelta" \in DOMAIN h THEN h["timedelta"] * Scale
                                 ELSE Memory(f, k)["timedelta"]
<1>. DEFINE i == Len(Path[f]) - k
            r == Recovered(f, probes[f][1], i)
            h == HeaderOf(probes[f][1], k)
<1>1. /\ h = probes[f][1].headers[i + 1] /\ i \in DOMAIN known[f]
      /\ DOMAIN h \subseteq Field /\ OfHop(f, k, h)
  BY AtHostFacts
<1>2. Field \subseteq DOMAIN h \cup DOMAIN Memory(f, k)
  BY <1>1 DEF IsRecoverable, Memory
<1>3. OfHop(f, k, Memory(f, k))
  BY KnownFacts
<1>4. r = [x \in Field |-> IF x \in DOMAIN Parsed(h) THEN Parsed(h)[x] ELSE Memory(f, k)[x]]
  BY <1>1 DEF Recovered, Memory
<1>. HIDE DEF h, r, i
<1>5. \A x \in Field :
        r[x] = IF x \in DOMAIN h THEN IF x = "timedelta" THEN h[x] * Scale ELSE h[x]
               ELSE Memory(f, k)[x]
  BY <1>4 DEF Parsed
<1>6. r["deviceno"] = Path[f][k] /\ r["iport"] = PortBefore(f, k) /\ r["eport"] = PortAfter(f, k)
  BY <1>1, <1>2, <1>3, <1>5 DEF OfHop, Field
<1>7. r["timedelta"] = IF "timedelta" \in DOMAIN h THEN h["timedelta"] * Scale
                       ELSE Memory(f, k)["timedelta"]
  BY <1>5 DEF Field
<1>. QED BY <1>2, <1>6, <1>7 DEF h, r, i

(* What a probe that can be recovered adds to the maps.                    *)
LEMMA ReceivedFacts ==
  ASSUME RouteInv, NEW f \in Flow, Receive(f), IsRecoverable(f, probes[f][1])
  PROVE  /\ DOMAIN known' = Flow /\ \A g \in Flow : g # f => known'[g] = known[g]
         /\ DOMAIN known'[f] = DOMAIN known[f]
         /\ \A k \in Hop(f) :
              LET h == HeaderOf(probes[f][1], k)
                  old == known[f][Len(Path[f]) - k]
                  new == known'[f][Len(Path[f]) - k]
              IN  /\ DOMAIN new = DOMAIN old \cup DOMAIN h
                  /\ \A x \in DOMAIN h :
                       new[x] = IF x = "timedelta" THEN h[x] * Scale ELSE h[x]
                  /\ \A x \in DOMAIN old : x \notin DOMAIN h => new[x] = old[x]
         /\ LET h == HeaderOf(probes[f][1], Len(Path[f]))
            IN  /\ DOMAIN tor' = DOMAIN tor \cup (DOMAIN h \ {"iport"})
                /\ \A x \in DOMAIN tor' :
                     tor'[x] = IF x \in DOMAIN h /\ x = "timedelta" THEN h[x] * Scale
                               ELSE IF x \notin DOMAIN tor THEN h[x] ELSE tor[x]
         /\ UNCHANGED <<switches, failed, harmed, losses>>
         /\ ok' = [ok EXCEPT ![f] = ReportedOk(f, probes[f][1])]
<1>. DEFINE probe == probes[f][1]
            n == Len(Path[f])
<1>1. AtHost(f) /\ Head(probes[f]) = probe /\ DOMAIN known = Flow
  BY ReceiveRemoves DEF Receive, RouteInv, Shape
<1>2. /\ known' = [known EXCEPT ![f] =
             [i \in DOMAIN @ |-> Learned(@[i], Parsed(probe.headers[i + 1]))]]
      /\ tor' = TorLearned(Parsed(probe.headers[1]))
      /\ UNCHANGED <<switches, failed, harmed, losses>>
      /\ ok' = [ok EXCEPT ![f] = ReportedOk(f, probe)]
  BY <1>1 DEF Receive
<1>3. known'[f] = [i \in DOMAIN known[f] |-> Learned(known[f][i], Parsed(probe.headers[i + 1]))]
  BY <1>1, <1>2
<1>4. ASSUME NEW k \in Hop(f)
      PROVE  LET h == HeaderOf(probe, k)
                 old == known[f][n - k]
                 new == known'[f][n - k]
             IN  /\ DOMAIN new = DOMAIN old \cup DOMAIN h
                 /\ \A x \in DOMAIN h :
                      new[x] = IF x = "timedelta" THEN h[x] * Scale ELSE h[x]
                 /\ \A x \in DOMAIN old : x \notin DOMAIN h => new[x] = old[x]
  <2>. DEFINE h == HeaderOf(probe, k)
              old == known[f][n - k]
  <2>1. n - k \in DOMAIN known[f] /\ h = probe.headers[(n - k) + 1]
    BY <1>1, AtHostFacts
  <2>2. known'[f][n - k] = Learned(old, Parsed(h))
    BY <1>3, <2>1
  <2>. HIDE DEF h, old
  <2>3. /\ DOMAIN Learned(old, Parsed(h)) = DOMAIN old \cup DOMAIN h
        /\ \A x \in DOMAIN h :
             Learned(old, Parsed(h))[x] = IF x = "timedelta" THEN h[x] * Scale ELSE h[x]
        /\ \A x \in DOMAIN old : x \notin DOMAIN h => Learned(old, Parsed(h))[x] = old[x]
    BY DEF Learned, Parsed
  <2>. QED BY <2>2, <2>3 DEF h, old
<1>5. LET h == HeaderOf(probe, n)
      IN  /\ DOMAIN tor' = DOMAIN tor \cup (DOMAIN h \ {"iport"})
          /\ \A x \in DOMAIN tor' :
               tor'[x] = IF x \in DOMAIN h /\ x = "timedelta" THEN h[x] * Scale
                         ELSE IF x \notin DOMAIN tor THEN h[x] ELSE tor[x]
  <2>. DEFINE h == HeaderOf(probe, n)
  <2>1. n \in Hop(f) /\ n - n = 0 /\ 0 + 1 = 1
    BY PathFacts
  <2>2. h = probe.headers[1]
    <3>1. h = probe.headers[(n - n) + 1]
      BY <1>1, <2>1, AtHostFacts
    <3>. QED BY <2>1, <3>1
  <2>3. tor' = TorLearned(Parsed(h))
    BY <1>2, <2>2
  <2>. HIDE DEF h
  <2>4. /\ DOMAIN tor' = DOMAIN tor \cup (DOMAIN Parsed(h) \ {"iport"})
        /\ \A x \in DOMAIN tor' :
             tor'[x] = IF x \in DOMAIN Parsed(h) /\ (x = "timedelta" \/ x \notin DOMAIN tor)
                       THEN Parsed(h)[x] ELSE tor[x]
    BY <2>3, TorFacts
  <2>5. /\ DOMAIN Parsed(h) = DOMAIN h
        /\ \A x \in DOMAIN h :
             Parsed(h)[x] = IF x = "timedelta" THEN h[x] * Scale ELSE h[x]
    BY DEF Parsed
  <2>. QED BY <2>4, <2>5 DEF h
<1>6. /\ DOMAIN known' = Flow /\ \A g \in Flow : g # f => known'[g] = known[g]
      /\ DOMAIN known'[f] = DOMAIN known[f]
  BY <1>1, <1>2, <1>3
<1>. QED BY <1>2, <1>4, <1>5, <1>6, Zenon

-----------------------------------------------------------------------------
(* The invariant of the routes is kept.                                    *)

LEMMA InitRoute == Init => RouteInv
<1>. SUFFICES ASSUME Init PROVE RouteInv
  OBVIOUS
<1>. USE DEF Init
<1>1. \A f \in Flow : probes[f] = <<>> /\ DOMAIN probes[f] = {}
  OBVIOUS
<1>2. DOMAIN NoFields = {}
  BY DEF NoFields
<1>3. dint_register \in [Switch -> [Slot -> Register]]
  BY DEF Register, Field
<1>4. Shape
  <2>1. probes \in [Flow -> Seq(Probe)]
    OBVIOUS
  <2>2. \A f \in Flow : known[f] = [i \in 0 .. (Len(Path[f]) - 1) |-> NoFields]
    OBVIOUS
  <2>3. DOMAIN known = Flow /\ \A f \in Flow : DOMAIN known[f] = 0 .. (Len(Path[f]) - 1)
    BY <2>2
  <2>4. DOMAIN tor \subseteq Field \ {"iport"}
    BY <1>2
  <2>5. losses \in 0 .. MaxLoss
    BY IntNumbers
  <2>. QED BY <1>3, <2>1, <2>3, <2>4, <2>5 DEF Shape
<1>5. Flights
  BY <1>1 DEF Flights, Sound, InOrder
<1>6. OnRoute
  <2>. SUFFICES ASSUME NEW f \in Flow
                PROVE  /\ Right(f, probes[f])
                       /\ \A k \in Hop(f) : OfHop(f, k, known[f][Len(Path[f]) - k])
                       /\ OfHop(f, Len(Path[f]), tor)
    BY DEF OnRoute
  <2>1. Right(f, probes[f])
    BY <1>1 DEF Right
  <2>2. ASSUME NEW k \in Hop(f)
        PROVE  OfHop(f, k, known[f][Len(Path[f]) - k])
    <3>1. Len(Path[f]) - k \in 0 .. (Len(Path[f]) - 1)
      BY PathFacts
    <3>2. known[f][Len(Path[f]) - k] = NoFields
      BY <3>1
    <3>. QED BY <1>2, <3>2 DEF OfHop
  <2>3. OfHop(f, Len(Path[f]), tor)
    BY <1>2 DEF OfHop
  <2>. QED BY <2>1, <2>2, <2>3
<1>. QED BY <1>4, <1>5, <1>6 DEF RouteInv

LEMMA EgressRoute ==
  ASSUME RouteInv, NEW f \in Flow, NEW flight, NEW p, Ready(f, flight, p), Egress(f, flight, p)
  PROVE  RouteInv'
<1>. DEFINE k == Hops(flight[p]) + 1
<1>1. PICK d \in Nat : Stepped(f, flight, p, Measured(f, k, d))
  BY ReadyStep
<1>2. k \in Hop(f)
  BY FlightFacts, PathFacts DEF Ready
<1>3. Measured(f, k, d) \in [Field -> Nat]
  BY <1>2, MeasuredFacts
<1>. QED BY <1>1, <1>3, SteppedShape, SteppedFlights, SteppedOnRoute DEF RouteInv

(* What is learned of the last hop is right for all flows.                 *)
LEMMA ReceiveRoute ==
  ASSUME RouteInv, NEW f \in Flow, Receive(f)
  PROVE  RouteInv'
<1>. DEFINE probe == probes[f][1]
<1>1. /\ Removed(f, 1) /\ 1 \in DOMAIN probes[f] /\ Head(probes[f]) = probe /\ AtHost(f)
      /\ Flights' /\ \A g \in Flow : Right(g, probes'[g])
  BY ReceiveRemoves, RemovedFacts DEF Receive
<1>2. probes' \in [Flow -> Seq(Probe)]
  BY <1>1 DEF Removed
<1>3. OnRoute' <=> \A g \in Flow :
        /\ Right(g, probes'[g])
        /\ \A j \in Hop(g) : OfHop(g, j, known'[g][Len(Path[g]) - j])
        /\ OfHop(g, Len(Path[g]), tor')
  BY DEF OnRoute, Right, OfHop, HeaderOf, Hops
<1>4. CASE ~IsRecoverable(f, probe)
  <2>1. failed' = TRUE /\ UNCHANGED <<known, tor, ok, switches, harmed, losses>>
    BY <1>1, <1>4 DEF Receive
  <2>2. Shape'
    BY <1>2, <2>1 DEF Shape, RouteInv, switches
  <2>3. OnRoute'
    BY <1>1, <1>3, <2>1 DEF OnRoute, RouteInv
  <2>. QED BY <1>1, <2>2, <2>3 DEF RouteInv
<1>5. CASE IsRecoverable(f, probe)
  <2>1. /\ DOMAIN known' = Flow /\ \A g \in Flow : g # f => known'[g] = known[g]
        /\ DOMAIN known'[f] = DOMAIN known[f]
        /\ UNCHANGED <<switches, failed, harmed, losses>>
    BY <1>5, ReceivedFacts
  <2>. DEFINE n == Len(Path[f])
              h == HeaderOf(probe, n)
  <2>2. /\ DOMAIN tor' = DOMAIN tor \cup (DOMAIN h \ {"iport"})
        /\ \A x \in DOMAIN tor' :
             x # "timedelta" => tor'[x] = IF x \in DOMAIN tor THEN tor[x] ELSE h[x]
    BY <1>5, ReceivedFacts
  <2>3. n \in Hop(f) /\ DOMAIN h \subseteq Field /\ OfHop(f, n, h)
    BY <1>1, AtHostFacts, PathFacts
  <2>4. Shape'
    <3>1. DOMAIN tor' \subseteq Field \ {"iport"}
      BY <2>2, <2>3 DEF RouteInv, Shape
    <3>2. \A g \in Flow : DOMAIN known'[g] = 0 .. (Len(Path[g]) - 1)
      BY <2>1 DEF RouteInv, Shape
    <3>. QED BY <1>2, <2>1, <3>1, <3>2 DEF RouteInv, Shape, switches
  <2>5. ASSUME NEW j \in Hop(f)
        PROVE  OfHop(f, j, known'[f][n - j])
    <3>. DEFINE g == HeaderOf(probe, j)
                old == known[f][n - j]
                new == known'[f][n - j]
    <3>1. /\ DOMAIN new = DOMAIN old \cup DOMAIN g
          /\ \A x \in DOMAIN g : new[x] = IF x = "timedelta" THEN g[x] * Scale ELSE g[x]
          /\ \A x \in DOMAIN old : x \notin DOMAIN g => new[x] = old[x]
      BY <1>5, ReceivedFacts, ZenonT(40)
    <3>2. OfHop(f, j, g) /\ OfHop(f, j, old)
      BY <1>1, AtHostFacts DEF RouteInv, OnRoute
    <3>. HIDE DEF g, old, new
    <3>3. OfHop(f, j, new)
      BY <3>1, <3>2 DEF OfHop
    <3>. QED BY <3>3 DEF new
  <2>6. ASSUME NEW g \in Flow
        PROVE  OfHop(g, Len(Path[g]), tor')
    <3>1. OfHop(g, Len(Path[g]), tor)
      BY DEF RouteInv, OnRoute
    <3>2. Path[g][Len(Path[g])] = Path[f][n]
      BY IntPaths
    <3>3. PortAfter(g, Len(Path[g])) = PortAfter(f, n)
      BY DEF PortAfter
    <3>4. "iport" \notin DOMAIN tor'
      BY <2>2 DEF RouteInv, Shape
    <3>. HIDE DEF n, h
    <3>. QED BY <2>2, <2>3, <3>1, <3>2, <3>3, <3>4 DEF OfHop
  <2>7. OnRoute'
    BY <1>1, <1>3, <2>1, <2>5, <2>6 DEF RouteInv, OnRoute
  <2>. QED BY <1>1, <2>4, <2>7 DEF RouteInv
<1>. QED BY <1>4, <1>5

LEMMA LoseRoute ==
  ASSUME RouteInv, NEW f \in Flow, NEW p \in DOMAIN probes[f], LoseProbe(f, p)
  PROVE  RouteInv'
<1>1. /\ Removed(f, p) /\ Flights' /\ \A g \in Flow : Right(g, probes'[g])
  BY LoseRemoves, RemovedFacts
<1>2. probes' \in [Flow -> Seq(Probe)]
  BY <1>1 DEF Removed
<1>3. UNCHANGED <<switches, receiver>>
  BY DEF LoseProbe
<1>4. harmed' \subseteq Flow /\ losses' \in 0 .. MaxLoss
  <2>1. harmed' = harmed \/ harmed' = harmed \cup {f}
    BY DEF LoseProbe
  <2>2. losses' = losses + 1 /\ losses < MaxLoss /\ losses \in Nat /\ MaxLoss \in Nat
    BY IntNumbers DEF LoseProbe, RouteInv, Shape
  <2>. QED BY <2>1, <2>2 DEF RouteInv, Shape
<1>5. Shape'
  BY <1>2, <1>3, <1>4 DEF RouteInv, Shape, switches, receiver
<1>6. OnRoute'
  <2>1. OnRoute' <=> \A g \in Flow :
          /\ Right(g, probes'[g])
          /\ \A j \in Hop(g) : OfHop(g, j, known'[g][Len(Path[g]) - j])
          /\ OfHop(g, Len(Path[g]), tor')
    BY DEF OnRoute, Right, OfHop, HeaderOf, Hops
  <2>. QED BY <1>1, <1>3, <2>1 DEF RouteInv, OnRoute, receiver
<1>. QED BY <1>1, <1>5, <1>6 DEF RouteInv

LEMMA NextRoute == RouteInv /\ [Next]_vars => RouteInv'
<1>. SUFFICES ASSUME RouteInv, [Next]_vars PROVE RouteInv'
  OBVIOUS
<1>1. ASSUME NEW f \in Flow, SendProbe(f)
      PROVE  RouteInv'
  BY <1>1, SendReady, EgressRoute
<1>2. ASSUME NEW f \in Flow, NEW p \in DOMAIN probes[f], PassSwitch(f, p)
      PROVE  RouteInv'
  BY <1>2, PassReady, EgressRoute
<1>3. ASSUME NEW f \in Flow, Receive(f)
      PROVE  RouteInv'
  BY <1>3, ReceiveRoute
<1>4. ASSUME NEW f \in Flow, NEW p \in DOMAIN probes[f], LoseProbe(f, p)
      PROVE  RouteInv'
  BY <1>4, LoseRoute
<1>5. ASSUME NEW queue \in MaySlow, SimulateLatency(queue)
      PROVE  RouteInv'
  <2>1. /\ UNCHANGED <<index, dint_register, probes, receiver, harmed, losses>>
        /\ slow' \subseteq Queues
    BY <1>5, Latencies DEF SimulateLatency
  <2>. QED BY <2>1 DEF RouteInv, Shape, Flights, OnRoute, Sound, InOrder, Right, OfHop,
                       HeaderOf, Hops, receiver
<1>6. ASSUME UNCHANGED vars
      PROVE  RouteInv'
  BY <1>6 DEF vars, switches, receiver, RouteInv, Shape, Flights, OnRoute, Sound, InOrder,
              Right, OfHop, HeaderOf, Hops
<1>. QED BY <1>1, <1>2, <1>3, <1>4, <1>5, <1>6 DEF Next, ProbeStep

(* Probes, registers and maps keep their shape, and what they say of a     *)
(* route is right.                                                         *)
THEOREM RouteKept == Spec => []RouteInv
BY InitRoute, NextRoute, PTL DEF Spec

LEMMA PathFollows == RouteInv => PathRecovered
<1>. SUFFICES ASSUME RouteInv, NEW f \in Flow, AtHost(f), IsRecoverable(f, Head(probes[f])),
                     NEW k \in Hop(f)
              PROVE  LET r == Recovered(f, Head(probes[f]), Len(Path[f]) - k)
                     IN  <<r.iport, r.deviceno, r.eport>> =
                           <<PortBefore(f, k), Path[f][k], PortAfter(f, k)>>
  BY DEF PathRecovered
<1>1. Head(probes[f]) = probes[f][1]
  BY AtHostFacts
<1>. QED BY <1>1, RecoveredFacts

(* A path that can be recovered is recovered right, whatever was lost, also *)
(* if it visits a switch twice (dint_receive.py:63-121).                   *)
THEOREM PathNeverWrong == Spec => []PathRecovered
BY RouteKept, PathFollows, PTL

-----------------------------------------------------------------------------
(* What a switch leaves out has been sent before, or is under way in front *)
(* of it.                                                                  *)

LEMMA SuppliedAfter ==
  ASSUME NEW f \in Flow
  PROVE  Supplied(f, probes[f])' <=>
           \A k \in Hop(f), x \in Field :
             /\ \A p \in DOMAIN probes'[f] : k <= Hops(probes'[f][p]) =>
                  Seen(DOMAIN (Memory(f, k)'), k, x, probes'[f], p)
             /\ RegisterOf(f, k)'.flow = f =>
                  Seen(DOMAIN (Memory(f, k)'), k, x, probes'[f], Len(probes'[f]))
BY DEF Supplied, Seen, Carries, HeaderOf, Hops

LEMMA ToldAfter ==
  ASSUME NEW f \in Flow
  PROVE  Told(f, probes[f])' <=>
           \A k \in 1 .. (Len(Path[f]) - 1) :
             /\ \A p \in DOMAIN probes'[f] : k <= Hops(probes'[f][p]) =>
                  Tells(known'[f][Len(Path[f]) - k], k, probes'[f], p)
             /\ RegisterOf(f, k)'.flow = f =>
                  \A p \in 0 .. Len(probes'[f]) : IsLast(probes'[f], k, p) =>
                    Holds(known'[f][Len(Path[f]) - k], k, probes'[f], p,
                          RegisterOf(f, k)'.last["timedelta"])
BY DEF Told, Tells, Holds, IsLast, HeaderOf, MeantOf, Hops

(* The registers of f after a step of one of its probes: only the one of   *)
(* the hop it passed is another.                                           *)
LEMMA OwnRegisters ==
  ASSUME NoLoops, RouteInv, NEW f \in Flow, NEW flight, NEW p, Ready(f, flight, p),
         NEW cur, Stepped(f, flight, p, cur), NEW j \in Hop(f)
  PROVE  LET k == Hops(flight[p]) + 1
         IN  IF j = k
             THEN RegisterOf(f, j)' = [flow |-> f, last |-> Output(f, Path[f][k], cur)]
             ELSE RegisterOf(f, j)' = RegisterOf(f, j)
<1>. DEFINE k == Hops(flight[p]) + 1
<1>1. k \in Hop(f)
  BY FlightFacts, PathFacts DEF Ready
<1>2. /\ Path[f][j] \in Switch /\ Path[f][k] \in Switch /\ index[f] \in Slot
      /\ dint_register \in [Switch -> [Slot -> Register]]
  BY <1>1, PathFacts, IndexInSlot DEF RouteInv, Shape
<1>3. j # k => Path[f][j] # Path[f][k]
  BY <1>1 DEF NoLoops
<1>4. dint_register' = [dint_register EXCEPT ![Path[f][k]][index[f]] =
                          [flow |-> f, last |-> Output(f, Path[f][k], cur)]]
  BY DEF Stepped
<1>5. index' = index
  BY DEF Stepped
<1>6. RegisterOf(f, j)' = dint_register'[Path[f][j]][index[f]]
  BY <1>5 DEF RegisterOf
<1>. HIDE DEF k
<1>7. j = k => dint_register'[Path[f][j]][index[f]] =
                 [flow |-> f, last |-> Output(f, Path[f][k], cur)]
  BY <1>2, <1>4
<1>8. j # k => dint_register'[Path[f][j]][index[f]] = dint_register[Path[f][j]][index[f]]
  BY <1>2, <1>3, <1>4
<1>. QED BY <1>6, <1>7, <1>8 DEF RegisterOf, k

(* Those of another flow: one that is still its own is as it was.          *)
LEMMA OtherRegisters ==
  ASSUME RouteInv, NEW f \in Flow, NEW flight, NEW p, Ready(f, flight, p),
         NEW cur, Stepped(f, flight, p, cur),
         NEW g \in Flow, g # f, NEW j \in Hop(g), RegisterOf(g, j)'.flow = g
  PROVE  RegisterOf(g, j)' = RegisterOf(g, j)
<1>. DEFINE s == Path[f][Hops(flight[p]) + 1]
<1>1. Hops(flight[p]) + 1 \in Hop(f)
  BY FlightFacts, PathFacts DEF Ready
<1>2. /\ Path[g][j] \in Switch /\ s \in Switch /\ index[f] \in Slot /\ index[g] \in Slot
      /\ dint_register \in [Switch -> [Slot -> Register]]
  BY <1>1, PathFacts, IndexInSlot DEF RouteInv, Shape
<1>3. /\ dint_register' = [dint_register EXCEPT ![s][index[f]] =
                             [flow |-> f, last |-> Output(f, s, cur)]]
      /\ index' = index
  BY DEF Stepped
<1>4. RegisterOf(g, j)' = dint_register'[Path[g][j]][index[g]]
  BY <1>3 DEF RegisterOf
<1>. HIDE DEF s
<1>5. CASE Path[g][j] = s /\ index[g] = index[f]
  <2>1. dint_register'[Path[g][j]][index[g]] = [flow |-> f, last |-> Output(f, s, cur)]
    BY <1>2, <1>3, <1>5
  <2>. QED BY <1>4, <2>1
<1>6. CASE ~(Path[g][j] = s /\ index[g] = index[f])
  <2>1. dint_register'[Path[g][j]][index[g]] = dint_register[Path[g][j]][index[g]]
    BY <1>2, <1>3, <1>6
  <2>. QED BY <1>4, <2>1 DEF RegisterOf
<1>. QED BY <1>5, <1>6

(* What a step of probe p leaves and changes of the flight.                *)
LEMMA SteppedCarries ==
  ASSUME RouteInv, NEW f \in Flow, NEW flight, NEW p, Ready(f, flight, p),
         NEW cur, Stepped(f, flight, p, cur)
  PROVE  LET after == probes'[f]
             k == Hops(flight[p]) + 1
         IN  /\ Len(flight) \in Nat /\ p \in 1 .. Len(flight) /\ k \in Hop(f)
             /\ DOMAIN flight = 1 .. Len(flight) /\ DOMAIN after = 1 .. Len(flight)
             /\ Len(after) = Len(flight)
             /\ Hops(flight[p]) \in Nat /\ Hops(after[p]) = k
             /\ \A q \in 1 .. Len(flight) :
                  /\ Hops(flight[q]) \in Nat /\ Hops(after[q]) \in Nat
                  /\ q < p => Hops(flight[q]) >= k
                  /\ q > p => Hops(flight[q]) < k
                  /\ q # p => Hops(after[q]) = Hops(flight[q])
                  /\ \A j \in Hop(f) : j <= Hops(flight[q]) =>
                       /\ HeaderOf(after[q], j) = HeaderOf(flight[q], j)
                       /\ MeantOf(after[q], j) = MeantOf(flight[q], j)
<1>. DEFINE after == probes'[f]
            k == Hops(flight[p]) + 1
<1>1. /\ Len(flight) \in Nat /\ p \in 1 .. Len(flight) /\ k \in Hop(f)
      /\ DOMAIN flight = 1 .. Len(flight)
      /\ \A q \in 1 .. Len(flight) : Hops(flight[q]) \in Nat
      /\ \A j \in Hop(f) : j \in Nat /\ j > 0
  BY FlightFacts, PathFacts DEF Ready
<1>2. /\ Len(after) = Len(flight) /\ DOMAIN after = 1 .. Len(flight)
  <2>1. after \in Seq(Probe) /\ Len(after) = Len(flight)
    BY DEF Stepped
  <2>. QED BY <2>1, LenProperties
<1>3. /\ \A q \in 1 .. Len(flight) : q # p => after[q] = flight[q]
      /\ Hops(after[p]) = k
      /\ \A j \in 1 .. Hops(flight[p]) :
           /\ HeaderOf(after[p], j) = HeaderOf(flight[p], j)
           /\ MeantOf(after[p], j) = MeantOf(flight[p], j)
  BY <1>1 DEF Stepped
<1>. HIDE DEF after
<1>4. ASSUME NEW q \in 1 .. Len(flight)
      PROVE  /\ Hops(after[q]) \in Nat
             /\ q < p => Hops(flight[q]) >= k
             /\ q > p => Hops(flight[q]) < k
             /\ q # p => Hops(after[q]) = Hops(flight[q])
  <2>1. q < p => Hops(flight[q]) > Hops(flight[p])
    BY <1>1 DEF Ready
  <2>2. q > p => Hops(flight[q]) <= Hops(flight[p])
    BY <1>1 DEF Ready, InOrder
  <2>3. q # p => Hops(after[q]) = Hops(flight[q])
    BY <1>3
  <2>. QED BY <1>1, <1>3, <2>1, <2>2, <2>3
<1>5. ASSUME NEW q \in 1 .. Len(flight), NEW j \in Hop(f), j <= Hops(flight[q])
      PROVE  /\ HeaderOf(after[q], j) = HeaderOf(flight[q], j)
             /\ MeantOf(after[q], j) = MeantOf(flight[q], j)
  <2>1. CASE q # p
    BY <1>3, <2>1
  <2>2. CASE q = p
    <3>1. j \in 1 .. Hops(flight[p])
      BY <1>1, <1>5, <2>2
    <3>. QED BY <1>3, <2>2, <3>1
  <2>. QED BY <2>1, <2>2
<1>. QED BY <1>1, <1>2, <1>3, <1>4, <1>5 DEF after

LEMMA HopFacts ==
  ASSUME NEW f \in Flow
  PROVE  /\ \A k \in Hop(f) : k \in Nat /\ k > 0 /\ k <= Len(Path[f])
         /\ \A k \in 1 .. (Len(Path[f]) - 1) : k \in Hop(f) /\ k # Len(Path[f])
         /\ Len(Path[f]) \in Nat
BY PathFacts

LEMMA SteppedSupplied ==
  ASSUME NoLoops, RouteInv, NEW f \in Flow, NEW flight, NEW p, Ready(f, flight, p),
         NEW cur \in [Field -> Nat], Stepped(f, flight, p, cur), Supplied(f, flight)
  PROVE  Supplied(f, probes[f])'
<1>. DEFINE after == probes'[f]
            k == Hops(flight[p]) + 1
            n == Len(flight)
            s == Path[f][k]
<1>1. /\ n \in Nat /\ p \in 1 .. n /\ k \in Hop(f) /\ k \in Nat
      /\ DOMAIN flight = 1 .. n /\ DOMAIN after = 1 .. n /\ Len(after) = n
      /\ Hops(flight[p]) \in Nat /\ Hops(flight[p]) < k /\ Hops(after[p]) = k
      /\ \A q \in 1 .. n :
           /\ Hops(flight[q]) \in Nat /\ Hops(after[q]) \in Nat
           /\ q > p => Hops(flight[q]) < k
           /\ q # p => Hops(after[q]) = Hops(flight[q])
           /\ \A j \in Hop(f) : j <= Hops(flight[q]) =>
                HeaderOf(after[q], j) = HeaderOf(flight[q], j)
  BY SteppedCarries, HopFacts
<1>2. /\ DOMAIN HeaderOf(after[p], k) = Field \ Saved(f, s, cur)
      /\ known' = known /\ tor' = tor
  BY DEF Stepped, receiver
<1>3. Saved(f, s, cur) # {} => RegisterOf(f, k).flow = f
  <2>1. s \in Switch
    BY <1>1, PathFacts
  <2>. QED BY <2>1, OutputFacts DEF RegisterOf, RouteInv
<1>4. \A j : Memory(f, j)' = Memory(f, j)
  BY <1>2 DEF Memory, Known
<1>5. \A j \in Hop(f) : j # k => RegisterOf(f, j)' = RegisterOf(f, j)
  BY OwnRegisters
<1>. HIDE DEF after, k, n, s
<1>6. ASSUME NEW q \in 1 .. n, NEW j \in Hop(f), NEW x, Carries(flight[q], j, x)
      PROVE  Carries(after[q], j, x)
  <2>1. j <= Hops(flight[q]) /\ x \in DOMAIN HeaderOf(after[q], j) /\ j \in Nat
    BY <1>1, <1>6, HopFacts DEF Carries
  <2>2. j <= Hops(after[q])
    BY <1>1, <2>1, SMTT(40)
  <2>. QED BY <2>1, <2>2 DEF Carries
<1>7. ASSUME NEW r \in 0 .. n, NEW j \in Hop(f), NEW x, NEW D, Seen(D, j, x, flight, r)
      PROVE  Seen(D, j, x, after, r)
  <2>1. \A q \in 1 .. r : q \in 1 .. n
    BY <1>1
  <2>. QED BY <1>6, <1>7, <2>1 DEF Seen
<1>8. ASSUME NEW x \in Field
      PROVE  Seen(DOMAIN Memory(f, k), k, x, after, p)
  <2>1. CASE x \notin Saved(f, s, cur)
    <3>1. Carries(after[p], k, x)
      BY <1>1, <1>2, <2>1 DEF Carries
    <3>2. p \in 1 .. p
      BY <1>1
    <3>. QED BY <3>1, <3>2 DEF Seen
  <2>2. CASE x \in Saved(f, s, cur)
    <3>1. Seen(DOMAIN Memory(f, k), k, x, flight, n)
      BY <1>1, <1>3, <2>2 DEF Supplied, n
    <3>2. CASE x \in DOMAIN Memory(f, k)
      BY <3>2 DEF Seen
    <3>3. ASSUME NEW q \in 1 .. n, Carries(flight[q], k, x)
          PROVE  Seen(DOMAIN Memory(f, k), k, x, after, p)
      <4>1. k <= Hops(flight[q])
        BY <3>3 DEF Carries
      <4>2. ~(q > p) /\ q # p
        BY <1>1, <4>1
      <4>3. q \in 1 .. p
        BY <1>1, <4>2
      <4>. QED BY <1>1, <1>6, <3>3, <4>3 DEF Seen
    <3>. QED BY <3>1, <3>2, <3>3 DEF Seen
  <2>. QED BY <2>1, <2>2
<1>9. ASSUME NEW j \in Hop(f), NEW x \in Field, NEW r \in 1 .. n, j <= Hops(after[r])
      PROVE  Seen(DOMAIN Memory(f, j), j, x, after, r)
  <2>1. CASE r = p /\ j = k
    BY <1>8, <2>1
  <2>2. CASE ~(r = p /\ j = k)
    <3>1. j <= Hops(flight[r])
      BY <1>1, <1>9, <2>2, HopFacts DEF k
    <3>2. Seen(DOMAIN Memory(f, j), j, x, flight, r)
      BY <1>1, <3>1 DEF Supplied
    <3>3. r \in 0 .. n
      BY <1>1
    <3>. QED BY <1>7, <3>2, <3>3
  <2>. QED BY <2>1, <2>2
<1>10. ASSUME NEW j \in Hop(f), NEW x \in Field, RegisterOf(f, j)'.flow = f
       PROVE  Seen(DOMAIN Memory(f, j), j, x, after, n)
  <2>1. CASE j = k
    <3>1. Seen(DOMAIN Memory(f, j), j, x, after, p)
      BY <1>8, <2>1
    <3>2. \A q \in 1 .. p : q \in 1 .. n
      BY <1>1
    <3>. QED BY <3>1, <3>2 DEF Seen
  <2>2. CASE j # k
    <3>1. Seen(DOMAIN Memory(f, j), j, x, flight, n)
      BY <1>5, <1>10, <2>2 DEF Supplied, n
    <3>2. n \in 0 .. n
      BY <1>1
    <3>. QED BY <1>7, <3>1, <3>2
  <2>. QED BY <2>1, <2>2
<1>11. \A j \in Hop(f), x \in Field :
         /\ \A r \in DOMAIN after : j <= Hops(after[r]) =>
              Seen(DOMAIN (Memory(f, j)'), j, x, after, r)
         /\ RegisterOf(f, j)'.flow = f =>
              Seen(DOMAIN (Memory(f, j)'), j, x, after, Len(after))
  BY <1>1, <1>4, <1>9, <1>10
<1>. QED BY <1>11, SuppliedAfter DEF after

(* A probe that passes hop k without a latency finds its switch with that  *)
(* of the probe before.                                                    *)
LEMMA SteppedTold ==
  ASSUME NoLoops, RouteInv, NEW f \in Flow, NEW flight, NEW p, Ready(f, flight, p),
         NEW cur \in [Field -> Nat], Stepped(f, flight, p, cur), Told(f, flight)
  PROVE  Told(f, probes[f])'
<1>. DEFINE after == probes'[f]
            k == Hops(flight[p]) + 1
            n == Len(flight)
            s == Path[f][k]
            Map(j) == known[f][Len(Path[f]) - j]
<1>1. /\ n \in Nat /\ p \in 1 .. n /\ k \in Hop(f) /\ k \in Nat
      /\ DOMAIN flight = 1 .. n /\ DOMAIN after = 1 .. n /\ Len(after) = n
      /\ Hops(flight[p]) \in Nat /\ k = Hops(flight[p]) + 1 /\ Hops(after[p]) = k
      /\ \A q \in 1 .. n :
           /\ Hops(flight[q]) \in Nat /\ Hops(after[q]) \in Nat
           /\ q < p => Hops(flight[q]) >= k
           /\ q > p => Hops(flight[q]) < k
           /\ q # p => Hops(after[q]) = Hops(flight[q])
  BY SteppedCarries, HopFacts
<1>2. \A q \in 1 .. n, j \in Hop(f) : j <= Hops(flight[q]) =>
        /\ HeaderOf(after[q], j) = HeaderOf(flight[q], j)
        /\ MeantOf(after[q], j) = MeantOf(flight[q], j)
  BY SteppedCarries
<1>3. /\ DOMAIN HeaderOf(after[p], k) = Field \ Saved(f, s, cur)
      /\ \A x \in Field \ Saved(f, s, cur) : HeaderOf(after[p], k)[x] = cur[x]
      /\ MeantOf(after[p], k) = Output(f, s, cur)["timedelta"]
      /\ known' = known
  BY DEF Stepped, receiver
<1>4. /\ Saved(f, s, cur) # {} => RegisterOf(f, k).flow = f
      /\ "timedelta" \in Saved(f, s, cur) =>
           Output(f, s, cur)["timedelta"] = RegisterOf(f, k).last["timedelta"]
      /\ "timedelta" \notin Saved(f, s, cur) => Output(f, s, cur)["timedelta"] = cur["timedelta"]
  <2>1. s \in Switch
    BY <1>1, PathFacts
  <2>. QED BY <2>1, OutputFacts DEF RegisterOf, RouteInv
<1>5. /\ \A j \in Hop(f) : j # k => RegisterOf(f, j)' = RegisterOf(f, j)
      /\ RegisterOf(f, k)' = [flow |-> f, last |-> Output(f, s, cur)]
  BY <1>1, OwnRegisters
<1>6. \A q, r \in 1 .. n : q < r => Hops(flight[r]) <= Hops(flight[q])
  BY <1>1 DEF Ready, InOrder
<1>. HIDE DEF after, k, n, s, Map
<1>7. ASSUME NEW j \in Hop(f), NEW r \in 0 .. n, NEW v, r # 0 => j <= Hops(flight[r]),
             Holds(Map(j), j, flight, r, v)
      PROVE  Holds(Map(j), j, after, r, v)
  <2>1. CASE r = 0
    BY <1>7, <2>1 DEF Holds
  <2>2. CASE r # 0
    <3>1. r \in 1 .. n
      BY <1>1, <2>2
    <3>. QED BY <1>2, <1>7, <2>2, <3>1 DEF Holds
  <2>. QED BY <2>1, <2>2
<1>8. ASSUME k # Len(Path[f])
      PROVE  Tells(Map(k), k, after, p)
  <2>1. CASE "timedelta" \notin Saved(f, s, cur)
    BY <1>3, <1>4, <2>1 DEF Tells, Field
  <2>2. CASE "timedelta" \in Saved(f, s, cur)
    <3>1. RegisterOf(f, k).flow = f /\ k \in 1 .. (Len(Path[f]) - 1) /\ p - 1 \in 0 .. n
      BY <1>1, <1>4, <1>8, <2>2, HopFacts
    <3>2. IsLast(flight, k, p - 1)
      <4>1. p - 1 # 0 => p - 1 \in 1 .. n /\ p - 1 < p
        BY <1>1
      <4>2. p - 1 + 1 = p /\ Hops(flight[p]) < k
        BY <1>1
      <4>3. p - 1 # 0 => k <= Hops(flight[p - 1])
        BY <1>1, <4>1
      <4>. QED BY <4>2, <4>3 DEF IsLast
    <3>3. Holds(Map(k), k, flight, p - 1, RegisterOf(f, k).last["timedelta"])
      BY <3>1, <3>2 DEF Told, Map, n
    <3>4. Holds(Map(k), k, after, p - 1, RegisterOf(f, k).last["timedelta"])
      BY <1>1, <1>7, <3>1, <3>2, <3>3 DEF IsLast
    <3>5. "timedelta" \notin DOMAIN HeaderOf(after[p], k)
      BY <1>3, <2>2
    <3>. QED BY <1>3, <1>4, <2>2, <3>4, <3>5 DEF Tells
  <2>. QED BY <2>1, <2>2
<1>9. ASSUME NEW j \in 1 .. (Len(Path[f]) - 1), NEW r \in 1 .. n, j <= Hops(after[r])
      PROVE  Tells(Map(j), j, after, r)
  <2>1. j \in Hop(f) /\ j \in Nat /\ j # Len(Path[f])
    BY HopFacts
  <2>2. CASE r = p /\ j = k
    BY <1>8, <2>1, <2>2
  <2>3. CASE ~(r = p /\ j = k)
    <3>1. j <= Hops(flight[r])
      BY <1>1, <1>9, <2>1, <2>3
    <3>2. Tells(Map(j), j, flight, r)
      BY <1>1, <3>1 DEF Told, Map
    <3>3. /\ HeaderOf(after[r], j) = HeaderOf(flight[r], j)
          /\ MeantOf(after[r], j) = MeantOf(flight[r], j)
      BY <1>2, <2>1, <3>1
    <3>4. CASE "timedelta" \in DOMAIN HeaderOf(flight[r], j)
      BY <3>2, <3>3, <3>4 DEF Tells
    <3>5. CASE "timedelta" \notin DOMAIN HeaderOf(flight[r], j)
      <4>1. Holds(Map(j), j, flight, r - 1, MeantOf(flight[r], j))
        BY <3>2, <3>5 DEF Tells
      <4>2. r - 1 \in 0 .. n /\ (r - 1 # 0 => r - 1 \in 1 .. n /\ r - 1 < r)
        BY <1>1
      <4>3. r - 1 # 0 => j <= Hops(flight[r - 1])
        <5>1. r - 1 # 0 => Hops(flight[r]) <= Hops(flight[r - 1]) /\ Hops(flight[r - 1]) \in Nat
          BY <1>1, <1>6, <4>2
        <5>. QED BY <1>1, <2>1, <3>1, <5>1
      <4>4. Holds(Map(j), j, after, r - 1, MeantOf(flight[r], j))
        BY <1>7, <2>1, <4>1, <4>2, <4>3
      <4>. QED BY <3>3, <3>5, <4>4 DEF Tells
    <3>. QED BY <3>4, <3>5
  <2>. QED BY <2>2, <2>3
<1>10. ASSUME NEW j \in 1 .. (Len(Path[f]) - 1), NEW r \in 0 .. n,
              RegisterOf(f, j)'.flow = f, IsLast(after, j, r)
       PROVE  Holds(Map(j), j, after, r, RegisterOf(f, j)'.last["timedelta"])
  <2>1. j \in Hop(f) /\ j \in Nat
    BY HopFacts
  <2>2. /\ r # 0 => r \in 1 .. n /\ j <= Hops(after[r])
        /\ r # n => r + 1 \in 1 .. n /\ Hops(after[r + 1]) < j
    BY <1>1, <1>10 DEF IsLast
  <2>3. CASE j = k
    <3>1. ~(r > p)
      BY <1>1, <2>2, <2>3
    <3>2. ~(r < p)
      <4>1. SUFFICES ASSUME r < p PROVE FALSE
        OBVIOUS
      <4>2. r # n /\ (r + 1 = p \/ r + 1 < p)
        <5>1. n \in Int /\ p \in Int /\ r \in Int /\ p <= n
          BY <1>1
        <5>. QED BY <4>1, <5>1
      <4>3. r + 1 \in 1 .. n /\ Hops(after[r + 1]) < k
        BY <2>2, <2>3, <4>2
      <4>4. Hops(after[r + 1]) \in Nat /\ Hops(after[r + 1]) >= k
        BY <1>1, <4>2, <4>3
      <4>. QED BY <1>1, <4>3, <4>4
    <3>3. r = p
      BY <1>1, <3>1, <3>2
    <3>. QED BY <1>1, <1>3, <1>5, <2>3, <3>3 DEF Holds
  <2>4. CASE j # k
    <3>1. r # 0 => j <= Hops(flight[r])
      BY <1>1, <2>1, <2>2, <2>4, SMTT(40)
    <3>2. r # n => Hops(flight[r + 1]) < j
      BY <1>1, <2>1, <2>2, SMTT(40)
    <3>3. IsLast(flight, j, r)
      BY <3>1, <3>2 DEF IsLast, n
    <3>4. RegisterOf(f, j)' = RegisterOf(f, j)
      BY <1>5, <2>1, <2>4
    <3>5. Holds(Map(j), j, flight, r, RegisterOf(f, j).last["timedelta"])
      BY <1>10, <3>3, <3>4 DEF Told, Map, n
    <3>. QED BY <1>7, <2>1, <3>1, <3>4, <3>5
  <2>. QED BY <2>3, <2>4
<1>11. \A j \in 1 .. (Len(Path[f]) - 1) :
         /\ \A r \in DOMAIN after : j <= Hops(after[r]) =>
              Tells(known'[f][Len(Path[f]) - j], j, after, r)
         /\ RegisterOf(f, j)'.flow = f =>
              \A r \in 0 .. Len(after) : IsLast(after, j, r) =>
                Holds(known'[f][Len(Path[f]) - j], j, after, r, RegisterOf(f, j)'.last["timedelta"])
  BY <1>1, <1>3, <1>9, <1>10 DEF Map
<1>. QED BY <1>11, ToldAfter DEF after

(* A step of f leaves another flow what it has.                            *)
LEMMA OtherStepped ==
  ASSUME RouteInv, NEW f \in Flow, NEW flight, NEW p, Ready(f, flight, p),
         NEW cur, Stepped(f, flight, p, cur),
         NEW g \in Flow, g # f, Supplied(g, probes[g]), Told(g, probes[g])
  PROVE  Supplied(g, probes[g])' /\ Told(g, probes[g])'
<1>1. /\ probes'[g] = probes[g] /\ known' = known /\ tor' = tor
  BY DEF Stepped, receiver
<1>2. \A j : Memory(g, j)' = Memory(g, j)
  BY <1>1 DEF Memory, Known
<1>3. \A j \in Hop(g) : RegisterOf(g, j)'.flow = g => RegisterOf(g, j)' = RegisterOf(g, j)
  BY OtherRegisters
<1>4. \A j \in 1 .. (Len(Path[g]) - 1) : j \in Hop(g)
  BY HopFacts
<1>5. Supplied(g, probes[g])'
  <2>1. \A j \in Hop(g), x \in Field :
          /\ \A r \in DOMAIN probes'[g] : j <= Hops(probes'[g][r]) =>
               Seen(DOMAIN (Memory(g, j)'), j, x, probes'[g], r)
          /\ RegisterOf(g, j)'.flow = g =>
               Seen(DOMAIN (Memory(g, j)'), j, x, probes'[g], Len(probes'[g]))
    BY <1>1, <1>2, <1>3 DEF Supplied
  <2>. QED BY <2>1, SuppliedAfter
<1>6. Told(g, probes[g])'
  <2>1. \A j \in 1 .. (Len(Path[g]) - 1) :
          /\ \A r \in DOMAIN probes'[g] : j <= Hops(probes'[g][r]) =>
               Tells(known'[g][Len(Path[g]) - j], j, probes'[g], r)
          /\ RegisterOf(g, j)'.flow = g =>
               \A r \in 0 .. Len(probes'[g]) : IsLast(probes'[g], j, r) =>
                 Holds(known'[g][Len(Path[g]) - j], j, probes'[g], r,
                       RegisterOf(g, j)'.last["timedelta"])
    BY <1>1, <1>3, <1>4 DEF Told
  <2>. QED BY <2>1, ToldAfter
<1>. QED BY <1>5, <1>6

(* A probe that is being sent has no header yet.                           *)
LEMMA WithNewMemory ==
  ASSUME RouteInv, NEW f \in Flow, Supplied(f, probes[f]), Told(f, probes[f])
  PROVE  Supplied(f, WithNew(f)) /\ Told(f, WithNew(f))
<1>. DEFINE old == probes[f]
            new == WithNew(f)
            n == Len(old)
<1>1. /\ n \in Nat /\ Len(new) = n + 1 /\ DOMAIN new = 1 .. (n + 1) /\ DOMAIN old = 1 .. n
      /\ \A q \in 1 .. n : new[q] = old[q]
      /\ Hops(new[n + 1]) = 0
  BY WithNewFacts
<1>. HIDE DEF old, new, n
<1>2. ASSUME NEW k \in Nat, k > 0, NEW p \in 1 .. (n + 1), k <= Hops(new[p])
      PROVE  p \in 1 .. n /\ new[p] = old[p]
  <2>1. p # n + 1
    BY <1>1, <1>2
  <2>2. p \in 1 .. n
    BY <1>1, <2>1
  <2>. QED BY <1>1, <2>2
<1>3. ASSUME NEW D, NEW k, NEW x, NEW p \in 0 .. n, Seen(D, k, x, old, p)
      PROVE  Seen(D, k, x, new, p)
  <2>1. \A q \in 1 .. p : new[q] = old[q]
    BY <1>1
  <2>. QED BY <1>3, <2>1 DEF Seen
<1>4. Supplied(f, new)
  <2>. SUFFICES ASSUME NEW k \in Hop(f), NEW x \in Field
                PROVE  /\ \A p \in DOMAIN new : k <= Hops(new[p]) =>
                            Seen(DOMAIN Memory(f, k), k, x, new, p)
                       /\ RegisterOf(f, k).flow = f =>
                            Seen(DOMAIN Memory(f, k), k, x, new, Len(new))
    BY DEF Supplied
  <2>1. k \in Nat /\ k > 0
    BY HopFacts
  <2>2. ASSUME NEW p \in DOMAIN new, k <= Hops(new[p])
        PROVE  Seen(DOMAIN Memory(f, k), k, x, new, p)
    <3>1. p \in 1 .. n /\ new[p] = old[p] /\ p \in 0 .. n
      BY <1>1, <1>2, <2>1, <2>2
    <3>2. Seen(DOMAIN Memory(f, k), k, x, old, p)
      BY <1>1, <2>2, <3>1 DEF Supplied, old
    <3>. QED BY <1>3, <3>1, <3>2
  <2>3. ASSUME RegisterOf(f, k).flow = f
        PROVE  Seen(DOMAIN Memory(f, k), k, x, new, Len(new))
    <3>1. Seen(DOMAIN Memory(f, k), k, x, old, n) /\ n \in 0 .. n
      BY <1>1, <2>3 DEF Supplied, old, n
    <3>2. Seen(DOMAIN Memory(f, k), k, x, new, n)
      BY <1>3, <3>1
    <3>3. \A q \in 1 .. n : q \in 1 .. (n + 1)
      BY <1>1
    <3>. QED BY <1>1, <3>2, <3>3 DEF Seen
  <2>. QED BY <2>2, <2>3
<1>5. Told(f, new)
  <2>. SUFFICES ASSUME NEW k \in 1 .. (Len(Path[f]) - 1)
                PROVE  LET map == known[f][Len(Path[f]) - k]
                       IN  /\ \A p \in DOMAIN new : k <= Hops(new[p]) => Tells(map, k, new, p)
                           /\ RegisterOf(f, k).flow = f =>
                                \A p \in 0 .. Len(new) : IsLast(new, k, p) =>
                                  Holds(map, k, new, p, RegisterOf(f, k).last["timedelta"])
    BY DEF Told
  <2>. DEFINE map == known[f][Len(Path[f]) - k]
  <2>1. k \in Nat /\ k > 0
    BY HopFacts
  <2>2. ASSUME NEW p \in 0 .. n, NEW v, Holds(map, k, old, p, v)
        PROVE  Holds(map, k, new, p, v)
    <3>1. p # 0 => p \in 1 .. n
      BY <1>1
    <3>. QED BY <1>1, <2>2, <3>1 DEF Holds
  <2>3. ASSUME NEW p \in DOMAIN new, k <= Hops(new[p])
        PROVE  Tells(map, k, new, p)
    <3>1. p \in 1 .. n /\ new[p] = old[p] /\ p - 1 \in 0 .. n
      BY <1>1, <1>2, <2>1, <2>3
    <3>2. Tells(map, k, old, p)
      BY <1>1, <2>3, <3>1 DEF Told, old
    <3>. QED BY <2>2, <3>1, <3>2 DEF Tells
  <2>4. ASSUME RegisterOf(f, k).flow = f, NEW p \in 0 .. Len(new), IsLast(new, k, p)
        PROVE  Holds(map, k, new, p, RegisterOf(f, k).last["timedelta"])
    <3>1. p \in 0 .. n /\ (p # 0 => new[p] = old[p])
      <4>1. p # 0 => p \in 1 .. (n + 1) /\ k <= Hops(new[p])
        BY <1>1, <2>4 DEF IsLast
      <4>2. p # 0 => p \in 1 .. n /\ new[p] = old[p]
        BY <1>2, <2>1, <4>1
      <4>. QED BY <1>1, <4>2
    <3>2. IsLast(old, k, p)
      <4>1. p # 0 => k <= Hops(old[p])
        BY <2>4, <3>1 DEF IsLast
      <4>2. p # n => p + 1 \in 1 .. n /\ p # Len(new)
        BY <1>1, <3>1
      <4>3. p # n => Hops(old[p + 1]) < k
        BY <1>1, <2>4, <4>2 DEF IsLast
      <4>. QED BY <4>1, <4>3 DEF IsLast, n
    <3>3. Holds(map, k, old, p, RegisterOf(f, k).last["timedelta"])
      BY <2>4, <3>1, <3>2 DEF Told, old, n
    <3>. QED BY <2>2, <3>1, <3>3
  <2>. QED BY <2>3, <2>4
<1>. QED BY <1>4, <1>5 DEF new

LEMMA EgressMemory ==
  ASSUME NoLoops, RouteInv, MemoryInv, NEW f \in Flow, NEW flight, NEW p,
         Ready(f, flight, p), Egress(f, flight, p),
         f \notin harmed => Supplied(f, flight) /\ Told(f, flight)
  PROVE  MemoryInv'
<1>. DEFINE k == Hops(flight[p]) + 1
<1>1. PICK d \in Nat : Stepped(f, flight, p, Measured(f, k, d))
  BY ReadyStep
<1>2. Measured(f, k, d) \in [Field -> Nat]
  <2>1. k \in Hop(f)
    BY FlightFacts, PathFacts DEF Ready
  <2>. QED BY <2>1, MeasuredFacts
<1>3. harmed' = harmed
  BY <1>1 DEF Stepped
<1>4. ASSUME NEW g \in Flow \ harmed
      PROVE  Supplied(g, probes[g])' /\ Told(g, probes[g])'
  <2>1. CASE g = f
    BY <1>1, <1>2, <2>1, SteppedSupplied, SteppedTold
  <2>2. CASE g # f
    BY <1>1, <2>2, OtherStepped DEF MemoryInv
  <2>. QED BY <2>1, <2>2
<1>. QED BY <1>3, <1>4 DEF MemoryInv

-----------------------------------------------------------------------------
(* A flow that lost none can be recovered, so what its oldest probe        *)
(* carries goes into the maps.                                             *)

LEMMA Recoverable ==
  ASSUME RouteInv, NEW f \in Flow, AtHost(f), Supplied(f, probes[f])
  PROVE  IsRecoverable(f, probes[f][1])
<1>. DEFINE probe == probes[f][1]
            n == Len(Path[f])
<1>1. /\ 1 \in DOMAIN probes[f] /\ Hops(probe) = n
      /\ \A k \in Hop(f) : HeaderOf(probe, k) = probe.headers[(n - k) + 1]
      /\ \A i \in DOMAIN known[f] : n - i \in Hop(f) /\ n - (n - i) = i
  BY AtHostFacts
<1>2. \A k \in Hop(f) : k \in Nat /\ k <= n
  BY HopFacts
<1>3. ASSUME NEW i \in DOMAIN known[f], NEW x \in Field
      PROVE  x \in DOMAIN probe.headers[i + 1] \/ x \in DOMAIN Known(f, i)
  <2>. DEFINE k == n - i
  <2>1. k \in Hop(f) /\ n - k = i /\ HeaderOf(probe, k) = probe.headers[i + 1]
    BY <1>1
  <2>2. Seen(DOMAIN Memory(f, k), k, x, probes[f], 1)
    BY <1>1, <1>2, <2>1 DEF Supplied
  <2>3. \A q \in 1 .. 1 : q = 1
    OBVIOUS
  <2>4. x \in DOMAIN Memory(f, k) \/ x \in DOMAIN HeaderOf(probe, k)
    BY <2>2, <2>3 DEF Seen, Carries
  <2>5. Memory(f, k) = Known(f, i)
    BY <2>1 DEF Memory
  <2>. QED BY <2>1, <2>4, <2>5
<1>. QED BY <1>3 DEF IsRecoverable

LEMMA ReceiveGrows ==
  ASSUME RouteInv, NEW f \in Flow, Receive(f), IsRecoverable(f, probes[f][1])
  PROVE  /\ \A g \in Flow : \A k \in Hop(g) :
              DOMAIN Memory(g, k) \subseteq DOMAIN (Memory(g, k)')
         /\ \A k \in Hop(f) :
              DOMAIN HeaderOf(probes[f][1], k) \subseteq DOMAIN (Memory(f, k)')
<1>1. RouteInv'
  BY ReceiveRoute
<1>2. /\ \A g \in Flow : g # f => known'[g] = known[g]
      /\ \A k \in Hop(f) : DOMAIN known'[f][Len(Path[f]) - k] =
           DOMAIN known[f][Len(Path[f]) - k] \cup DOMAIN HeaderOf(probes[f][1], k)
      /\ DOMAIN tor' = DOMAIN tor \cup (DOMAIN HeaderOf(probes[f][1], Len(Path[f])) \ {"iport"})
  BY ReceivedFacts
<1>3. ASSUME NEW g \in Flow, NEW k \in Hop(g)
      PROVE  /\ DOMAIN Memory(g, k) = IF k # Len(Path[g]) THEN DOMAIN known[g][Len(Path[g]) - k]
                ELSE DOMAIN tor \cup (DOMAIN known[g][Len(Path[g]) - k] \cap {"iport"})
             /\ DOMAIN (Memory(g, k)') =
                IF k # Len(Path[g]) THEN DOMAIN known'[g][Len(Path[g]) - k]
                ELSE DOMAIN tor' \cup (DOMAIN known'[g][Len(Path[g]) - k] \cap {"iport"})
  <2>1. k \in Nat /\ k > 0 /\ k <= Len(Path[g]) /\ Len(Path[g]) \in Nat
    BY HopFacts
  <2>2. k # Len(Path[g]) => Len(Path[g]) - k > 0
    BY <2>1
  <2>3. k = Len(Path[g]) => Len(Path[g]) - k = 0 /\ ~(Len(Path[g]) - k > 0)
    BY <2>1
  <2>. QED BY <2>2, <2>3 DEF Memory, Known
<1>4. ASSUME NEW g \in Flow, NEW k \in Hop(g)
      PROVE  DOMAIN known[g][Len(Path[g]) - k] \subseteq DOMAIN known'[g][Len(Path[g]) - k]
  BY <1>2
<1>5. ASSUME NEW g \in Flow, NEW k \in Hop(g)
      PROVE  DOMAIN Memory(g, k) \subseteq DOMAIN (Memory(g, k)')
  <2>1. CASE k # Len(Path[g])
    <3>1. /\ DOMAIN Memory(g, k) = DOMAIN known[g][Len(Path[g]) - k]
          /\ DOMAIN (Memory(g, k)') = DOMAIN known'[g][Len(Path[g]) - k]
      BY <1>3, <2>1
    <3>. QED BY <1>4, <3>1
  <2>2. CASE k = Len(Path[g])
    <3>1. /\ DOMAIN Memory(g, k) =
               DOMAIN tor \cup (DOMAIN known[g][Len(Path[g]) - k] \cap {"iport"})
          /\ DOMAIN (Memory(g, k)') =
               DOMAIN tor' \cup (DOMAIN known'[g][Len(Path[g]) - k] \cap {"iport"})
      BY <1>3, <2>2
    <3>2. DOMAIN tor \subseteq DOMAIN tor'
      BY <1>2
    <3>. QED BY <1>4, <3>1, <3>2
  <2>. QED BY <2>1, <2>2
<1>6. ASSUME NEW k \in Hop(f)
      PROVE  DOMAIN HeaderOf(probes[f][1], k) \subseteq DOMAIN (Memory(f, k)')
  <2>1. DOMAIN HeaderOf(probes[f][1], k) \subseteq DOMAIN known'[f][Len(Path[f]) - k]
    BY <1>2
  <2>2. CASE k # Len(Path[f])
    <3>1. DOMAIN (Memory(f, k)') = DOMAIN known'[f][Len(Path[f]) - k]
      BY <1>3, <2>2
    <3>. QED BY <2>1, <3>1
  <2>3. CASE k = Len(Path[f])
    <3>1. DOMAIN (Memory(f, k)') =
            DOMAIN tor' \cup (DOMAIN known'[f][Len(Path[f]) - k] \cap {"iport"})
      BY <1>3, <2>3
    <3>2. DOMAIN HeaderOf(probes[f][1], k) \ {"iport"} \subseteq DOMAIN tor'
      BY <1>2, <2>3
    <3>. QED BY <2>1, <3>1, <3>2
  <2>. QED BY <2>2, <2>3
<1>. QED BY <1>5, <1>6

(* The flow itself: what the oldest probe carried is known now.            *)
LEMMA ReceiveSupplied ==
  ASSUME RouteInv, NEW f \in Flow, Receive(f), Supplied(f, probes[f])
  PROVE  Supplied(f, probes[f])'
<1>. DEFINE old == probes[f]
            after == probes'[f]
            n == Len(old)
<1>1. /\ n \in Nat /\ n > 0 /\ DOMAIN old = 1 .. n /\ DOMAIN after = 1 .. (n - 1)
      /\ Len(after) = n - 1
      /\ \A i \in 1 .. (n - 1) : after[i] = old[i + 1]
  <2>1. Removed(f, 1) /\ 1 \in DOMAIN probes[f] /\ old \in Seq(Probe)
    BY ReceiveRemoves DEF RouteInv, Shape
  <2>2. n \in Nat /\ DOMAIN old = 1 .. n /\ n > 0
    BY <2>1, LenProperties
  <2>. QED BY <2>1, <2>2, LenProperties DEF Removed
<1>2. IsRecoverable(f, old[1])
  BY Recoverable DEF Receive
<1>3. /\ \A k \in Hop(f) : /\ DOMAIN Memory(f, k) \subseteq DOMAIN (Memory(f, k)')
                          /\ DOMAIN HeaderOf(old[1], k) \subseteq DOMAIN (Memory(f, k)')
      /\ \A k : RegisterOf(f, k)' = RegisterOf(f, k)
  <2>1. UNCHANGED switches
    BY <1>2, ReceivedFacts
  <2>2. \A k : RegisterOf(f, k)' = RegisterOf(f, k)
    BY <2>1 DEF RegisterOf, switches
  <2>. QED BY <1>2, <2>2, ReceiveGrows
<1>. HIDE DEF old, after, n
<1>4. ASSUME NEW k \in Hop(f), NEW x \in Field, NEW r \in 0 .. (n - 1),
             Seen(DOMAIN Memory(f, k), k, x, old, r + 1)
      PROVE  Seen(DOMAIN (Memory(f, k)'), k, x, after, r)
  <2>1. CASE x \in DOMAIN Memory(f, k)
    BY <1>3, <2>1 DEF Seen
  <2>2. ASSUME NEW q \in 1 .. (r + 1), Carries(old[q], k, x)
        PROVE  Seen(DOMAIN (Memory(f, k)'), k, x, after, r)
    <3>1. CASE q = 1
      BY <1>3, <2>2, <3>1 DEF Seen, Carries
    <3>2. CASE q # 1
      <4>1. q - 1 \in 1 .. r /\ q - 1 \in 1 .. (n - 1) /\ (q - 1) + 1 = q
        BY <1>1, <3>2
      <4>2. after[q - 1] = old[q]
        BY <1>1, <4>1
      <4>. QED BY <2>2, <4>1, <4>2 DEF Seen
    <3>. QED BY <3>1, <3>2
  <2>. QED BY <1>4, <2>1, <2>2 DEF Seen
<1>5. ASSUME NEW k \in Hop(f), NEW x \in Field, NEW r \in 1 .. (n - 1), k <= Hops(after[r])
      PROVE  Seen(DOMAIN (Memory(f, k)'), k, x, after, r)
  <2>1. r + 1 \in 1 .. n /\ after[r] = old[r + 1] /\ r \in 0 .. (n - 1)
    BY <1>1
  <2>2. Seen(DOMAIN Memory(f, k), k, x, old, r + 1)
    BY <1>1, <1>5, <2>1 DEF Supplied, old
  <2>. QED BY <1>4, <2>1, <2>2
<1>6. ASSUME NEW k \in Hop(f), NEW x \in Field, RegisterOf(f, k).flow = f
      PROVE  Seen(DOMAIN (Memory(f, k)'), k, x, after, n - 1)
  <2>1. n - 1 \in 0 .. (n - 1) /\ (n - 1) + 1 = n
    BY <1>1
  <2>2. Seen(DOMAIN Memory(f, k), k, x, old, n)
    BY <1>6 DEF Supplied, old, n
  <2>. QED BY <1>4, <2>1, <2>2
<1>7. \A k \in Hop(f), x \in Field :
        /\ \A p \in DOMAIN after : k <= Hops(after[p]) =>
             Seen(DOMAIN (Memory(f, k)'), k, x, after, p)
        /\ RegisterOf(f, k)'.flow = f =>
             Seen(DOMAIN (Memory(f, k)'), k, x, after, Len(after))
  BY <1>1, <1>3, <1>5, <1>6
<1>. QED BY <1>7, SuppliedAfter DEF after

LEMMA ReceiveTold ==
  ASSUME RouteInv, NEW f \in Flow, Receive(f), Supplied(f, probes[f]), Told(f, probes[f])
  PROVE  Told(f, probes[f])'
<1>. DEFINE old == probes[f]
            after == probes'[f]
            n == Len(old)
            Map(k) == known[f][Len(Path[f]) - k]
            New(k) == known'[f][Len(Path[f]) - k]
<1>1. /\ n \in Nat /\ n > 0 /\ DOMAIN old = 1 .. n /\ DOMAIN after = 1 .. (n - 1)
      /\ Len(after) = n - 1
      /\ \A i \in 1 .. (n - 1) : after[i] = old[i + 1]
  <2>1. Removed(f, 1) /\ 1 \in DOMAIN probes[f] /\ old \in Seq(Probe)
    BY ReceiveRemoves DEF RouteInv, Shape
  <2>2. n \in Nat /\ DOMAIN old = 1 .. n /\ n > 0
    BY <2>1, LenProperties
  <2>. QED BY <2>1, <2>2, LenProperties DEF Removed
<1>2. AtHost(f) /\ IsRecoverable(f, old[1])
  BY Recoverable DEF Receive
<1>3. Hops(old[1]) = Len(Path[f])
  BY <1>2, AtHostFacts
<1>4. /\ \A k \in Hop(f) :
           /\ DOMAIN New(k) = DOMAIN Map(k) \cup DOMAIN HeaderOf(old[1], k)
           /\ "timedelta" \in DOMAIN HeaderOf(old[1], k) =>
                New(k)["timedelta"] = HeaderOf(old[1], k)["timedelta"] * Scale
           /\ "timedelta" \in DOMAIN Map(k) /\ "timedelta" \notin DOMAIN HeaderOf(old[1], k) =>
                New(k)["timedelta"] = Map(k)["timedelta"]
      /\ \A k : RegisterOf(f, k)' = RegisterOf(f, k)
  <2>1. UNCHANGED switches
    BY <1>2, ReceivedFacts
  <2>2. \A k : RegisterOf(f, k)' = RegisterOf(f, k)
    BY <2>1 DEF RegisterOf, switches
  <2>3. ASSUME NEW k \in Hop(f)
        PROVE  /\ DOMAIN New(k) = DOMAIN Map(k) \cup DOMAIN HeaderOf(old[1], k)
               /\ \A x \in DOMAIN HeaderOf(old[1], k) :
                    New(k)[x] = IF x = "timedelta" THEN HeaderOf(old[1], k)[x] * Scale
                                ELSE HeaderOf(old[1], k)[x]
               /\ \A x \in DOMAIN Map(k) :
                    x \notin DOMAIN HeaderOf(old[1], k) => New(k)[x] = Map(k)[x]
    BY <1>2, ReceivedFacts, ZenonT(40)
  <2>. QED BY <2>2, <2>3
<1>. HIDE DEF old, after, n, Map, New
<1>5. ASSUME NEW k \in 1 .. (Len(Path[f]) - 1), NEW r \in 0 .. (n - 1), NEW v,
             Holds(Map(k), k, old, r + 1, v)
      PROVE  Holds(New(k), k, after, r, v)
  <2>1. k \in Hop(f) /\ k \in Nat /\ k <= Len(Path[f])
    BY HopFacts
  <2>2. r + 1 # 0 /\ MeantOf(old[r + 1], k) = v
    BY <1>1, <1>5 DEF Holds
  <2>3. CASE r # 0
    <3>1. after[r] = old[r + 1]
      BY <1>1, <2>3
    <3>. QED BY <2>2, <2>3, <3>1 DEF Holds
  <2>4. CASE r = 0
    <3>1. MeantOf(old[1], k) = v /\ 1 \in DOMAIN old
      BY <1>1, <2>2, <2>4
    <3>2. Tells(Map(k), k, old, 1)
      BY <1>3, <2>1, <3>1 DEF Told, old, Map
    <3>3. CASE "timedelta" \in DOMAIN HeaderOf(old[1], k)
      BY <1>4, <2>1, <2>4, <3>1, <3>2, <3>3 DEF Tells, Holds
    <3>4. CASE "timedelta" \notin DOMAIN HeaderOf(old[1], k)
      <4>1. Holds(Map(k), k, old, 1 - 1, v)
        BY <3>1, <3>2, <3>4 DEF Tells
      <4>2. "timedelta" \in DOMAIN Map(k) /\ Map(k)["timedelta"] = v * Scale
        BY <4>1 DEF Holds
      <4>. QED BY <1>4, <2>1, <2>4, <3>4, <4>2 DEF Holds
    <3>. QED BY <3>3, <3>4
  <2>. QED BY <2>3, <2>4
<1>6. ASSUME NEW k \in 1 .. (Len(Path[f]) - 1), NEW r \in 1 .. (n - 1), k <= Hops(after[r])
      PROVE  Tells(New(k), k, after, r)
  <2>1. r + 1 \in 1 .. n /\ after[r] = old[r + 1] /\ r - 1 \in 0 .. (n - 1)
        /\ (r - 1) + 1 = (r + 1) - 1
    BY <1>1
  <2>2. Tells(Map(k), k, old, r + 1)
    BY <1>1, <1>6, <2>1 DEF Told, old, Map
  <2>3. CASE "timedelta" \in DOMAIN HeaderOf(after[r], k)
    BY <2>1, <2>2, <2>3 DEF Tells
  <2>4. CASE "timedelta" \notin DOMAIN HeaderOf(after[r], k)
    <3>1. Holds(Map(k), k, old, (r - 1) + 1, MeantOf(after[r], k))
      BY <2>1, <2>2, <2>4 DEF Tells
    <3>2. Holds(New(k), k, after, r - 1, MeantOf(after[r], k))
      BY <1>5, <2>1, <3>1
    <3>. QED BY <2>4, <3>2 DEF Tells
  <2>. QED BY <2>3, <2>4
<1>7. ASSUME NEW k \in 1 .. (Len(Path[f]) - 1), NEW r \in 0 .. (n - 1),
             RegisterOf(f, k).flow = f, IsLast(after, k, r)
      PROVE  Holds(New(k), k, after, r, RegisterOf(f, k).last["timedelta"])
  <2>1. k \in Nat /\ k <= Len(Path[f]) /\ Len(Path[f]) \in Nat
    BY HopFacts
  <2>2. k <= Hops(old[r + 1])
    <3>1. CASE r = 0
      BY <1>3, <2>1, <3>1
    <3>2. CASE r # 0
      <4>1. after[r] = old[r + 1]
        BY <1>1, <3>2
      <4>. QED BY <1>7, <3>2, <4>1 DEF IsLast
    <3>. QED BY <3>1, <3>2
  <2>3. r + 1 # n => Hops(old[(r + 1) + 1]) < k
    <3>1. SUFFICES ASSUME r + 1 # n PROVE Hops(old[(r + 1) + 1]) < k
      OBVIOUS
    <3>2. n \in Int /\ r \in Int /\ r <= n - 1 /\ r >= 0 /\ Len(after) = n - 1
      BY <1>1
    <3>3. r # Len(after) /\ r + 1 \in 1 .. (n - 1)
      BY <3>1, <3>2
    <3>4. after[r + 1] = old[(r + 1) + 1]
      BY <1>1, <3>3
    <3>. QED BY <1>7, <3>3, <3>4 DEF IsLast
  <2>4. IsLast(old, k, r + 1) /\ r + 1 \in 0 .. n
    <3>1. r + 1 \in 0 .. n
      BY <1>1
    <3>2. IsLast(old, k, r + 1)
      BY <2>2, <2>3 DEF IsLast, n
    <3>. QED BY <3>1, <3>2
  <2>5. Holds(Map(k), k, old, r + 1, RegisterOf(f, k).last["timedelta"])
    BY <1>7, <2>4 DEF Told, old, Map, n
  <2>. QED BY <1>5, <2>5
<1>8. \A k \in 1 .. (Len(Path[f]) - 1) :
        /\ \A r \in DOMAIN after : k <= Hops(after[r]) =>
             Tells(known'[f][Len(Path[f]) - k], k, after, r)
        /\ RegisterOf(f, k)'.flow = f =>
             \A r \in 0 .. Len(after) : IsLast(after, k, r) =>
               Holds(known'[f][Len(Path[f]) - k], k, after, r, RegisterOf(f, k)'.last["timedelta"])
  BY <1>1, <1>4, <1>6, <1>7 DEF New
<1>. QED BY <1>8, ToldAfter DEF after

LEMMA ReceiveOther ==
  ASSUME RouteInv, NEW f \in Flow, Receive(f), IsRecoverable(f, probes[f][1]),
         NEW g \in Flow, g # f, Supplied(g, probes[g]), Told(g, probes[g])
  PROVE  Supplied(g, probes[g])' /\ Told(g, probes[g])'
<1>1. probes'[g] = probes[g]
  BY ReceiveRemoves DEF Removed
<1>2. known'[g] = known[g] /\ UNCHANGED switches
  BY ReceivedFacts
<1>3. \A k : RegisterOf(g, k)' = RegisterOf(g, k)
  BY <1>2 DEF RegisterOf, switches
<1>4. \A k \in Hop(g) : DOMAIN Memory(g, k) \subseteq DOMAIN (Memory(g, k)')
  BY ReceiveGrows
<1>5. ASSUME NEW k \in Hop(g), NEW x, NEW r, Seen(DOMAIN Memory(g, k), k, x, probes[g], r)
      PROVE  Seen(DOMAIN (Memory(g, k)'), k, x, probes'[g], r)
  BY <1>1, <1>4, <1>5 DEF Seen
<1>6. Supplied(g, probes[g])'
  <2>1. \A k \in Hop(g), x \in Field :
          /\ \A r \in DOMAIN probes'[g] : k <= Hops(probes'[g][r]) =>
               Seen(DOMAIN (Memory(g, k)'), k, x, probes'[g], r)
          /\ RegisterOf(g, k)'.flow = g =>
               Seen(DOMAIN (Memory(g, k)'), k, x, probes'[g], Len(probes'[g]))
    BY <1>1, <1>3, <1>5 DEF Supplied
  <2>. QED BY <2>1, SuppliedAfter
<1>7. Told(g, probes[g])'
  <2>1. \A k \in 1 .. (Len(Path[g]) - 1) :
          /\ \A r \in DOMAIN probes'[g] : k <= Hops(probes'[g][r]) =>
               Tells(known'[g][Len(Path[g]) - k], k, probes'[g], r)
          /\ RegisterOf(g, k)'.flow = g =>
               \A r \in 0 .. Len(probes'[g]) : IsLast(probes'[g], k, r) =>
                 Holds(known'[g][Len(Path[g]) - k], k, probes'[g], r,
                       RegisterOf(g, k)'.last["timedelta"])
    BY <1>1, <1>2, <1>3 DEF Told
  <2>. QED BY <2>1, ToldAfter
<1>. QED BY <1>6, <1>7

LEMMA ReceiveMemory ==
  ASSUME RouteInv, MemoryInv, NEW f \in Flow, Receive(f)
  PROVE  MemoryInv'
<1>1. harmed' = harmed /\ AtHost(f)
  BY DEF Receive
<1>2. CASE IsRecoverable(f, probes[f][1])
  <2>1. ASSUME NEW g \in Flow \ harmed
        PROVE  Supplied(g, probes[g])' /\ Told(g, probes[g])'
    <3>1. CASE g = f
      BY <3>1, ReceiveSupplied, ReceiveTold DEF MemoryInv
    <3>2. CASE g # f
      BY <1>2, <3>2, ReceiveOther DEF MemoryInv
    <3>. QED BY <3>1, <3>2
  <2>. QED BY <1>1, <2>1 DEF MemoryInv
<1>3. CASE ~IsRecoverable(f, probes[f][1])
  <2>1. f \in harmed
    BY <1>1, <1>3, Recoverable DEF MemoryInv
  <2>2. UNCHANGED <<known, tor, switches>> /\ \A g \in Flow : g # f => probes'[g] = probes[g]
    BY <1>3, ReceiveRemoves DEF Receive, Removed
  <2>3. \A g, k : Memory(g, k)' = Memory(g, k) /\ RegisterOf(g, k)' = RegisterOf(g, k)
    BY <2>2 DEF Memory, Known, RegisterOf, switches
  <2>4. ASSUME NEW g \in Flow \ harmed
        PROVE  Supplied(g, probes[g])' /\ Told(g, probes[g])'
    <3>1. /\ probes'[g] = probes[g] /\ known' = known
          /\ Supplied(g, probes[g]) /\ Told(g, probes[g])
      BY <2>1, <2>2 DEF MemoryInv
    <3>2. Supplied(g, probes[g])'
      BY <2>3, <3>1, SuppliedAfter DEF Supplied
    <3>3. Told(g, probes[g])'
      BY <2>3, <3>1, ToldAfter DEF Told
    <3>. QED BY <3>2, <3>3
  <2>. QED BY <1>1, <2>4 DEF MemoryInv
<1>. QED BY <1>2, <1>3

-----------------------------------------------------------------------------
(* A probe without fields does no harm when it is lost: it says what the   *)
(* one before it said.                                                     *)
Silent(f, p) ==
  \A k \in Hop(f) : k <= Hops(probes[f][p]) => DOMAIN HeaderOf(probes[f][p], k) = {}

LEMMA LoseSilent ==
  ASSUME RouteInv, NEW f \in Flow, NEW p \in DOMAIN probes[f], LoseProbe(f, p)
  PROVE  /\ harmed \subseteq harmed' /\ (f \notin harmed' => Silent(f, p))
         /\ \A g, k : Memory(g, k)' = Memory(g, k) /\ RegisterOf(g, k)' = RegisterOf(g, k)
         /\ known' = known
<1>1. UNCHANGED <<switches, receiver>>
  BY DEF LoseProbe
<1>2. \A g, k : Memory(g, k)' = Memory(g, k) /\ RegisterOf(g, k)' = RegisterOf(g, k)
  BY <1>1 DEF Memory, Known, RegisterOf, switches, receiver
<1>. DEFINE headers == probes[f][p].headers
<1>3. harmed' = IF \A k \in DOMAIN headers : DOMAIN headers[k] = {} THEN harmed
                ELSE harmed \cup {f}
  BY DEF LoseProbe
<1>4. DOMAIN headers = 1 .. Len(headers) /\ Len(headers) \in Nat
  <2>1. probes[f][p] \in Probe
    BY FlightFacts DEF RouteInv, Shape
  <2>2. headers \in Seq(Header)
    BY <2>1 DEF Probe
  <2>. QED BY <2>2, LenProperties
<1>5. ASSUME \A k \in DOMAIN headers : DOMAIN headers[k] = {}
      PROVE  Silent(f, p)
  <2>1. ASSUME NEW k \in Hop(f), k <= Hops(probes[f][p])
        PROVE  DOMAIN HeaderOf(probes[f][p], k) = {}
    <3>1. k \in Nat /\ k > 0 /\ k <= Len(headers)
      BY <2>1, HopFacts DEF Hops
    <3>2. Len(headers) + 1 - k \in 1 .. Len(headers)
      BY <1>4, <3>1
    <3>. QED BY <1>4, <1>5, <3>2 DEF HeaderOf
  <2>. QED BY <2>1 DEF Silent
<1>. QED BY <1>1, <1>2, <1>3, <1>5 DEF receiver

LEMMA RemovedIndices ==
  ASSUME RouteInv, NEW f \in Flow, NEW p \in DOMAIN probes[f], Removed(f, p)
  PROVE  LET n == Len(probes[f])
         IN  /\ n \in Nat /\ p \in 1 .. n /\ DOMAIN probes[f] = 1 .. n
             /\ Len(probes'[f]) = n - 1 /\ DOMAIN probes'[f] = 1 .. (n - 1)
             /\ \A i \in 1 .. (n - 1) :
                  /\ i < p => probes'[f][i] = probes[f][i]
                  /\ i >= p => probes'[f][i] = probes[f][i + 1]
             /\ \A i, j \in 1 .. n : i < j => Hops(probes[f][j]) <= Hops(probes[f][i])
             /\ \A i \in 1 .. n : Hops(probes[f][i]) \in Nat
<1>. DEFINE n == Len(probes[f])
<1>1. probes[f] \in Seq(Probe) /\ InOrder(probes[f])
  BY DEF RouteInv, Shape, Flights
<1>2. n \in Nat /\ DOMAIN probes[f] = 1 .. n /\ \A i \in 1 .. n : Hops(probes[f][i]) \in Nat
  BY <1>1, FlightFacts
<1>3. /\ probes'[f] \in Seq(Probe) /\ Len(probes'[f]) = n - 1
      /\ \A i \in 1 .. (n - 1) : probes'[f][i] = probes[f][IF i < p THEN i ELSE i + 1]
  BY DEF Removed
<1>4. DOMAIN probes'[f] = 1 .. (n - 1)
  BY <1>3, LenProperties
<1>. HIDE DEF n
<1>5. ASSUME NEW i \in 1 .. (n - 1)
      PROVE  /\ i < p => probes'[f][i] = probes[f][i]
             /\ i >= p => probes'[f][i] = probes[f][i + 1]
  <2>1. i >= p => ~(i < p)
    BY <1>2
  <2>. QED BY <1>3, <2>1
<1>6. \A i, j \in 1 .. n : i < j => Hops(probes[f][j]) <= Hops(probes[f][i])
  BY <1>1, <1>2 DEF InOrder
<1>. QED BY <1>2, <1>3, <1>4, <1>5, <1>6 DEF n

LEMMA LoseSupplied ==
  ASSUME RouteInv, NEW f \in Flow, NEW p \in DOMAIN probes[f], LoseProbe(f, p),
         Silent(f, p), Supplied(f, probes[f])
  PROVE  Supplied(f, probes[f])'
<1>. DEFINE old == probes[f]
            after == probes'[f]
            n == Len(old)
<1>1. Removed(f, p)
  BY LoseRemoves
<1>2. /\ n \in Nat /\ p \in 1 .. n /\ DOMAIN old = 1 .. n
      /\ Len(after) = n - 1 /\ DOMAIN after = 1 .. (n - 1)
      /\ \A i \in 1 .. (n - 1) :
           /\ i < p => after[i] = old[i]
           /\ i >= p => after[i] = old[i + 1]
  BY <1>1, RemovedIndices
<1>3. \A k : Memory(f, k)' = Memory(f, k) /\ RegisterOf(f, k)' = RegisterOf(f, k)
  BY LoseSilent
<1>. HIDE DEF old, after, n
<1>4. ASSUME NEW k \in Hop(f), NEW x, NEW D, NEW r \in 0 .. (n - 1),
             NEW m \in 0 .. n, m = r \/ m = r + 1, r < p => m = r \/ r = p - 1,
             Seen(D, k, x, old, m)
      PROVE  Seen(D, k, x, after, r)
  <2>1. CASE x \in D
    BY <2>1 DEF Seen
  <2>2. ASSUME NEW q \in 1 .. m, Carries(old[q], k, x)
        PROVE  Seen(D, k, x, after, r)
    <3>1. q # p
      BY <2>2 DEF Silent, Carries, old
    <3>2. n \in Int /\ p \in Int /\ r \in Int /\ m \in Int /\ q \in Int /\ q >= 1 /\ q <= m
      BY <1>2
    <3>3. CASE q < p
      <4>1. q \in 1 .. r /\ q \in 1 .. (n - 1)
        BY <1>2, <1>4, <3>2, <3>3
      <4>2. after[q] = old[q]
        BY <1>2, <3>3, <4>1
      <4>. QED BY <2>2, <4>1, <4>2 DEF Seen
    <3>4. CASE q > p
      <4>1. q - 1 \in 1 .. r /\ q - 1 \in 1 .. (n - 1) /\ q - 1 >= p /\ (q - 1) + 1 = q
        BY <1>2, <1>4, <3>2, <3>4
      <4>2. after[q - 1] = old[q]
        BY <1>2, <4>1
      <4>. QED BY <2>2, <4>1, <4>2 DEF Seen
    <3>. QED BY <3>1, <3>2, <3>3, <3>4
  <2>. QED BY <1>4, <2>1, <2>2 DEF Seen
<1>5. ASSUME NEW k \in Hop(f), NEW x \in Field, NEW r \in 1 .. (n - 1), k <= Hops(after[r])
      PROVE  Seen(DOMAIN Memory(f, k), k, x, after, r)
  <2>. DEFINE m == IF r < p THEN r ELSE r + 1
  <2>1. m \in 1 .. n /\ m \in 0 .. n /\ r \in 0 .. (n - 1) /\ (m = r \/ m = r + 1)
        /\ (r < p => m = r)
    BY <1>2
  <2>2. after[r] = old[m]
    BY <1>2
  <2>. HIDE DEF m
  <2>3. Seen(DOMAIN Memory(f, k), k, x, old, m)
    BY <1>2, <1>5, <2>1, <2>2 DEF Supplied, old
  <2>. QED BY <1>4, <2>1, <2>3
<1>6. ASSUME NEW k \in Hop(f), NEW x \in Field, RegisterOf(f, k).flow = f
      PROVE  Seen(DOMAIN Memory(f, k), k, x, after, n - 1)
  <2>1. /\ n \in 0 .. n /\ n - 1 \in 0 .. (n - 1) /\ n = (n - 1) + 1
        /\ (n - 1 < p => n - 1 = p - 1)
    BY <1>2
  <2>2. Seen(DOMAIN Memory(f, k), k, x, old, n)
    BY <1>6 DEF Supplied, old, n
  <2>. QED BY <1>4, <2>1, <2>2
<1>7. \A k \in Hop(f), x \in Field :
        /\ \A r \in DOMAIN after : k <= Hops(after[r]) =>
             Seen(DOMAIN (Memory(f, k)'), k, x, after, r)
        /\ RegisterOf(f, k)'.flow = f =>
             Seen(DOMAIN (Memory(f, k)'), k, x, after, Len(after))
  BY <1>2, <1>3, <1>5, <1>6
<1>. QED BY <1>7, SuppliedAfter DEF after

LEMMA LoseTold ==
  ASSUME RouteInv, NEW f \in Flow, NEW p \in DOMAIN probes[f], LoseProbe(f, p),
         Silent(f, p), Told(f, probes[f])
  PROVE  Told(f, probes[f])'
<1>. DEFINE old == probes[f]
            after == probes'[f]
            n == Len(old)
            Map(k) == known[f][Len(Path[f]) - k]
<1>1. Removed(f, p)
  BY LoseRemoves
<1>2. /\ n \in Nat /\ p \in 1 .. n /\ DOMAIN old = 1 .. n
      /\ Len(after) = n - 1 /\ DOMAIN after = 1 .. (n - 1)
      /\ \A i \in 1 .. (n - 1) :
           /\ i < p => after[i] = old[i]
           /\ i >= p => after[i] = old[i + 1]
  BY <1>1, RemovedIndices
<1>3. /\ \A i, j \in 1 .. n : i < j => Hops(old[j]) <= Hops(old[i])
      /\ \A i \in 1 .. n : Hops(old[i]) \in Nat
  BY <1>1, RemovedIndices
<1>4. /\ \A k : RegisterOf(f, k)' = RegisterOf(f, k)
      /\ known' = known
  BY LoseSilent
<1>. HIDE DEF old, after, n, Map
(* What holds after probe m before the loss holds after it, or the one     *)
(* before it if it is lost.                                                *)
<1>5. ASSUME NEW k \in 1 .. (Len(Path[f]) - 1), NEW m \in 0 .. n, NEW v,
             m # 0 => k <= Hops(old[m]), Holds(Map(k), k, old, m, v)
      PROVE  Holds(Map(k), k, after, IF m < p THEN m ELSE m - 1, v)
  <2>0. n \in Int /\ p \in Int /\ m \in Int /\ p >= 1 /\ p <= n /\ m >= 0 /\ m <= n /\ k \in Hop(f)
    BY <1>2, HopFacts
  <2>1. ASSUME NEW i \in 0 .. n, i < p, Holds(Map(k), k, old, i, v)
        PROVE  Holds(Map(k), k, after, i, v)
    <3>1. i # 0 => i \in 1 .. (n - 1)
      BY <2>0, <2>1
    <3>2. i # 0 => after[i] = old[i]
      BY <1>2, <2>1, <3>1
    <3>. QED BY <2>1, <3>2 DEF Holds
  <2>2. CASE m < p
    BY <1>5, <2>1, <2>2
  <2>3. CASE m = p
    <3>1. "timedelta" \notin DOMAIN HeaderOf(old[p], k)
      BY <1>5, <2>0, <2>3 DEF Silent, old
    <3>2. Tells(Map(k), k, old, p)
      <4>1. p \in DOMAIN old /\ k <= Hops(old[p])
        BY <1>2, <1>5, <2>0, <2>3
      <4>. QED BY <4>1 DEF Told, old, Map
    <3>3. Holds(Map(k), k, old, p - 1, MeantOf(old[p], k))
      BY <3>1, <3>2 DEF Tells
    <3>4. MeantOf(old[p], k) = v
      BY <1>5, <2>0, <2>3 DEF Holds
    <3>5. p - 1 \in 0 .. n /\ p - 1 < p
      BY <2>0
    <3>6. Holds(Map(k), k, after, p - 1, v)
      BY <2>1, <3>3, <3>4, <3>5
    <3>. QED BY <2>0, <2>3, <3>6
  <2>4. CASE m > p
    <3>1. m - 1 \in 1 .. (n - 1) /\ m - 1 >= p /\ (m - 1) + 1 = m /\ m # 0 /\ m - 1 # 0 /\ ~(m < p)
      BY <2>0, <2>4
    <3>2. after[m - 1] = old[m]
      BY <1>2, <3>1
    <3>3. Holds(Map(k), k, after, m - 1, v)
      BY <1>5, <3>1, <3>2 DEF Holds
    <3>. QED BY <3>1, <3>3
  <2>. QED BY <2>0, <2>2, <2>3, <2>4
<1>6. ASSUME NEW k \in 1 .. (Len(Path[f]) - 1), NEW r \in 1 .. (n - 1), k <= Hops(after[r])
      PROVE  Tells(Map(k), k, after, r)
  <2>. DEFINE m == IF r < p THEN r ELSE r + 1
  <2>0. n \in Int /\ p \in Int /\ r \in Int /\ p >= 1 /\ p <= n /\ r >= 1 /\ r <= n - 1 /\ k \in Nat
    BY <1>2, HopFacts
  <2>2. after[r] = old[m]
    BY <1>2
  <2>3. /\ m \in 1 .. n /\ m - 1 \in 0 .. n
        /\ m - 1 # 0 => m - 1 \in 1 .. n /\ m - 1 < m
        /\ r - 1 = IF m - 1 < p THEN m - 1 ELSE (m - 1) - 1
    BY <2>0
  <2>. HIDE DEF m
  <2>4. Tells(Map(k), k, old, m)
    BY <1>2, <1>6, <2>2, <2>3 DEF Told, old, Map
  <2>5. CASE "timedelta" \in DOMAIN HeaderOf(after[r], k)
    BY <2>2, <2>4, <2>5 DEF Tells
  <2>6. CASE "timedelta" \notin DOMAIN HeaderOf(after[r], k)
    <3>1. Holds(Map(k), k, old, m - 1, MeantOf(after[r], k))
      BY <2>2, <2>4, <2>6 DEF Tells
    <3>2. m - 1 # 0 => k <= Hops(old[m - 1])
      <4>1. m - 1 # 0 => Hops(old[m]) <= Hops(old[m - 1]) /\ Hops(old[m - 1]) \in Nat
                         /\ Hops(old[m]) \in Nat
        BY <1>3, <2>3
      <4>. QED BY <1>6, <2>0, <2>2, <4>1
    <3>3. Holds(Map(k), k, after, r - 1, MeantOf(after[r], k))
      BY <1>5, <2>3, <3>1, <3>2
    <3>. QED BY <2>6, <3>3 DEF Tells
  <2>. QED BY <2>5, <2>6
<1>7. ASSUME NEW k \in 1 .. (Len(Path[f]) - 1), NEW r \in 0 .. (n - 1),
             RegisterOf(f, k).flow = f, IsLast(after, k, r)
      PROVE  Holds(Map(k), k, after, r, RegisterOf(f, k).last["timedelta"])
  <2>0. n \in Int /\ p \in Int /\ r \in Int /\ p >= 1 /\ p <= n /\ r >= 0 /\ r <= n - 1 /\ k \in Nat
    BY <1>2, HopFacts
  <2>1. /\ r # 0 => k <= Hops(after[r])
        /\ r # n - 1 => Hops(after[r + 1]) < k
    BY <1>2, <1>7 DEF IsLast
  <2>2. ASSUME NEW m \in 0 .. n, IsLast(old, k, m), r = IF m < p THEN m ELSE m - 1
        PROVE  Holds(Map(k), k, after, r, RegisterOf(f, k).last["timedelta"])
    <3>1. Holds(Map(k), k, old, m, RegisterOf(f, k).last["timedelta"])
      BY <1>7, <2>2 DEF Told, old, Map, n
    <3>2. m # 0 => k <= Hops(old[m])
      BY <2>2 DEF IsLast
    <3>. QED BY <1>5, <2>2, <3>1, <3>2
  <2>3. CASE r < p - 1
    <3>1. /\ r \in 0 .. n /\ r < p /\ r # n /\ r # n - 1 /\ r + 1 \in 1 .. (n - 1) /\ r + 1 < p
          /\ r # 0 => r \in 1 .. (n - 1)
      BY <2>0, <2>3
    <3>2. after[r + 1] = old[r + 1] /\ (r # 0 => after[r] = old[r])
      BY <1>2, <3>1
    <3>3. IsLast(old, k, r)
      BY <2>1, <3>1, <3>2 DEF IsLast
    <3>. QED BY <2>2, <3>1, <3>3
  <2>4. CASE r >= p
    <3>1. /\ r + 1 \in 0 .. n /\ r + 1 # 0 /\ r # 0 /\ r \in 1 .. (n - 1)
          /\ ~(r + 1 < p) /\ r = (r + 1) - 1
          /\ r + 1 # n => r # n - 1 /\ r + 1 \in 1 .. (n - 1) /\ r + 1 >= p
      BY <2>0, <2>4
    <3>2. after[r] = old[r + 1] /\ (r + 1 # n => after[r + 1] = old[(r + 1) + 1])
      BY <1>2, <2>4, <3>1
    <3>3. IsLast(old, k, r + 1)
      BY <2>1, <3>1, <3>2 DEF IsLast, n
    <3>. QED BY <2>2, <3>1, <3>3
  <2>5. CASE r = p - 1
    <3>1. /\ p \in 0 .. n /\ r \in 0 .. n /\ r < p /\ r # n /\ p # 0 /\ r + 1 = p /\ ~(p < p)
          /\ r # 0 => r \in 1 .. (n - 1)
          /\ p # n => r # n - 1 /\ p \in 1 .. (n - 1)
          /\ p \in 1 .. n
      BY <2>0, <2>5
    <3>2. /\ r # 0 => after[r] = old[r]
          /\ p # n => after[p] = old[p + 1]
      BY <1>2, <3>1
    <3>3. Hops(old[p]) \in Nat
      BY <1>3, <3>1
    <3>4. CASE k <= Hops(old[p])
      <4>1. IsLast(old, k, p)
        BY <2>1, <3>1, <3>2, <3>4 DEF IsLast, n
      <4>. QED BY <2>2, <2>5, <3>1, <4>1
    <3>5. CASE ~(k <= Hops(old[p]))
      <4>1. Hops(old[p]) < k
        BY <2>0, <3>3, <3>5
      <4>2. IsLast(old, k, r)
        BY <2>1, <3>1, <3>2, <4>1 DEF IsLast
      <4>. QED BY <2>2, <3>1, <4>2
    <3>. QED BY <3>4, <3>5
  <2>. QED BY <2>0, <2>3, <2>4, <2>5
<1>8. \A k \in 1 .. (Len(Path[f]) - 1) :
        /\ \A r \in DOMAIN after : k <= Hops(after[r]) =>
             Tells(known'[f][Len(Path[f]) - k], k, after, r)
        /\ RegisterOf(f, k)'.flow = f =>
             \A r \in 0 .. Len(after) : IsLast(after, k, r) =>
               Holds(known'[f][Len(Path[f]) - k], k, after, r, RegisterOf(f, k)'.last["timedelta"])
  BY <1>2, <1>4, <1>6, <1>7 DEF Map
<1>. QED BY <1>8, ToldAfter DEF after

LEMMA LoseMemory ==
  ASSUME RouteInv, MemoryInv, NEW f \in Flow, NEW p \in DOMAIN probes[f], LoseProbe(f, p)
  PROVE  MemoryInv'
<1>1. /\ harmed \subseteq harmed' /\ (f \notin harmed' => Silent(f, p))
      /\ \A g, k : Memory(g, k)' = Memory(g, k) /\ RegisterOf(g, k)' = RegisterOf(g, k)
      /\ known' = known
  BY LoseSilent
<1>2. \A g \in Flow : g # f => probes'[g] = probes[g]
  BY LoseRemoves DEF Removed
<1>3. ASSUME NEW g \in Flow \ harmed'
      PROVE  Supplied(g, probes[g])' /\ Told(g, probes[g])'
  <2>1. Supplied(g, probes[g]) /\ Told(g, probes[g])
    BY <1>1 DEF MemoryInv
  <2>2. CASE g = f
    BY <1>1, <2>1, <2>2, LoseSupplied, LoseTold
  <2>3. CASE g # f
    <3>1. probes'[g] = probes[g]
      BY <1>2, <2>3
    <3>2. Supplied(g, probes[g])'
      BY <1>1, <2>1, <3>1, SuppliedAfter DEF Supplied
    <3>3. Told(g, probes[g])'
      BY <1>1, <2>1, <3>1, ToldAfter DEF Told
    <3>. QED BY <3>2, <3>3
  <2>. QED BY <2>2, <2>3
<1>. QED BY <1>3 DEF MemoryInv

-----------------------------------------------------------------------------
(* The invariant of what is left out is kept.                              *)

LEMMA InitMemory == Init => MemoryInv
<1>. SUFFICES ASSUME Init, NEW f \in Flow PROVE Supplied(f, probes[f]) /\ Told(f, probes[f])
  BY DEF MemoryInv
<1>1. probes[f] = <<>> /\ DOMAIN probes[f] = {}
  BY DEF Init
<1>2. Shape
  BY InitRoute DEF RouteInv
<1>3. ASSUME NEW k \in Hop(f)
      PROVE  RegisterOf(f, k).flow # f
  <2>1. Path[f][k] \in Switch /\ index[f] \in Slot
    BY <1>2, PathFacts, IndexInSlot
  <2>2. RegisterOf(f, k).flow = NoFlow
    BY <2>1 DEF Init, RegisterOf
  <2>. QED BY <2>2, IntPaths
<1>4. \A k \in 1 .. (Len(Path[f]) - 1) : k \in Hop(f)
  BY HopFacts
<1>5. Supplied(f, probes[f])
  BY <1>1, <1>3 DEF Supplied
<1>6. Told(f, probes[f])
  BY <1>1, <1>3, <1>4 DEF Told
<1>. QED BY <1>5, <1>6

(* Nothing a flow is told by depends on anything else.                     *)
LEMMA QuietMemory ==
  ASSUME MemoryInv, UNCHANGED <<index, dint_register, probes, known, tor, harmed>>
  PROVE  MemoryInv'
<1>1. \A g, k : Memory(g, k)' = Memory(g, k) /\ RegisterOf(g, k)' = RegisterOf(g, k)
  BY DEF Memory, Known, RegisterOf
<1>2. ASSUME NEW g \in Flow \ harmed
      PROVE  Supplied(g, probes[g])' /\ Told(g, probes[g])'
  <2>1. Supplied(g, probes[g]) /\ Told(g, probes[g]) /\ probes'[g] = probes[g] /\ known' = known
    BY DEF MemoryInv
  <2>2. Supplied(g, probes[g])'
    BY <1>1, <2>1, SuppliedAfter DEF Supplied
  <2>3. Told(g, probes[g])'
    BY <1>1, <2>1, ToldAfter DEF Told
  <2>. QED BY <2>2, <2>3
<1>. QED BY <1>2 DEF MemoryInv

LEMMA NextMemory ==
  ASSUME NoLoops, RouteInv, MemoryInv, [Next]_vars
  PROVE  MemoryInv'
<1>1. ASSUME NEW f \in Flow, SendProbe(f)
      PROVE  MemoryInv'
  <2>1. Ready(f, WithNew(f), Len(WithNew(f))) /\ Egress(f, WithNew(f), Len(WithNew(f)))
    BY <1>1, SendReady
  <2>2. f \notin harmed => Supplied(f, WithNew(f)) /\ Told(f, WithNew(f))
    BY WithNewMemory DEF MemoryInv
  <2>. QED BY <2>1, <2>2, EgressMemory
<1>2. ASSUME NEW f \in Flow, NEW p \in DOMAIN probes[f], PassSwitch(f, p)
      PROVE  MemoryInv'
  <2>1. Ready(f, probes[f], p) /\ Egress(f, probes[f], p)
    BY <1>2, PassReady
  <2>2. f \notin harmed => Supplied(f, probes[f]) /\ Told(f, probes[f])
    BY DEF MemoryInv
  <2>. QED BY <2>1, <2>2, EgressMemory
<1>3. ASSUME NEW f \in Flow, Receive(f)
      PROVE  MemoryInv'
  BY <1>3, ReceiveMemory
<1>4. ASSUME NEW f \in Flow, NEW p \in DOMAIN probes[f], LoseProbe(f, p)
      PROVE  MemoryInv'
  BY <1>4, LoseMemory
<1>5. ASSUME NEW queue \in MaySlow, SimulateLatency(queue)
      PROVE  MemoryInv'
  BY <1>5, QuietMemory DEF SimulateLatency, receiver
<1>6. ASSUME UNCHANGED vars
      PROVE  MemoryInv'
  BY <1>6, QuietMemory DEF vars, switches, receiver
<1>. QED BY <1>1, <1>2, <1>3, <1>4, <1>5, <1>6 DEF Next, ProbeStep

(* For paths without loops, what a switch leaves out of a probe of a flow  *)
(* that lost nothing is known to the receiver or under way in front of     *)
(* that probe, and so is the latency the switch remembers                  *)
(* (dint_app.p4:93-121, dint_receive.py:63-121).                           *)
THEOREM MemoryKept == ASSUME NoLoops PROVE Spec => []MemoryInv
<1>1. Init => RouteInv /\ MemoryInv
  BY InitRoute, InitMemory
<1>2. RouteInv /\ MemoryInv /\ [Next]_vars => (RouteInv /\ MemoryInv)'
  BY NextRoute, NextMemory
<1>. QED BY <1>1, <1>2, PTL DEF Spec

LEMMA MemorySurvives == RouteInv /\ MemoryInv => ReceiverSurvives
<1>. SUFFICES ASSUME RouteInv, MemoryInv, NEW f \in Flow \ harmed, AtHost(f)
              PROVE  IsRecoverable(f, Head(probes[f]))
  BY DEF ReceiverSurvives
<1>1. Head(probes[f]) = probes[f][1]
  BY AtHostFacts
<1>2. Supplied(f, probes[f])
  BY DEF MemoryInv
<1>. QED BY <1>1, <1>2, Recoverable

(* No probe of a flow that lost nothing ends the receiver for want of a    *)
(* field, whatever flows share registers with it (dint_receive.py:70, 83,  *)
(* 98).                                                                    *)
THEOREM ReceiverNeverEnds == ASSUME NoLoops PROVE Spec => []ReceiverSurvives
BY RouteKept, MemoryKept, MemorySurvives, PTL

LEMMA MemoryAccurate == RouteInv /\ MemoryInv => LatencyAccurate
<1>. SUFFICES ASSUME RouteInv, MemoryInv, NEW f \in Flow \ harmed, AtHost(f),
                     IsRecoverable(f, Head(probes[f])), NEW i \in DOMAIN known[f] \ {0}
              PROVE  IsAccurate(f, i)
  BY DEF LatencyAccurate
<1>. DEFINE probe == probes[f][1]
            n == Len(Path[f])
            k == n - i
            h == HeaderOf(probe, k)
            map == known[f][n - k]
<1>1. Head(probes[f]) = probe /\ 1 \in DOMAIN probes[f] /\ Hops(probe) = n
  BY AtHostFacts
<1>2. k \in Hop(f) /\ n - k = i
  BY AtHostFacts
<1>3. k \in 1 .. (n - 1) /\ k <= n /\ k # n /\ 1 - 1 = 0
  <2>1. DOMAIN known[f] = 0 .. (n - 1) /\ n \in Nat \ {0}
    BY PathFacts DEF RouteInv, Shape
  <2>2. i \in 1 .. (n - 1)
    <3>. HIDE DEF n
    <3>. QED BY <2>1
  <2>. HIDE DEF n
  <2>. QED BY <2>1, <2>2
<1>4. MeantOf(probe, k) = probe.meant[i + 1]
  BY <1>2, AtHostFacts
<1>5. Recovered(f, probe, i)["timedelta"] =
        IF "timedelta" \in DOMAIN h THEN h["timedelta"] * Scale ELSE Memory(f, k)["timedelta"]
  BY <1>1, <1>2, RecoveredFacts
<1>6. Memory(f, k) = map
  BY <1>2, <1>3, KnownFacts
<1>7. Tells(map, k, probes[f], 1)
  <2>1. Told(f, probes[f])
    BY DEF MemoryInv
  <2>. QED BY <1>1, <1>3, <2>1 DEF Told
<1>. HIDE DEF k, h, map, probe, n
<1>8. CASE "timedelta" \in DOMAIN h
  <2>1. h["timedelta"] = MeantOf(probe, k)
    BY <1>7, <1>8 DEF Tells, h, probe
  <2>. QED BY <1>1, <1>4, <1>5, <1>8, <2>1 DEF IsAccurate
<1>9. CASE "timedelta" \notin DOMAIN h
  <2>1. Holds(map, k, probes[f], 0, MeantOf(probe, k))
    BY <1>3, <1>7, <1>9 DEF Tells, h, probe
  <2>2. map["timedelta"] = MeantOf(probe, k) * Scale
    BY <2>1 DEF Holds
  <2>. QED BY <1>1, <1>4, <1>5, <1>6, <1>9, <2>2 DEF IsAccurate
<1>. QED BY <1>8, <1>9

(* Paths are recovered right from any probe that can be, and the latencies *)
(* of their hops but the last from those of a flow that lost nothing, as   *)
(* the ones the switches remember (dint_receive.py:63-121).                *)
THEOREM TelemetryNeverWrong == ASSUME NoLoops PROVE Spec => []TelemetryRecovered
<1>1. RouteInv /\ MemoryInv => TelemetryRecovered
  BY PathFollows, MemoryAccurate DEF TelemetryRecovered
<1>. QED BY <1>1, RouteKept, MemoryKept, PTL

-----------------------------------------------------------------------------
(* The latencies are those a switch may send, scaled or not, and what is   *)
(* reported are queues.                                                    *)

OfValue(h, scale) == "timedelta" \in DOMAIN h => h["timedelta"] \in {v * scale : v \in Value}
ProbeValues(probe) ==
  \A k \in 1 .. Hops(probe) : OfValue(HeaderOf(probe, k), 1) /\ MeantOf(probe, k) \in Value

ValuesInv ==
  /\ \A s \in Switch, x \in Slot : IsField(dint_register[s][x].last, 1)
  /\ \A f \in Flow : \A p \in DOMAIN probes[f] : ProbeValues(probes[f][p])
  /\ \A f \in Flow : \A i \in DOMAIN known[f] :
       DOMAIN known[f][i] \subseteq Field /\ OfValue(known[f][i], Scale)
  /\ IsField(tor, Scale)
  /\ ok \in [Flow -> SUBSET Queues]

LEMMA ValueFacts ==
  /\ Value \subseteq Nat /\ 0 \in Value /\ {v * 1 : v \in Value} = Value
  /\ \A f \in Flow : \A k \in Hop(f) : \A d \in Latency[Queue(f, k)] \cup {SlowLatency} :
       d \div Scale \in Value
<1>1. ASSUME NEW d \in (UNION {Latency[q] : q \in Queues}) \cup {SlowLatency}
      PROVE  d \div Scale \in Nat
  <2>1. \A q \in Queues : Latency[q] \subseteq Nat
    BY Latencies
  <2>2. CASE d \in UNION {Latency[q] : q \in Queues}
    <3>1. PICK q \in Queues : d \in Latency[q]
      BY <2>2
    <3>2. d \in Nat
      BY <2>1, <3>1
    <3>. QED BY <3>2, IntNumbers
  <2>3. CASE d = SlowLatency
    BY <2>3, IntNumbers
  <2>. QED BY <2>2, <2>3
<1>2. Value \subseteq Nat /\ 0 \in Value
  BY <1>1 DEF Value
<1>3. \A v \in Value : v * 1 = v
  BY <1>2
<1>4. ASSUME NEW f \in Flow, NEW k \in Hop(f), NEW d \in Latency[Queue(f, k)] \cup {SlowLatency}
      PROVE  d \div Scale \in Value
  <2>1. Queue(f, k) \in Queues
    BY PathFacts
  <2>2. Latency[Queue(f, k)] \in {Latency[q] : q \in Queues}
    BY <2>1
  <2>3. d \in (UNION {Latency[q] : q \in Queues}) \cup {SlowLatency}
    BY <2>2
  <2>. QED BY <2>3 DEF Value
<1>. QED BY <1>2, <1>3, <1>4

(* Fields of a hop with such a latency are fields.                         *)
LEMMA HopFields ==
  ASSUME NEW f \in Flow, NEW k \in Hop(f), NEW h, DOMAIN h \subseteq Field, OfHop(f, k, h),
         NEW scale, OfValue(h, scale)
  PROVE  IsField(h, scale)
<1>1. /\ Path[f][k] \in Switch \cup {Host} /\ PortBefore(f, k) \in Switch \cup {Host}
      /\ PortAfter(f, k) \in Switch \cup {Host}
  BY PathFacts
<1>2. ASSUME NEW x \in DOMAIN h, x # "timedelta" PROVE h[x] \in Switch \cup {Host}
  BY <1>1, <1>2 DEF OfHop, Field
<1>. QED BY <1>2 DEF IsField, OfValue

(* What a switch measures and remembers.                                   *)
LEMMA OutputFields ==
  ASSUME RouteInv, ValuesInv, NEW f \in Flow, NEW k \in Hop(f),
         NEW d \in Latency[Queue(f, k)] \cup {SlowLatency}
  PROVE  LET cur == Measured(f, k, d)
             out == Output(f, Path[f][k], cur)
         IN  /\ cur \in [Field -> Nat] /\ cur["timedelta"] \in Value
             /\ IsField(out, 1) /\ out["timedelta"] \in Value
<1>. DEFINE s == Path[f][k]
            cur == Measured(f, k, d)
            out == Output(f, s, cur)
<1>1. d \in Nat /\ s \in Switch /\ index[f] \in Slot
  <2>1. Queue(f, k) \in Queues
    BY PathFacts
  <2>. QED BY <2>1, PathFacts, IndexInSlot, Latencies, IntNumbers DEF RouteInv
<1>2. /\ cur \in [Field -> Nat]
      /\ cur["deviceno"] = Path[f][k] /\ cur["iport"] = PortBefore(f, k)
      /\ cur["eport"] = PortAfter(f, k) /\ cur["timedelta"] \in Value
  BY <1>1, MeasuredFacts, ValueFacts
<1>. HIDE DEF cur
<1>3. /\ out \in [Field -> Nat]
      /\ \A x \in Field : x # "timedelta" => out[x] = cur[x]
      /\ \/ out["timedelta"] = dint_register[s][index[f]].last["timedelta"]
         \/ out["timedelta"] = cur["timedelta"]
  BY <1>1, <1>2, OutputFacts DEF RouteInv
<1>. HIDE DEF out
<1>4. dint_register[s][index[f]].last["timedelta"] \in Value
  <2>1. dint_register[s][index[f]].last \in [Field -> Nat]
    BY <1>1 DEF RouteInv, Shape, Register
  <2>2. IsField(dint_register[s][index[f]].last, 1)
    BY <1>1 DEF ValuesInv
  <2>. QED BY <2>1, <2>2, ValueFacts DEF IsField, Field
<1>5. out["timedelta"] \in Value
  BY <1>2, <1>3, <1>4
<1>6. OfHop(f, k, out)
  BY <1>2, <1>3 DEF OfHop, Field
<1>7. IsField(out, 1)
  <2>1. OfValue(out, 1)
    BY <1>5, ValueFacts DEF OfValue
  <2>. QED BY <1>3, <1>6, <2>1, HopFields
<1>. QED BY <1>2, <1>5, <1>7 DEF cur, out

LEMMA SteppedValues ==
  ASSUME RouteInv, ValuesInv, NEW f \in Flow, NEW flight, NEW p, Ready(f, flight, p),
         \A q \in 1 .. Len(flight) : ProbeValues(flight[q]),
         Egress(f, flight, p)
  PROVE  ValuesInv'
<1>. DEFINE k == Hops(flight[p]) + 1
            s == Path[f][k]
<1>1. PICK d \in Latency[Queue(f, k)] \cup {SlowLatency} : Stepped(f, flight, p, Measured(f, k, d))
  BY ReadyStep
<1>. DEFINE cur == Measured(f, k, d)
            out == Output(f, s, cur)
            after == probes'[f]
<1>2. /\ p \in 1 .. Len(flight) /\ Len(flight) \in Nat /\ k \in Hop(f)
      /\ Hops(flight[p]) \in Nat /\ s \in Switch /\ index[f] \in Slot
  <2>1. k \in Hop(f)
    BY FlightFacts, PathFacts DEF Ready
  <2>. QED BY <2>1, FlightFacts, PathFacts, IndexInSlot DEF Ready, RouteInv
<1>3. /\ cur \in [Field -> Nat] /\ cur["timedelta"] \in Value
      /\ IsField(out, 1) /\ out["timedelta"] \in Value
  BY <1>2, OutputFields
<1>4. /\ after \in Seq(Probe) /\ Len(after) = Len(flight)
      /\ \A q \in DOMAIN flight : q # p => after[q] = flight[q]
      /\ Hops(after[p]) = k
      /\ \A j \in 1 .. Hops(flight[p]) : /\ HeaderOf(after[p], j) = HeaderOf(flight[p], j)
                                         /\ MeantOf(after[p], j) = MeantOf(flight[p], j)
      /\ DOMAIN HeaderOf(after[p], k) = Field \ Saved(f, s, cur)
      /\ \A x \in Field \ Saved(f, s, cur) : HeaderOf(after[p], k)[x] = cur[x]
      /\ MeantOf(after[p], k) = out["timedelta"]
      /\ \A g \in Flow : g # f => probes'[g] = probes[g]
      /\ dint_register' = [dint_register EXCEPT ![s][index[f]] = [flow |-> f, last |-> out]]
      /\ UNCHANGED <<known, tor, ok>>
  BY <1>1 DEF Stepped, receiver
<1>. HIDE DEF cur, out, after, s, k
<1>5. ProbeValues(after[p])
  <2>1. OfValue(HeaderOf(after[p], k), 1)
    BY <1>3, <1>4, ValueFacts DEF OfValue
  <2>2. \A j \in 1 .. Hops(flight[p]) : OfValue(HeaderOf(after[p], j), 1) /\ MeantOf(after[p], j) \in Value
    BY <1>2, <1>4 DEF ProbeValues
  <2>3. \A j \in 1 .. k : j = k \/ j \in 1 .. Hops(flight[p])
    BY <1>2 DEF k
  <2>. QED BY <1>3, <1>4, <2>1, <2>2, <2>3 DEF ProbeValues
<1>6. \A q \in DOMAIN after : ProbeValues(after[q])
  <2>1. DOMAIN after = 1 .. Len(flight) /\ DOMAIN flight = 1 .. Len(flight)
    BY <1>4, LenProperties DEF Ready
  <2>. QED BY <1>4, <1>5, <2>1
<1>7. \A g \in Flow : \A q \in DOMAIN probes'[g] : ProbeValues(probes'[g][q])
  BY <1>4, <1>6 DEF ValuesInv, after
<1>8. \A t \in Switch, x \in Slot : IsField(dint_register'[t][x].last, 1)
  <2>1. dint_register \in [Switch -> [Slot -> Register]]
    BY DEF RouteInv, Shape
  <2>2. ASSUME NEW t \in Switch, NEW x \in Slot
        PROVE  dint_register'[t][x].last \in {out, dint_register[t][x].last}
    BY <1>2, <1>4, <2>1
  <2>. QED BY <1>3, <2>2 DEF ValuesInv
<1>. QED BY <1>4, <1>7, <1>8 DEF ValuesInv

LEMMA SendValues ==
  ASSUME RouteInv, ValuesInv, NEW f \in Flow, SendProbe(f)
  PROVE  ValuesInv'
<1>1. /\ Ready(f, WithNew(f), Len(WithNew(f))) /\ Egress(f, WithNew(f), Len(WithNew(f)))
  BY SendReady
<1>2. ASSUME NEW q \in 1 .. Len(WithNew(f)) PROVE ProbeValues(WithNew(f)[q])
  <2>1. CASE q \in DOMAIN probes[f]
    BY <2>1, WithNewFacts DEF ValuesInv
  <2>2. CASE q \notin DOMAIN probes[f]
    <3>1. Hops(WithNew(f)[q]) = 0
      BY <2>2, WithNewFacts
    <3>. QED BY <3>1 DEF ProbeValues
  <2>. QED BY <2>1, <2>2
<1>. QED BY <1>1, <1>2, SteppedValues

LEMMA PassValues ==
  ASSUME RouteInv, ValuesInv, NEW f \in Flow, NEW p \in DOMAIN probes[f], PassSwitch(f, p)
  PROVE  ValuesInv'
<1>1. Ready(f, probes[f], p) /\ Egress(f, probes[f], p)
  BY PassReady
<1>2. DOMAIN probes[f] = 1 .. Len(probes[f])
  BY FlightFacts DEF RouteInv, Shape
<1>. QED BY <1>1, <1>2, SteppedValues DEF ValuesInv

LEMMA RemovedValues ==
  ASSUME RouteInv, ValuesInv, NEW f \in Flow, NEW r \in DOMAIN probes[f], Removed(f, r)
  PROVE  \A g \in Flow : \A q \in DOMAIN probes'[g] : ProbeValues(probes'[g][q])
<1>. DEFINE n == Len(probes[f])
<1>1. n \in Nat /\ DOMAIN probes[f] = 1 .. n /\ r \in 1 .. n
  BY FlightFacts DEF RouteInv, Shape
<1>2. /\ DOMAIN probes'[f] = 1 .. (n - 1)
      /\ \A i \in 1 .. (n - 1) : probes'[f][i] = probes[f][IF i < r THEN i ELSE i + 1]
      /\ \A g \in Flow : g # f => probes'[g] = probes[g]
  BY <1>1, LenProperties DEF Removed
<1>3. \A i \in 1 .. (n - 1) : (IF i < r THEN i ELSE i + 1) \in DOMAIN probes[f]
  BY <1>1
<1>. HIDE DEF n
<1>. QED BY <1>2, <1>3 DEF ValuesInv


(* A hop that can be recovered is recovered as a queue of the flow.        *)
LEMMA ReportedQueues ==
  ASSUME RouteInv, NEW f \in Flow, AtHost(f), IsRecoverable(f, probes[f][1])
  PROVE  ReportedOk(f, probes[f][1]) \subseteq Queues
<1>. DEFINE probe == probes[f][1]
            n == Len(Path[f])
<1>1. ASSUME NEW i \in DOMAIN known[f]
      PROVE  <<Recovered(f, probe, i).deviceno, Recovered(f, probe, i).eport>> \in Queues
  <2>1. n - i \in Hop(f) /\ n - (n - i) = i
    BY AtHostFacts
  <2>2. /\ Recovered(f, probe, n - (n - i))["deviceno"] = Path[f][n - i]
        /\ Recovered(f, probe, n - (n - i))["eport"] = PortAfter(f, n - i)
    BY <2>1, RecoveredFacts
  <2>3. Queue(f, n - i) \in Queues
    BY <2>1, PathFacts
  <2>. HIDE DEF n
  <2>. QED BY <2>1, <2>2, <2>3 DEF Queue
<1>. QED BY <1>1 DEF ReportedOk

LEMMA ReceiveValues ==
  ASSUME RouteInv, ValuesInv, NEW f \in Flow, Receive(f)
  PROVE  ValuesInv'
<1>. DEFINE probe == probes[f][1]
            n == Len(Path[f])
<1>1. /\ Removed(f, 1) /\ 1 \in DOMAIN probes[f] /\ Head(probes[f]) = probe /\ AtHost(f)
  BY ReceiveRemoves DEF Receive
<1>2. /\ \A g \in Flow : \A q \in DOMAIN probes'[g] : ProbeValues(probes'[g][q])
      /\ UNCHANGED dint_register
  BY <1>1, RemovedValues DEF Receive, switches
<1>3. CASE ~IsRecoverable(f, probe)
  <2>1. UNCHANGED <<known, tor, ok>>
    BY <1>1, <1>3 DEF Receive
  <2>. QED BY <1>2, <2>1 DEF ValuesInv
<1>4. CASE IsRecoverable(f, probe)
  <2>1. ProbeValues(probe) /\ Hops(probe) = n /\ n \in Nat \ {0} /\ Hop(f) = 1 .. n
    BY <1>1, AtHostFacts, PathFacts DEF ValuesInv
  <2>2. ASSUME NEW k \in Hop(f)
        PROVE  /\ DOMAIN HeaderOf(probe, k) \subseteq Field
               /\ "timedelta" \in DOMAIN HeaderOf(probe, k) =>
                    HeaderOf(probe, k)["timedelta"] * Scale \in {v * Scale : v \in Value}
    <3>1. OfValue(HeaderOf(probe, k), 1)
      BY <2>1 DEF ProbeValues
    <3>2. "timedelta" \in DOMAIN HeaderOf(probe, k) => HeaderOf(probe, k)["timedelta"] \in Value
      BY <3>1, ValueFacts DEF OfValue
    <3>. QED BY <1>1, <3>2, AtHostFacts
  <2>3. /\ DOMAIN known' = Flow /\ \A g \in Flow : g # f => known'[g] = known[g]
        /\ DOMAIN known'[f] = DOMAIN known[f]
        /\ ok' = [ok EXCEPT ![f] = ReportedOk(f, probe)]
    BY <1>4, ReceivedFacts
  <2>4. ASSUME NEW i \in DOMAIN known[f]
        PROVE  DOMAIN known'[f][i] \subseteq Field /\ OfValue(known'[f][i], Scale)
    <3>. DEFINE k == n - i
                h == HeaderOf(probe, k)
                old == known[f][n - k]
                new == known'[f][n - k]
    <3>1. k \in Hop(f) /\ n - k = i
      BY <1>1, AtHostFacts
    <3>2. /\ DOMAIN new = DOMAIN old \cup DOMAIN h
          /\ \A x \in DOMAIN h : new[x] = IF x = "timedelta" THEN h[x] * Scale ELSE h[x]
          /\ \A x \in DOMAIN old : x \notin DOMAIN h => new[x] = old[x]
      BY <1>4, <3>1, ReceivedFacts, ZenonT(40)
    <3>3. DOMAIN old \subseteq Field /\ OfValue(old, Scale)
      BY <3>1 DEF ValuesInv
    <3>4. DOMAIN h \subseteq Field
          /\ ("timedelta" \in DOMAIN h => h["timedelta"] * Scale \in {v * Scale : v \in Value})
      BY <2>2, <3>1
    <3>. HIDE DEF h, old, new
    <3>5. DOMAIN new \subseteq Field /\ OfValue(new, Scale)
      BY <3>2, <3>3, <3>4 DEF OfValue
    <3>. QED BY <3>1, <3>5 DEF new
  <2>5. IsField(tor', Scale)
    <3>. DEFINE h == HeaderOf(probe, n)
    <3>1. /\ DOMAIN tor' = DOMAIN tor \cup (DOMAIN h \ {"iport"})
          /\ \A x \in DOMAIN tor' :
               tor'[x] = IF x \in DOMAIN h /\ x = "timedelta" THEN h[x] * Scale
                         ELSE IF x \notin DOMAIN tor THEN h[x] ELSE tor[x]
      BY <1>4, ReceivedFacts, ZenonT(40)
    <3>2. "timedelta" \in DOMAIN h => h["timedelta"] * Scale \in {v * Scale : v \in Value}
      BY <2>1, <2>2
    <3>3. OfValue(tor, Scale) /\ DOMAIN tor \subseteq Field
      BY DEF ValuesInv, IsField, OfValue
    <3>4. DOMAIN h \subseteq Field /\ n \in Hop(f)
      BY <2>1, <2>2
    <3>5. OfHop(f, n, tor')
      <4>1. RouteInv'
        BY ReceiveRoute
      <4>. QED BY <4>1 DEF RouteInv, OnRoute, OfHop
    <3>. HIDE DEF h
    <3>6. OfValue(tor', Scale) /\ DOMAIN tor' \subseteq Field
      BY <3>1, <3>2, <3>3, <3>4 DEF OfValue
    <3>. QED BY <3>4, <3>5, <3>6, HopFields
  <2>6. ok' \in [Flow -> SUBSET Queues]
    <3>1. ReportedOk(f, probe) \subseteq Queues
      BY <1>1, <1>4, ReportedQueues
    <3>. QED BY <2>3, <3>1 DEF ValuesInv
  <2>. QED BY <1>2, <2>3, <2>4, <2>5, <2>6 DEF ValuesInv
<1>. QED BY <1>3, <1>4

LEMMA LoseValues ==
  ASSUME RouteInv, ValuesInv, NEW f \in Flow, NEW p \in DOMAIN probes[f], LoseProbe(f, p)
  PROVE  ValuesInv'
<1>1. \A g \in Flow : \A q \in DOMAIN probes'[g] : ProbeValues(probes'[g][q])
  BY LoseRemoves, RemovedValues
<1>2. UNCHANGED <<dint_register, known, tor, ok>>
  BY DEF LoseProbe, switches, receiver
<1>. QED BY <1>1, <1>2 DEF ValuesInv

LEMMA InitValues == Init => ValuesInv
<1>. SUFFICES ASSUME Init PROVE ValuesInv
  OBVIOUS
<1>1. DOMAIN NoFields = {} /\ tor = NoFields
  BY DEF NoFields, Init
<1>2. \A f \in Flow : \A i \in DOMAIN known[f] : known[f][i] = NoFields
  BY DEF Init
<1>3. \A s \in Switch, x \in Slot : dint_register[s][x].last = [y \in Field |-> 0]
  BY DEF Init
<1>4. IsField([y \in Field |-> 0], 1)
  BY ValueFacts DEF IsField, Host
<1>5. \A f \in Flow : DOMAIN probes[f] = {}
  BY DEF Init
<1>6. ok \in [Flow -> SUBSET Queues]
  BY DEF Init
<1>. QED BY <1>1, <1>2, <1>3, <1>4, <1>5, <1>6 DEF ValuesInv, OfValue, IsField

LEMMA NextValues == RouteInv /\ ValuesInv /\ [Next]_vars => ValuesInv'
<1>. SUFFICES ASSUME RouteInv, ValuesInv, [Next]_vars PROVE ValuesInv'
  OBVIOUS
<1>1. ASSUME NEW f \in Flow, ProbeStep(f) PROVE ValuesInv'
  BY <1>1, SendValues, PassValues, ReceiveValues DEF ProbeStep
<1>2. ASSUME NEW f \in Flow, NEW p \in DOMAIN probes[f], LoseProbe(f, p) PROVE ValuesInv'
  BY <1>2, LoseValues
<1>3. CASE (\E queue \in MaySlow : SimulateLatency(queue)) \/ UNCHANGED vars
  <2>1. UNCHANGED <<dint_register, probes, known, tor, ok>>
    BY <1>3 DEF SimulateLatency, receiver, vars, switches
  <2>. QED BY <2>1 DEF ValuesInv
<1>. QED BY <1>1, <1>2, <1>3 DEF Next

LEMMA ValuesTyped == RouteInv /\ ValuesInv => TypeOK
<1>. SUFFICES ASSUME RouteInv, ValuesInv PROVE TypeOK
  OBVIOUS
<1>1. ASSUME NEW f \in Flow, NEW p \in DOMAIN probes[f]
      PROVE  LET probe == probes[f][p]
             IN  /\ Len(probe.headers) <= Len(Path[f])
                 /\ Len(probe.meant) = Len(probe.headers)
                 /\ \A k \in DOMAIN probe.meant : probe.meant[k] \in Value
                 /\ \A k \in DOMAIN probe.headers : IsField(probe.headers[k], 1)
  <2>. DEFINE probe == probes[f][p]
              n == Hops(probe)
  <2>1. /\ n <= Len(Path[f]) /\ Len(probe.meant) = n /\ n = Len(probe.headers)
        /\ Right(f, probes[f]) /\ ProbeValues(probe)
    BY DEF RouteInv, Flights, Sound, OnRoute, ValuesInv, Hops
  <2>2. probe \in Probe /\ n \in Nat
    BY FlightFacts DEF RouteInv, Shape
  <2>3. /\ DOMAIN probe.meant = 1 .. n /\ DOMAIN probe.headers = 1 .. n
        /\ probe.headers \in Seq(Header) /\ Hop(f) = 1 .. Len(Path[f]) /\ Len(Path[f]) \in Nat
    BY <2>1, <2>2, LenProperties, PathFacts DEF Probe
  <2>4. ASSUME NEW k \in 1 .. n PROVE probe.meant[k] \in Value /\ IsField(probe.headers[k], 1)
    <3>. DEFINE j == n + 1 - k
    <3>1. j \in 1 .. n /\ n + 1 - j = k /\ j \in Hop(f)
      <4>1. n \in Nat /\ n <= Len(Path[f]) /\ Hop(f) = 1 .. Len(Path[f]) /\ Len(Path[f]) \in Nat
        BY <2>1, <2>2, <2>3
      <4>. HIDE DEF n
      <4>. QED BY <4>1
    <3>2. HeaderOf(probe, j) = probe.headers[k] /\ MeantOf(probe, j) = probe.meant[k]
      BY <2>1, <3>1 DEF HeaderOf, MeantOf
    <3>3. OfValue(probe.headers[k], 1) /\ probe.meant[k] \in Value
      BY <2>1, <3>1, <3>2 DEF ProbeValues
    <3>4. OfHop(f, j, probe.headers[k])
      BY <2>1, <3>1, <3>2 DEF Right
    <3>5. DOMAIN probe.headers[k] \subseteq Field
      <4>1. probe.headers[k] \in Header
        BY <2>1, <2>3, ElementOfSeq
      <4>. QED BY <4>1 DEF Header
    <3>. QED BY <3>1, <3>3, <3>4, <3>5, HopFields
  <2>. QED BY <2>1, <2>3, <2>4
<1>2. ASSUME NEW f \in Flow, NEW i \in DOMAIN known[f] PROVE IsField(known[f][i], Scale)
  <2>. DEFINE n == Len(Path[f])
  <2>1. n - i \in Hop(f) /\ n - (n - i) = i
    <3>1. DOMAIN known[f] = 0 .. (n - 1)
      BY DEF RouteInv, Shape
    <3>. QED BY <3>1, PathFacts
  <2>2. OfHop(f, n - i, known[f][n - (n - i)])
    BY <2>1 DEF RouteInv, OnRoute
  <2>3. DOMAIN known[f][i] \subseteq Field /\ OfValue(known[f][i], Scale)
    BY DEF ValuesInv
  <2>. HIDE DEF n
  <2>. QED BY <2>1, <2>2, <2>3, HopFields
<1>3. IsField(tor, Scale)
  BY DEF ValuesInv
<1>4. \A s \in Switch, x \in Slot :
        /\ dint_register[s][x].flow \in Flow \cup {NoFlow}
        /\ DOMAIN dint_register[s][x].last = Field
        /\ IsField(dint_register[s][x].last, 1)
  <2>1. dint_register \in [Switch -> [Slot -> Register]]
    BY DEF RouteInv, Shape
  <2>2. \A s \in Switch, x \in Slot : dint_register[s][x] \in Register
    BY <2>1
  <2>. QED BY <2>2 DEF ValuesInv, Register
<1>. QED BY <1>1, <1>2, <1>3, <1>4 DEF TypeOK, RouteInv, Shape, ValuesInv

(* Registers, headers and maps hold fields of their kind, and only queues  *)
(* of the network are reported, also when a path visits a switch twice     *)
(* (dint_receive.py:63-146).                                               *)
THEOREM PathTyped == Spec => []TypeOK
<1>1. Init => RouteInv /\ ValuesInv
  BY InitRoute, InitValues
<1>2. RouteInv /\ ValuesInv /\ [Next]_vars => (RouteInv /\ ValuesInv)'
  BY NextRoute, NextValues
<1>. QED BY <1>1, <1>2, ValuesTyped, PTL DEF Spec

=============================================================================
