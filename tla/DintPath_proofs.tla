---------------------------- MODULE DintPath_proofs ----------------------------
(***************************************************************************)
(* What DintPath keeps for any flows, paths, hash function, threshold,     *)
(* number of packets on the links and number of losses.                    *)
(***************************************************************************)
EXTENDS DintPath, SequenceTheorems, TLAPS

(* The saved values are read as meant if no path visits a switch twice (a  *)
(* switch keeps one pair of numbers for both visits) and if the power of a *)
(* port is neither 0, which means "saved", nor too large for the field.    *)
NoLoops ==
  \A f \in Flow : \A j, k \in DOMAIN Path[f] : Path[f][j] = Path[f][k] => j = k
PowersFit == Power \subseteq 1 .. (PowerLimit - 1)

-----------------------------------------------------------------------------
(* The invariant.  The flows of a slot are S.  What a switch has on them   *)
(* is a function on S; a packet of one of them that comes by leaves its    *)
(* meaning for its own flow and nothing for the others.                    *)
Only(S, p) == [g \in S |-> IF g = p.flow THEN p.meant ELSE 0]

(* p means the same to a switch that has known on the flows of the slot.   *)
Understood(p, known) ==
  \/ p.power # 0 /\ p.power = p.meant
  \/ p.power = 0 /\ known[p.flow] = p.meant

(* The packets w of a link lead from what the far end has, dst, to what    *)
(* the near end has, src.                                                  *)
Leads(st, w, S) ==
  \A j \in 1 .. Len(w) :
    IF w[j].flow \in S
    THEN st[j] = Only(S, w[j]) /\ Understood(w[j], st[j - 1])
    ELSE st[j] = st[j - 1]
Chain(w, S, dst, src) ==
  \E st \in [0 .. Len(w) -> [S -> Nat]] :
    st[0] = dst /\ st[Len(w)] = src /\ Leads(st, w, S)

(* The two ends of the k-th link of f.                                     *)
Sent(f, k) == [g \in Sharing(f) |-> OfFlow(Path[f][k], g, prev_outputs)]
Got(f, k) == IF k < Len(Path[f])
             THEN [g \in Sharing(f) |-> OfFlow(Path[f][k + 1], g, prev_inputs)]
             ELSE [g \in Sharing(f) |-> view[g]]

Followed(f, k) ==
  /\ f \notin harmed /\ SamePathInSlot(f)
  /\ k = Len(Path[f]) => Sharing(f) = {f}

Linked ==
  \A f \in Flow : \A k \in DOMAIN Path[f] :
    Followed(f, k) => Chain(wire[LinkAfter(f, k)], Sharing(f), Got(f, k), Sent(f, k))

(* Numbers in the sketches fit the field.                                  *)
Bounded ==
  \A h \in Switch, x \in Slot :
    prev_inputs[h][x] < PowerLimit /\ prev_outputs[h][x] < PowerLimit

(* The first switch of a flow gets blank headers.                          *)
FirstBlank ==
  \A f \in Flow : Sharing(f) = {f} => OfFlow(Path[f][1], f, prev_inputs) = 0

(* What a packet means differs from what it met by one threshold per hop.  *)
Near(p) == Diff(p.meant, p.met) <= DINT_diff * p.nhop
PacketsNear ==
  \A l \in Link : \A j \in DOMAIN wire[l] :
    wire[l][j].flow \notin harmed /\ Sharing(wire[l][j].flow) = {wire[l][j].flow}
      => Near(wire[l][j])

IInv == TypeOK /\ Bounded /\ Linked /\ FirstBlank /\ PacketsNear /\ ViewAccurate
-----------------------------------------------------------------------------
(* Links and the packets on them.                                          *)

LEMMA PathFacts ==
  ASSUME NEW f \in Flow
  PROVE  /\ Path[f] \in Seq(Switch) /\ Len(Path[f]) \in Nat \ {0}
         /\ DOMAIN Path[f] = 1 .. Len(Path[f])
         /\ \A k \in DOMAIN Path[f] : /\ Path[f][k] \in Switch /\ Path[f][k] # Host
                                      /\ LinkAfter(f, k) \in Link
<1>1. Path[f] \in Seq(Switch) /\ Path[f] # <<>>
  BY DintPaths
<1>2. Len(Path[f]) \in Nat \ {0}
  BY <1>1, EmptySeq
<1>3. DOMAIN Path[f] = 1 .. Len(Path[f]) /\ \A k \in DOMAIN Path[f] : Path[f][k] \in Switch
  BY <1>1, LenProperties, ElementOfSeq
<1>4. ASSUME NEW k \in DOMAIN Path[f] PROVE LinkAfter(f, k) \in Link
  BY DEF Link
<1> QED
  BY <1>1, <1>2, <1>3, <1>4, DintPaths

LEMMA LinkEnds ==
  ASSUME NEW f \in Flow, NEW k \in DOMAIN Path[f]
  PROVE  /\ LinkAfter(f, k)[1] = Path[f][k]
         /\ k < Len(Path[f]) => LinkAfter(f, k)[2] = Path[f][k + 1] /\ k + 1 \in DOMAIN Path[f]
         /\ LinkAfter(f, k)[2] = Host <=> k = Len(Path[f])
<1>1. Len(Path[f]) \in Nat /\ DOMAIN Path[f] = 1 .. Len(Path[f])
  BY PathFacts
<1>2. k < Len(Path[f]) => k + 1 \in DOMAIN Path[f]
  BY <1>1
<1>3. k < Len(Path[f]) => Path[f][k + 1] # Host
  BY <1>2, PathFacts
<1> QED
  BY <1>1, <1>2, <1>3 DEF LinkAfter

(* Each packet is on the link after the last switch it has passed.         *)
On(l, p) ==
  /\ p.nhop \in DOMAIN Path[p.flow]
  /\ l = LinkAfter(p.flow, p.nhop)
  /\ p.nsave <= p.nhop
OnItsLink(ws) ==
  /\ ws \in [Link -> Seq(Packet)]
  /\ \A l \in Link : \A k \in DOMAIN ws[l] : On(l, ws[l][k])

LEMMA TypeParts ==
  TypeOK <=> /\ hashidx \in [Flow -> Slot]
             /\ flowkeys \in [Switch -> [Slot -> Flow \cup {NoFlow}]]
             /\ prev_inputs \in [Switch -> [Slot -> Nat]]
             /\ prev_outputs \in [Switch -> [Slot -> Nat]]
             /\ OnItsLink(wire)
             /\ view \in [Flow -> Nat] /\ truth \in [Flow -> Nat]
             /\ harmed \subseteq Flow
  BY DEF TypeOK, OnItsLink, On

LEMMA HeadPacket ==
  ASSUME NEW ws, OnItsLink(ws), NEW l \in Link, ws[l] # <<>>
  PROVE  /\ Head(ws[l]) = ws[l][1] /\ 1 \in DOMAIN ws[l]
         /\ Head(ws[l]) \in Packet /\ Head(ws[l]).flow \in Flow
         /\ Head(ws[l]).nhop \in DOMAIN Path[Head(ws[l]).flow]
         /\ l = LinkAfter(Head(ws[l]).flow, Head(ws[l]).nhop)
         /\ Head(ws[l]).nsave <= Head(ws[l]).nhop
<1>1. ws[l] \in Seq(Packet)
  BY DEF OnItsLink
<1>2. Head(ws[l]) = ws[l][1] /\ 1 \in DOMAIN ws[l]
  BY <1>1, EmptySeq, LenProperties
<1>3. Head(ws[l]) \in Packet
  BY <1>1, HeadTailProperties
<1> QED
  BY <1>2, <1>3 DEF OnItsLink, On, Packet

LEMMA DropHead ==
  ASSUME OnItsLink(wire), NEW l \in Link, wire[l] # <<>>
  PROVE  /\ OnItsLink(Arrived(l))
         /\ Arrived(l)[l] = Tail(wire[l])
         /\ \A m \in Link \ {l} : Arrived(l)[m] = wire[m]
         /\ \A m \in Link : \A k \in DOMAIN Arrived(l)[m] :
              \E j \in DOMAIN wire[m] : Arrived(l)[m][k] = wire[m][j]
<1> DEFINE vs == Arrived(l)
<1>1. wire \in [Link -> Seq(Packet)] /\ wire[l] \in Seq(Packet)
  BY DEF OnItsLink
<1>2. /\ Tail(wire[l]) \in Seq(Packet) /\ Len(Tail(wire[l])) = Len(wire[l]) - 1
      /\ \A i \in 1 .. Len(Tail(wire[l])) : Tail(wire[l])[i] = wire[l][i + 1]
  BY <1>1, HeadTailProperties
<1>3. vs \in [Link -> Seq(Packet)] /\ vs[l] = Tail(wire[l])
      /\ \A m \in Link \ {l} : vs[m] = wire[m]
  BY <1>1, <1>2 DEF Arrived
<1> HIDE DEF vs
<1>4. ASSUME NEW m \in Link, NEW k \in DOMAIN vs[m]
      PROVE  \E j \in DOMAIN wire[m] : vs[m][k] = wire[m][j]
  <2>1. CASE m # l
    BY <1>3, <1>4, <2>1
  <2>2. CASE m = l
    <3>1. k \in 1 .. Len(Tail(wire[l])) /\ DOMAIN wire[l] = 1 .. Len(wire[l]) /\ Len(wire[l]) \in Nat
      BY <1>1, <1>2, <1>3, <1>4, <2>2, LenProperties
    <3>2. k + 1 \in DOMAIN wire[l] /\ vs[l][k] = wire[l][k + 1]
      BY <1>2, <1>3, <3>1
    <3> QED
      BY <2>2, <3>2
  <2> QED
    BY <2>1, <2>2
<1>5. OnItsLink(vs)
  BY <1>3, <1>4 DEF OnItsLink
<1> QED
  BY <1>3, <1>4, <1>5 DEF vs

(* The wires ws with one more packet.                                      *)
Put(ws, l, p) == [ws EXCEPT ![l] = Append(@, p)]

LEMMA AppendPacket ==
  ASSUME NEW ws, OnItsLink(ws), NEW p \in Packet, NEW l, On(l, p), NEW vs, vs = Put(ws, l, p)
  PROVE  /\ l \in Link
         /\ OnItsLink(vs)
         /\ vs[l] = Append(ws[l], p)
         /\ \A m \in Link \ {l} : vs[m] = ws[m]
         /\ \A m \in Link : \A k \in DOMAIN vs[m] :
              \/ vs[m][k] = p
              \/ \E j \in DOMAIN ws[m] : vs[m][k] = ws[m][j]
<1>0. p.flow \in Flow
  BY DEF Packet
<1>1. ws \in [Link -> Seq(Packet)] /\ l \in Link /\ ws[l] \in Seq(Packet)
  BY <1>0, PathFacts DEF OnItsLink, On
<1>2. /\ Append(ws[l], p) \in Seq(Packet) /\ Len(Append(ws[l], p)) = Len(ws[l]) + 1
      /\ \A i \in 1 .. Len(ws[l]) : Append(ws[l], p)[i] = ws[l][i]
      /\ Append(ws[l], p)[Len(ws[l]) + 1] = p
  BY <1>1, AppendProperties
<1>3. vs \in [Link -> Seq(Packet)] /\ vs[l] = Append(ws[l], p)
      /\ \A m \in Link \ {l} : vs[m] = ws[m]
  BY <1>1, <1>2 DEF Put
<1>4. ASSUME NEW m \in Link, NEW k \in DOMAIN vs[m]
      PROVE  \/ vs[m][k] = p /\ m = l
             \/ \E j \in DOMAIN ws[m] : vs[m][k] = ws[m][j]
  <2>1. CASE m # l
    BY <1>3, <1>4, <2>1
  <2>2. CASE m = l
    <3>1. k \in 1 .. (Len(ws[l]) + 1) /\ DOMAIN ws[l] = 1 .. Len(ws[l]) /\ Len(ws[l]) \in Nat
      BY <1>1, <1>2, <1>3, <1>4, <2>2, LenProperties
    <3>2. k = Len(ws[l]) + 1 \/ k \in DOMAIN ws[l]
      BY <3>1
    <3> QED
      BY <1>2, <1>3, <2>2, <3>1, <3>2
  <2> QED
    BY <2>1, <2>2
<1>5. OnItsLink(vs)
  BY <1>3, <1>4 DEF OnItsLink
<1> QED
  BY <1>1, <1>3, <1>4, <1>5

-----------------------------------------------------------------------------
(* Chains.                                                                 *)

LEMMA ChainEmpty ==
  ASSUME NEW S, NEW known \in [S -> Nat]
  PROVE  Chain(<<>>, S, known, known)
<1> DEFINE st == [j \in 0 .. 0 |-> known]
<1>1. Len(<<>>) = 0
  BY EmptySeq
<1>2. st \in [0 .. Len(<<>>) -> [S -> Nat]] /\ st[0] = known /\ st[Len(<<>>)] = known
  BY <1>1
<1>3. Leads(st, <<>>, S)
  BY <1>1 DEF Leads
<1> QED
  BY <1>2, <1>3 DEF Chain

(* What the flows of a slot know after packet p. *)
After(S, p, known) == IF p.flow \in S THEN Only(S, p) ELSE known

LEMMA AfterType ==
  ASSUME NEW S, NEW p \in Packet, NEW known \in [S -> Nat]
  PROVE  After(S, p, known) \in [S -> Nat]
BY DEF After, Only, Packet

LEMMA ChainAppend ==
  ASSUME NEW S, NEW w \in Seq(Packet), NEW p \in Packet, NEW dst, NEW src,
         Chain(w, S, dst, src), p.flow \in S => Understood(p, src)
  PROVE  Chain(Append(w, p), S, dst, After(S, p, src))
<1>1. PICK st \in [0 .. Len(w) -> [S -> Nat]] :
        st[0] = dst /\ st[Len(w)] = src /\ Leads(st, w, S)
  BY DEF Chain
<1>2. /\ Len(w) \in Nat /\ Len(Append(w, p)) = Len(w) + 1
      /\ \A i \in 1 .. Len(w) : Append(w, p)[i] = w[i]
      /\ Append(w, p)[Len(w) + 1] = p
  BY AppendProperties, LenProperties
<1>3. After(S, p, src) \in [S -> Nat]
  BY <1>1, <1>2, AfterType
<1> DEFINE nt == [j \in 0 .. Len(w) + 1 |-> IF j <= Len(w) THEN st[j] ELSE After(S, p, src)]
<1>4. /\ nt \in [0 .. Len(Append(w, p)) -> [S -> Nat]]
      /\ nt[0] = dst /\ nt[Len(w) + 1] = After(S, p, src) /\ nt[Len(w)] = src
      /\ \A j \in 0 .. Len(w) : nt[j] = st[j]
  BY <1>1, <1>2, <1>3
<1> HIDE DEF nt
<1>5. Leads(nt, Append(w, p), S)
  <2> SUFFICES ASSUME NEW j \in 1 .. Len(w) + 1
               PROVE  IF Append(w, p)[j].flow \in S
                      THEN /\ nt[j] = Only(S, Append(w, p)[j])
                           /\ Understood(Append(w, p)[j], nt[j - 1])
                      ELSE nt[j] = nt[j - 1]
    BY <1>2 DEF Leads
  <2>1. CASE j \in 1 .. Len(w)
    <3>1. j \in 0 .. Len(w) /\ j - 1 \in 0 .. Len(w)
      BY <1>2, <2>1
    <3> QED
      BY <1>1, <1>2, <1>4, <2>1, <3>1 DEF Leads
  <2>2. CASE j = Len(w) + 1
    <3>1. j - 1 = Len(w)
      BY <1>2, <2>2
    <3> QED
      BY <1>2, <1>4, <2>2, <3>1 DEF After
  <2> QED
    BY <1>2, <2>1, <2>2
<1> QED
  BY <1>2, <1>4, <1>5 DEF Chain

LEMMA ChainTail ==
  ASSUME NEW S, NEW w \in Seq(Packet), w # <<>>, NEW dst, NEW src, Chain(w, S, dst, src)
  PROVE  /\ Head(w).flow \in S => Understood(Head(w), dst)
         /\ Chain(Tail(w), S, After(S, Head(w), dst), src)
<1>1. PICK st \in [0 .. Len(w) -> [S -> Nat]] :
        st[0] = dst /\ st[Len(w)] = src /\ Leads(st, w, S)
  BY DEF Chain
<1>2. /\ Len(w) \in Nat \ {0} /\ Head(w) = w[1] /\ Len(Tail(w)) = Len(w) - 1
      /\ \A i \in 1 .. Len(w) - 1 : Tail(w)[i] = w[i + 1]
  BY HeadTailProperties, EmptySeq
<1>3. 1 \in 1 .. Len(w) /\ 1 - 1 = 0
  BY <1>2
<1>4. /\ w[1].flow \in S => Understood(w[1], dst)
      /\ st[1] = After(S, w[1], dst)
  BY <1>1, <1>3 DEF Leads, After
<1> DEFINE nt == [j \in 0 .. Len(w) - 1 |-> st[j + 1]]
<1>5. /\ nt \in [0 .. Len(Tail(w)) -> [S -> Nat]]
      /\ nt[0] = st[1] /\ nt[Len(w) - 1] = src
      /\ \A j \in 0 .. Len(w) - 1 : nt[j] = st[j + 1]
  BY <1>1, <1>2
<1> HIDE DEF nt
<1>6. Leads(nt, Tail(w), S)
  <2> SUFFICES ASSUME NEW j \in 1 .. Len(w) - 1
               PROVE  IF Tail(w)[j].flow \in S
                      THEN /\ nt[j] = Only(S, Tail(w)[j])
                           /\ Understood(Tail(w)[j], nt[j - 1])
                      ELSE nt[j] = nt[j - 1]
    BY <1>2 DEF Leads
  <2>1. /\ j + 1 \in 1 .. Len(w) /\ (j + 1) - 1 = (j - 1) + 1
        /\ j \in 0 .. Len(w) - 1 /\ j - 1 \in 0 .. Len(w) - 1
    BY <1>2
  <2>2. Tail(w)[j] = w[j + 1] /\ nt[j] = st[j + 1] /\ nt[j - 1] = st[(j + 1) - 1]
    BY <1>2, <1>5, <2>1
  <2> QED
    BY <1>1, <2>1, <2>2 DEF Leads
<1> QED
  BY <1>2, <1>4, <1>5, <1>6 DEF Chain

-----------------------------------------------------------------------------
(* One switch handles one packet.                                          *)

LEMMA OfFlowNat ==
  ASSUME TypeOK, NEW h \in Switch, NEW f \in Flow
  PROVE  /\ OfFlow(h, f, prev_inputs) \in Nat /\ OfFlow(h, f, prev_outputs) \in Nat
         /\ Bounded => /\ OfFlow(h, f, prev_inputs) < PowerLimit
                       /\ OfFlow(h, f, prev_outputs) < PowerLimit
<1>1. hashidx[f] \in Slot
  BY TypeParts
<1>2. prev_inputs[h][hashidx[f]] \in Nat /\ prev_outputs[h][hashidx[f]] \in Nat
  BY <1>1, TypeParts
<1>3. Bounded => prev_inputs[h][hashidx[f]] < PowerLimit /\ prev_outputs[h][hashidx[f]] < PowerLimit
  BY <1>1 DEF Bounded
<1> QED
  BY <1>2, <1>3, DintNumbers DEF OfFlow

LEMMA HeaderNumbers ==
  ASSUME TypeOK, NEW h \in Switch, NEW p \in Packet, NEW status \in Power
  PROVE  /\ CurInput(h, p) \in Nat /\ MaxPower(h, p, status) \in Nat
         /\ Output(h, p, status) \in Nat
         /\ Rewritten(h, p, status) \in Packet
         /\ Rewritten(h, p, status).flow = p.flow
         /\ Rewritten(h, p, status).nhop = p.nhop + 1
         /\ p.nsave <= p.nhop =>
              Rewritten(h, p, status).nsave <= Rewritten(h, p, status).nhop
<1>1. /\ p.flow \in Flow /\ p.power \in Nat /\ p.nhop \in Nat /\ p.nsave \in Nat
      /\ p.meant \in Nat /\ p.met \in Nat
  BY DintNumbers DEF Packet
<1>2. status \in Nat /\ PowerLimit \in Nat \ {0}
  BY DintNumbers
<1>3. CurInput(h, p) \in Nat
  BY <1>1, OfFlowNat DEF CurInput
<1>4. MaxPower(h, p, status) \in Nat
  BY <1>2, <1>3 DEF MaxPower, Larger
<1>5. Output(h, p, status) \in Nat
  BY <1>1, <1>4, OfFlowNat DEF Output
<1>6. SetPower(MaxPower(h, p, status)) \in 0 .. (PowerLimit - 1) /\ 0 \in 0 .. (PowerLimit - 1)
  BY <1>2, <1>4 DEF SetPower
<1>7. Larger(p.met, status) \in Nat
  BY <1>1, <1>2 DEF Larger
<1>8. Rewritten(h, p, status) \in Packet
  BY <1>1, <1>5, <1>6, <1>7 DEF Rewritten, Packet
<1>9. /\ Rewritten(h, p, status).flow = p.flow
      /\ Rewritten(h, p, status).nhop = p.nhop + 1
      /\ p.nsave <= p.nhop => Rewritten(h, p, status).nsave <= Rewritten(h, p, status).nhop
  BY <1>1 DEF Rewritten
<1> QED
  BY <1>3, <1>4, <1>5, <1>8, <1>9

LEMMA DequeueType ==
  ASSUME TypeOK, NEW h \in Switch, NEW p \in Packet, NEW status \in Power, NEW pending,
         OnItsLink(pending), p.nhop + 1 \in DOMAIN Path[p.flow], p.nsave <= p.nhop,
         SwitchNotifyDequeue(h, p, status, pending)
  PROVE  /\ TypeOK'
         /\ LinkAfter(p.flow, p.nhop + 1) \in Link
         /\ \A m \in Link : \A k \in DOMAIN wire'[m] :
              \/ wire'[m][k] = Rewritten(h, p, status)
              \/ \E j \in DOMAIN pending[m] : wire'[m][k] = pending[m][j]
<1> DEFINE q == Rewritten(h, p, status)
           l == LinkAfter(p.flow, p.nhop + 1)
           x == hashidx[p.flow]
<1>1. p.flow \in Flow /\ x \in Slot
  BY TypeParts DEF Packet
<1>2. /\ q \in Packet /\ q.flow = p.flow /\ q.nhop = p.nhop + 1 /\ q.nsave <= q.nhop
      /\ CurInput(h, p) \in Nat /\ Output(h, p, status) \in Nat
  BY HeaderNumbers
<1>3. /\ flowkeys' = [flowkeys EXCEPT ![h][x] = p.flow]
      /\ prev_inputs' = [prev_inputs EXCEPT ![h][x] = CurInput(h, p)]
      /\ prev_outputs' = [prev_outputs EXCEPT ![h][x] = Output(h, p, status)]
      /\ wire' = [pending EXCEPT ![l] = Append(@, q)]
      /\ UNCHANGED <<hashidx, view, truth, harmed, losses>>
  BY DEF SwitchNotifyDequeue, sender
<1> HIDE DEF q, l, x
<1>4. On(l, q)
  BY <1>2 DEF l, On
<1>5. /\ l \in Link /\ OnItsLink(wire')
      /\ \A m \in Link : \A k \in DOMAIN wire'[m] :
           \/ wire'[m][k] = q
           \/ \E j \in DOMAIN pending[m] : wire'[m][k] = pending[m][j]
  <2>1. q \in Packet /\ wire' = Put(pending, l, q)
    BY <1>2, <1>3 DEF Put
  <2> QED
    BY <1>4, <2>1, AppendPacket
<1>6. flowkeys' \in [Switch -> [Slot -> Flow \cup {NoFlow}]]
  BY <1>1, <1>3, TypeParts
<1>7. prev_inputs' \in [Switch -> [Slot -> Nat]] /\ prev_outputs' \in [Switch -> [Slot -> Nat]]
  BY <1>1, <1>2, <1>3, TypeParts
<1>8. hashidx' \in [Flow -> Slot] /\ view' \in [Flow -> Nat] /\ truth' \in [Flow -> Nat]
      /\ harmed' \subseteq Flow
  BY <1>3, TypeParts
<1>9. TypeOK'
  BY <1>5, <1>6, <1>7, <1>8 DEF TypeOK, OnItsLink, On
<1> QED
  BY <1>5, <1>9 DEF q, l

(* What the sketches have afterwards.                                      *)
LEMMA SketchAfter ==
  ASSUME TypeOK, NEW h \in Switch, NEW p \in Packet, NEW status \in Power, NEW pending,
         SwitchNotifyDequeue(h, p, status, pending), NEW i \in Switch, NEW f \in Flow
  PROVE  /\ OfFlow(i, f, prev_inputs)' =
              IF i = h /\ hashidx[f] = hashidx[p.flow]
              THEN IF f = p.flow THEN CurInput(h, p) ELSE 0
              ELSE OfFlow(i, f, prev_inputs)
         /\ OfFlow(i, f, prev_outputs)' =
              IF i = h /\ hashidx[f] = hashidx[p.flow]
              THEN IF f = p.flow THEN Output(h, p, status) ELSE 0
              ELSE OfFlow(i, f, prev_outputs)
<1> DEFINE x == hashidx[p.flow]
<1>1. p.flow \in Flow /\ x \in Slot /\ hashidx[f] \in Slot
  BY TypeParts DEF Packet
<1>2. /\ flowkeys' = [flowkeys EXCEPT ![h][x] = p.flow]
      /\ prev_inputs' = [prev_inputs EXCEPT ![h][x] = CurInput(h, p)]
      /\ prev_outputs' = [prev_outputs EXCEPT ![h][x] = Output(h, p, status)]
      /\ hashidx' = hashidx
  BY DEF SwitchNotifyDequeue
<1> HIDE DEF x
<1>3. /\ flowkeys'[i][hashidx[f]] = IF i = h /\ hashidx[f] = x THEN p.flow ELSE flowkeys[i][hashidx[f]]
      /\ prev_inputs'[i][hashidx[f]] =
           IF i = h /\ hashidx[f] = x THEN CurInput(h, p) ELSE prev_inputs[i][hashidx[f]]
      /\ prev_outputs'[i][hashidx[f]] =
           IF i = h /\ hashidx[f] = x THEN Output(h, p, status) ELSE prev_outputs[i][hashidx[f]]
  BY <1>1, <1>2, TypeParts
<1> QED
  BY <1>2, <1>3 DEF OfFlow, x

(* A saved value is meant to say what the sketch has already; a value that *)
(* is sent fits the field. *)
LEMMA RewrittenUnderstood ==
  ASSUME PowersFit, TypeOK, Bounded, NEW h \in Switch, NEW p \in Packet, NEW status \in Power,
         NEW src, src[p.flow] = OfFlow(h, p.flow, prev_outputs)
  PROVE  /\ Understood(Rewritten(h, p, status), src)
         /\ CurInput(h, p) < PowerLimit /\ Output(h, p, status) < PowerLimit
<1>1. /\ p.flow \in Flow /\ p.power \in 0 .. (PowerLimit - 1) /\ PowerLimit \in Nat \ {0}
      /\ status \in 1 .. (PowerLimit - 1)
  BY DintNumbers DEF Packet, PowersFit
<1>2. CurInput(h, p) \in 0 .. (PowerLimit - 1)
  BY <1>1, OfFlowNat DEF CurInput
<1>3. MaxPower(h, p, status) \in 1 .. (PowerLimit - 1)
  BY <1>1, <1>2 DEF MaxPower, Larger
<1>4. SetPower(MaxPower(h, p, status)) = MaxPower(h, p, status)
  BY <1>1, <1>3 DEF SetPower
<1>5. CASE Sends(h, p, status)
  BY <1>1, <1>2, <1>3, <1>4, <1>5 DEF Rewritten, Output, Understood
<1>6. CASE ~ Sends(h, p, status)
  BY <1>1, <1>2, <1>6, OfFlowNat DEF Rewritten, Output, Understood
<1> QED
  BY <1>1, <1>2, <1>5, <1>6

LEMMA DequeueLinked ==
  ASSUME NoLoops, PowersFit, TypeOK, Bounded,
         NEW h \in Switch, NEW p \in Packet, NEW status \in Power, NEW pending,
         OnItsLink(pending), p.nhop + 1 \in DOMAIN Path[p.flow], h = Path[p.flow][p.nhop + 1],
         SwitchNotifyDequeue(h, p, status, pending),
         \A f \in Flow : \A k \in DOMAIN Path[f] :
           Followed(f, k) =>
             Chain(pending[LinkAfter(f, k)], Sharing(f), Got(f, k)', Sent(f, k))
  PROVE  Linked'
<1> DEFINE q == Rewritten(h, p, status)
           l == LinkAfter(p.flow, p.nhop + 1)
<1>1. p.flow \in Flow
  BY DEF Packet
<1>2. q \in Packet /\ q.flow = p.flow /\ q.meant = Output(h, p, status) /\ Output(h, p, status) \in Nat
  BY HeaderNumbers DEF Rewritten
<1>3. /\ l \in Link /\ l[1] = h
      /\ pending \in [Link -> Seq(Packet)]
  BY <1>1, PathFacts, LinkEnds DEF OnItsLink
<1>4. /\ wire' = [pending EXCEPT ![l] = Append(@, q)]
      /\ hashidx' = hashidx /\ harmed' = harmed
  BY DEF SwitchNotifyDequeue
<1>5. /\ wire'[l] = Append(pending[l], q)
      /\ \A m \in Link \ {l} : wire'[m] = pending[m]
  BY <1>3, <1>4
<1> HIDE DEF q, l
<1>6. SUFFICES ASSUME NEW f \in Flow, NEW k \in DOMAIN Path[f], Followed(f, k)
               PROVE  Chain(wire'[LinkAfter(f, k)], Sharing(f), Got(f, k)', Sent(f, k)')
  BY <1>4 DEF Linked, Followed, SamePathInSlot, Sharing
<1>7. /\ LinkAfter(f, k) \in Link /\ Path[f][k] \in Switch
      /\ LinkAfter(f, k)[1] = Path[f][k]
      /\ pending[LinkAfter(f, k)] \in Seq(Packet)
  BY <1>3, PathFacts, LinkEnds
<1>8. Chain(pending[LinkAfter(f, k)], Sharing(f), Got(f, k)', Sent(f, k))
  BY <1>6
<1>9. CASE p.flow \notin Sharing(f)
  <2>1. \A g \in Sharing(f) : g \in Flow /\ hashidx[g] # hashidx[p.flow]
    BY <1>1, <1>9 DEF Sharing
  <2>2. Sent(f, k)' = Sent(f, k)
    <3>1. ASSUME NEW g \in Sharing(f)
          PROVE  OfFlow(Path[f][k], g, prev_outputs)' = OfFlow(Path[f][k], g, prev_outputs)
      BY <1>7, <2>1, SketchAfter
    <3>2. Sharing(f)' = Sharing(f)
      BY <1>4 DEF Sharing
    <3> QED
      BY <3>1, <3>2 DEF Sent
  <2>3. CASE LinkAfter(f, k) = l
    <3>1. Chain(Append(pending[l], q), Sharing(f), Got(f, k)', After(Sharing(f), q, Sent(f, k)))
      BY <1>2, <1>7, <1>8, <1>9, <2>3, ChainAppend
    <3> QED
      BY <1>2, <1>5, <1>9, <2>2, <2>3, <3>1 DEF After
  <2>4. CASE LinkAfter(f, k) # l
    BY <1>5, <1>7, <1>8, <2>2, <2>4
  <2> QED
    BY <2>3, <2>4
<1>10. CASE p.flow \in Sharing(f)
  <2>1. Path[p.flow] = Path[f]
    BY <1>6, <1>10 DEF Followed, SamePathInSlot
  <2>2. CASE k = p.nhop + 1
    <3>1. LinkAfter(f, k) = l /\ Path[f][k] = h
      BY <2>1, <2>2 DEF l, LinkAfter
    <3>2. Sent(f, k)[p.flow] = OfFlow(h, p.flow, prev_outputs)
      BY <1>10, <3>1 DEF Sent
    <3>3. Understood(q, Sent(f, k))
      BY <1>10, <3>2, RewrittenUnderstood DEF q
    <3>4. Chain(Append(pending[l], q), Sharing(f), Got(f, k)', After(Sharing(f), q, Sent(f, k)))
      BY <1>2, <1>7, <1>8, <3>1, <3>3, ChainAppend
    <3>5. Sent(f, k)' = Only(Sharing(f), q)
      <4>1. ASSUME NEW g \in Sharing(f)
            PROVE  OfFlow(Path[f][k], g, prev_outputs)' = IF g = p.flow THEN q.meant ELSE 0
        <5>1. g \in Flow /\ hashidx[g] = hashidx[p.flow]
          BY <1>10 DEF Sharing
        <5> QED
          BY <1>2, <3>1, <5>1, SketchAfter
      <4>2. Sharing(f)' = Sharing(f)
        BY <1>4 DEF Sharing
      <4> QED
        BY <1>2, <4>1, <4>2 DEF Sent, Only
    <3> QED
      BY <1>2, <1>5, <1>10, <3>1, <3>4, <3>5 DEF After
  <2>3. CASE k # p.nhop + 1
    <3>1. Path[f][k] # h
      BY <2>1, <2>3 DEF NoLoops
    <3>2. LinkAfter(f, k) # l
      BY <1>3, <1>7, <3>1
    <3>3. Sent(f, k)' = Sent(f, k)
      <4>1. ASSUME NEW g \in Sharing(f)
            PROVE  OfFlow(Path[f][k], g, prev_outputs)' = OfFlow(Path[f][k], g, prev_outputs)
        <5>1. g \in Flow
          BY DEF Sharing
        <5> QED
          BY <1>7, <3>1, <5>1, SketchAfter
      <4>2. Sharing(f)' = Sharing(f)
        BY <1>4 DEF Sharing
      <4> QED
        BY <4>1, <4>2 DEF Sent
    <3> QED
      BY <1>5, <1>7, <1>8, <3>2, <3>3
  <2> QED
    BY <2>2, <2>3
<1> QED
  BY <1>9, <1>10

LEMMA GotKept ==
  ASSUME TypeOK, NEW h \in Switch, NEW p \in Packet, NEW status \in Power, NEW pending,
         SwitchNotifyDequeue(h, p, status, pending), NEW f \in Flow, NEW k \in DOMAIN Path[f],
         p.flow \notin Sharing(f) \/ k = Len(Path[f]) \/ Path[f][k + 1] # h
  PROVE  Got(f, k)' = Got(f, k)
<1>1. hashidx' = hashidx /\ view' = view
  BY DEF SwitchNotifyDequeue, sender
<1>2. Sharing(f)' = Sharing(f)
  BY <1>1 DEF Sharing
<1>3. CASE k < Len(Path[f])
  <2>1. Path[f][k + 1] \in Switch /\ k # Len(Path[f])
    BY <1>3, LinkEnds, PathFacts
  <2>2. ASSUME NEW g \in Sharing(f)
        PROVE  OfFlow(Path[f][k + 1], g, prev_inputs)' = OfFlow(Path[f][k + 1], g, prev_inputs)
    <3>1. g \in Flow /\ hashidx[g] = hashidx[f] /\ p.flow \in Flow
      BY DEF Sharing, Packet
    <3>2. Path[f][k + 1] # h \/ hashidx[g] # hashidx[p.flow]
      BY <2>1, <3>1 DEF Sharing
    <3> QED
      BY <2>1, <3>1, <3>2, SketchAfter
  <2> QED
    BY <1>2, <1>3, <2>2 DEF Got
<1>4. CASE ~ (k < Len(Path[f]))
  BY <1>1, <1>2, <1>4 DEF Got
<1> QED
  BY <1>3, <1>4

(* The arithmetic of one hop: a difference does not grow when both sides   *)
(* are raised to the same power, and what is sent is off by one threshold. *)
LEMMA OneHopNear ==
  ASSUME TypeOK, NEW h \in Switch, NEW p \in Packet, NEW status \in Power,
         Near(p), CurInput(h, p) = p.meant
  PROVE  Near(Rewritten(h, p, status))
<1> DEFINE q == Rewritten(h, p, status)
<1>1. /\ p.meant \in Nat /\ p.met \in Nat /\ p.nhop \in Nat /\ p.flow \in Flow
      /\ status \in Nat /\ DINT_diff \in Nat
  BY DintNumbers DEF Packet
<1>2. /\ MaxPower(h, p, status) = Larger(p.meant, status)
      /\ q.meant = Output(h, p, status) /\ q.met = Larger(p.met, status)
      /\ q.nhop = p.nhop + 1
  BY DEF MaxPower, Rewritten
<1>3. Larger(p.meant, status) \in Nat /\ Larger(p.met, status) \in Nat
  BY <1>1 DEF Larger
<1>4. Diff(Larger(p.meant, status), Larger(p.met, status)) <= Diff(p.meant, p.met)
  BY <1>1 DEF Larger, Diff
<1>5. Output(h, p, status) \in Nat
  BY HeaderNumbers
<1>6. Diff(Output(h, p, status), Larger(p.meant, status)) <= DINT_diff
  <2>1. CASE Sends(h, p, status)
    BY <1>1, <1>2, <1>3, <2>1 DEF Output, Diff
  <2>2. CASE ~ Sends(h, p, status)
    <3>1. ~ (Diff(Larger(p.meant, status), Output(h, p, status)) > DINT_diff)
      BY <1>2, <2>2 DEF Sends, Output
    <3> QED
      BY <1>1, <1>3, <1>5, <3>1 DEF Diff
  <2> QED
    BY <2>1, <2>2
<1>7. DINT_diff * p.nhop \in Nat /\ DINT_diff * (p.nhop + 1) = DINT_diff * p.nhop + DINT_diff
  BY <1>1
<1>8. ASSUME NEW a \in Nat, NEW b \in Nat, NEW c \in Nat, NEW m \in Nat, NEW n \in Nat,
             Diff(a, b) <= m, Diff(b, c) <= n
      PROVE  Diff(a, c) <= n + m
  BY <1>8 DEF Diff
<1>9. Diff(p.meant, p.met) <= DINT_diff * p.nhop /\ Diff(p.meant, p.met) \in Nat
  BY <1>1 DEF Near, Diff
<1>10. Diff(Larger(p.meant, status), Larger(p.met, status)) <= DINT_diff * p.nhop
  <2>1. Diff(Larger(p.meant, status), Larger(p.met, status)) \in Nat
    BY <1>3 DEF Diff
  <2> HIDE DEF q
  <2> QED
    BY <1>4, <1>7, <1>9, <2>1
<1>11. Diff(Output(h, p, status), Larger(p.met, status)) <= DINT_diff * p.nhop + DINT_diff
  BY <1>1, <1>3, <1>5, <1>6, <1>7, <1>8, <1>10
<1> QED
  BY <1>2, <1>7, <1>11 DEF Near

LEMMA DequeueStep ==
  ASSUME NoLoops, PowersFit, IInv,
         NEW h \in Switch, NEW p \in Packet, NEW status \in Power, NEW pending,
         OnItsLink(pending), p.nhop + 1 \in DOMAIN Path[p.flow], h = Path[p.flow][p.nhop + 1],
         p.nsave <= p.nhop, SwitchNotifyDequeue(h, p, status, pending),
         \A f \in Flow : \A k \in DOMAIN Path[f] :
           Followed(f, k) =>
             Chain(pending[LinkAfter(f, k)], Sharing(f), Got(f, k)', Sent(f, k)),
         \A m \in Link : \A k \in DOMAIN pending[m] :
           \E j \in DOMAIN wire[m] : pending[m][k] = wire[m][j],
         Sharing(p.flow) = {p.flow} =>
           /\ p.flow \notin harmed => Near(p) /\ CurInput(h, p) = p.meant
           /\ p.nhop = 0 => CurInput(h, p) = 0
  PROVE  IInv'
<1> DEFINE q == Rewritten(h, p, status)
<1>1. TypeOK /\ Bounded /\ FirstBlank /\ PacketsNear /\ ViewAccurate
  BY DEF IInv
<1>2. /\ TypeOK'
      /\ \A m \in Link : \A k \in DOMAIN wire'[m] :
           \/ wire'[m][k] = q
           \/ \E j \in DOMAIN pending[m] : wire'[m][k] = pending[m][j]
  BY <1>1, DequeueType
<1>3. hashidx' = hashidx /\ harmed' = harmed /\ view' = view /\ truth' = truth
  BY DEF SwitchNotifyDequeue, sender
<1>4. \A f \in Flow : Sharing(f)' = Sharing(f)
  BY <1>3 DEF Sharing
<1>5. Linked'
  BY <1>1, DequeueLinked
<1>6. Bounded'
  <2>1. p.flow \in Flow /\ hashidx[p.flow] \in Slot
    BY <1>1, TypeParts DEF Packet
  <2>2. CurInput(h, p) < PowerLimit /\ Output(h, p, status) < PowerLimit
    <3> DEFINE src == [g \in {p.flow} |-> OfFlow(h, g, prev_outputs)]
    <3>1. src[p.flow] = OfFlow(h, p.flow, prev_outputs)
      OBVIOUS
    <3> QED
      BY <1>1, <3>1, RewrittenUnderstood
  <2>3. /\ prev_inputs' = [prev_inputs EXCEPT ![h][hashidx[p.flow]] = CurInput(h, p)]
        /\ prev_outputs' = [prev_outputs EXCEPT ![h][hashidx[p.flow]] = Output(h, p, status)]
    BY DEF SwitchNotifyDequeue
  <2>4. prev_inputs \in [Switch -> [Slot -> Nat]] /\ prev_outputs \in [Switch -> [Slot -> Nat]]
    BY <1>1, TypeParts
  <2> QED
    BY <1>1, <2>1, <2>2, <2>3, <2>4 DEF Bounded
<1>7. FirstBlank'
  <2> SUFFICES ASSUME NEW f \in Flow, Sharing(f) = {f}
               PROVE  OfFlow(Path[f][1], f, prev_inputs)' = 0
    BY <1>4 DEF FirstBlank
  <2>1. OfFlow(Path[f][1], f, prev_inputs) = 0
    BY <1>1 DEF FirstBlank
  <2>2. Path[f][1] \in Switch /\ 1 \in DOMAIN Path[f] /\ p.flow \in Flow /\ p.nhop \in Nat
    BY PathFacts DEF Packet
  <2>3. CASE Path[f][1] = h /\ hashidx[f] = hashidx[p.flow]
    <3>1. p.flow = f
      BY <2>2, <2>3 DEF Sharing
    <3>2. p.nhop + 1 = 1
      BY <2>2, <2>3, <3>1 DEF NoLoops
    <3>3. CurInput(h, p) = 0
      BY <2>2, <3>1, <3>2
    <3> QED
      BY <1>1, <2>2, <2>3, <3>1, <3>3, SketchAfter
  <2>4. CASE ~ (Path[f][1] = h /\ hashidx[f] = hashidx[p.flow])
    BY <1>1, <2>1, <2>2, <2>4, SketchAfter
  <2> QED
    BY <2>3, <2>4
<1>8. PacketsNear'
  <2> SUFFICES ASSUME NEW m \in Link, NEW k \in DOMAIN wire'[m],
                      wire'[m][k].flow \notin harmed,
                      Sharing(wire'[m][k].flow) = {wire'[m][k].flow}
               PROVE  Near(wire'[m][k])
    BY <1>3 DEF PacketsNear, Sharing
  <2>1. CASE wire'[m][k] = q
    <3>1. q.flow = p.flow /\ p.flow \in Flow
      BY <1>1, HeaderNumbers DEF Packet
    <3>2. Near(p) /\ CurInput(h, p) = p.meant
      BY <2>1, <3>1
    <3> QED
      BY <1>1, <2>1, <3>2, OneHopNear
  <2>2. CASE \E j \in DOMAIN pending[m] : wire'[m][k] = pending[m][j]
    <3>1. PICK j \in DOMAIN wire[m] : wire'[m][k] = wire[m][j]
      BY <2>2
    <3>2. Sharing(wire[m][j].flow) = {wire[m][j].flow}
      BY <3>1
    <3> QED
      BY <1>1, <3>1, <3>2 DEF PacketsNear
  <2> QED
    BY <1>2, <2>1, <2>2
<1>9. ViewAccurate'
  BY <1>1, <1>3, <1>4 DEF ViewAccurate
<1> QED
  BY <1>2, <1>5, <1>6, <1>7, <1>8, <1>9 DEF IInv

-----------------------------------------------------------------------------
(* The actions.                                                            *)

LEMMA InitIInv == Init => IInv
<1> SUFFICES ASSUME Init PROVE IInv
  OBVIOUS
<1> USE DEF Init
<1>1. TypeOK
  <2>1. \A l \in Link : wire[l] = <<>> /\ DOMAIN wire[l] = {}
    OBVIOUS
  <2>2. wire \in [Link -> Seq(Packet)]
    BY EmptySeq
  <2> QED
    BY <2>1, <2>2 DEF TypeOK
<1>2. Bounded
  BY DintNumbers DEF Bounded
<1>3. \A h \in Switch, f \in Flow :
        OfFlow(h, f, prev_inputs) = 0 /\ OfFlow(h, f, prev_outputs) = 0
  BY <1>1, TypeParts DEF OfFlow
<1>4. FirstBlank
  <2>1. \A f \in Flow : Path[f][1] \in Switch
    BY PathFacts
  <2> QED
    BY <1>3, <2>1 DEF FirstBlank
<1>5. PacketsNear
  BY DEF PacketsNear
<1>6. ViewAccurate
  <2>1. ASSUME NEW f \in Flow PROVE Diff(0, 0) <= DINT_diff * Len(Path[f])
    <3>1. Len(Path[f]) \in Nat /\ DINT_diff \in Nat
      BY PathFacts, DintNumbers
    <3>2. DINT_diff * Len(Path[f]) \in Nat
      BY <3>1
    <3> QED
      BY <3>2 DEF Diff
  <2> QED
    BY <2>1 DEF ViewAccurate
<1>7. Linked
  <2> SUFFICES ASSUME NEW f \in Flow, NEW k \in DOMAIN Path[f]
               PROVE  Chain(wire[LinkAfter(f, k)], Sharing(f), Got(f, k), Sent(f, k))
    BY DEF Linked
  <2> DEFINE none == [g \in Sharing(f) |-> 0]
  <2>1. Sharing(f) \subseteq Flow /\ LinkAfter(f, k) \in Link /\ Path[f][k] \in Switch
    BY PathFacts DEF Sharing
  <2>2. Sent(f, k) = none
    BY <1>3, <2>1 DEF Sent
  <2>3. Got(f, k) = none
    <3>1. k < Len(Path[f]) => Path[f][k + 1] \in Switch
      BY LinkEnds, PathFacts
    <3> QED
      BY <1>3, <2>1, <3>1 DEF Got
  <2>4. wire[LinkAfter(f, k)] = <<>>
    BY <2>1
  <2>5. none \in [Sharing(f) -> Nat]
    OBVIOUS
  <2> HIDE DEF none
  <2> QED
    BY <2>2, <2>3, <2>4, <2>5, ChainEmpty
<1> QED
  BY <1>1, <1>2, <1>4, <1>5, <1>6, <1>7 DEF IInv

LEMMA BlankFacts ==
  ASSUME NEW f \in Flow
  PROVE  /\ BlankHeader(f) \in Packet
         /\ BlankHeader(f).flow = f /\ BlankHeader(f).nhop = 0 /\ BlankHeader(f).nsave = 0
         /\ BlankHeader(f).power = 0 /\ BlankHeader(f).meant = 0 /\ BlankHeader(f).met = 0
         /\ BlankHeader(f).nhop + 1 = 1 /\ 1 \in DOMAIN Path[f] /\ Path[f][1] \in Switch
BY DintNumbers, PathFacts DEF BlankHeader, Packet

LEMMA EnterStep ==
  ASSUME NoLoops, PowersFit, IInv, NEW f \in Flow, NEW status \in Power, EnterNetwork(f, status)
  PROVE  IInv'
<1> DEFINE p == BlankHeader(f)
           h == Path[f][1]
<1>1. TypeOK /\ OnItsLink(wire) /\ Linked /\ FirstBlank
  BY TypeParts DEF IInv
<1>2. h \in Switch /\ 1 \in DOMAIN Path[f]
  BY BlankFacts
<1>3. /\ p.flow = f /\ p.nhop = 0 /\ p.nhop + 1 = 1 /\ p.nsave = 0 /\ p.power = 0
      /\ p.meant = 0 /\ p.met = 0
  BY BlankFacts
<1>4. p \in Packet
  BY BlankFacts
<1>5. SwitchNotifyDequeue(h, p, status, wire)
  BY DEF EnterNetwork
<1> HIDE DEF p
<1>6. ASSUME NEW g \in Flow, NEW k \in DOMAIN Path[g], Followed(g, k)
      PROVE  Chain(wire[LinkAfter(g, k)], Sharing(g), Got(g, k)', Sent(g, k))
  <2>1. p.flow \notin Sharing(g) \/ k = Len(Path[g]) \/ Path[g][k + 1] # h
    <3> SUFFICES ASSUME p.flow \in Sharing(g), k # Len(Path[g]) PROVE Path[g][k + 1] # h
      OBVIOUS
    <3>1. Path[f] = Path[g]
      BY <1>3, <1>6 DEF Followed, SamePathInSlot
    <3>2. k \in Nat \ {0} /\ k + 1 \in DOMAIN Path[g]
      BY PathFacts
    <3>3. k + 1 # 1
      BY <3>2
    <3> QED
      BY <1>2, <3>1, <3>2, <3>3 DEF NoLoops
  <2>2. Got(g, k)' = Got(g, k)
    BY <1>1, <1>2, <1>4, <1>5, <2>1, GotKept
  <2>3. Chain(wire[LinkAfter(g, k)], Sharing(g), Got(g, k), Sent(g, k))
    BY <1>1, <1>6 DEF Linked
  <2> QED
    BY <2>2, <2>3
<1>7. Near(p)
  BY <1>3, DintNumbers DEF Near, Diff
<1>8. Sharing(f) = {f} => CurInput(h, p) = 0
  BY <1>1, <1>3 DEF FirstBlank, CurInput
<1>9. p.nsave <= p.nhop
  BY <1>3
<1>10. p.nhop + 1 \in DOMAIN Path[p.flow] /\ h = Path[p.flow][p.nhop + 1]
  BY <1>2, <1>3
<1>11. Sharing(p.flow) = {p.flow} =>
           /\ p.flow \notin harmed => Near(p) /\ CurInput(h, p) = p.meant
           /\ p.nhop = 0 => CurInput(h, p) = 0
  BY <1>3, <1>7, <1>8
<1>12. \A m \in Link : \A k \in DOMAIN wire[m] : \E j \in DOMAIN wire[m] : wire[m][k] = wire[m][j]
  OBVIOUS
<1> HIDE DEF h
<1> QED
  BY <1>1, <1>2, <1>4, <1>5, <1>6, <1>9, <1>10, <1>11, <1>12, DequeueStep

LEMMA ArrivalFacts ==
  ASSUME TypeOK, NEW l \in Link, wire[l] # <<>>, l[2] # Host,
         NEW p, p = Head(wire[l])
  PROVE  /\ p \in Packet /\ p.flow \in Flow /\ p = wire[l][1] /\ 1 \in DOMAIN wire[l]
         /\ p.nhop \in DOMAIN Path[p.flow] /\ l = LinkAfter(p.flow, p.nhop)
         /\ p.nsave <= p.nhop
         /\ p.nhop < Len(Path[p.flow]) /\ p.nhop # Len(Path[p.flow])
         /\ l[2] = Path[p.flow][p.nhop + 1]
         /\ p.nhop + 1 \in DOMAIN Path[p.flow] /\ l[1] = Path[p.flow][p.nhop]
         /\ p.nhop \in Nat \ {0} /\ l[2] \in Switch
<1>1. /\ p \in Packet /\ p.flow \in Flow
      /\ p.nhop \in DOMAIN Path[p.flow] /\ p.nsave <= p.nhop
  BY TypeParts, HeadPacket
<1>2. p = wire[l][1] /\ 1 \in DOMAIN wire[l]
  BY TypeParts, HeadPacket
<1>3. l = LinkAfter(p.flow, p.nhop)
  BY TypeParts, HeadPacket
<1>4. p.nhop # Len(Path[p.flow])
  <2>1. LinkAfter(p.flow, p.nhop)[2] = Host <=> p.nhop = Len(Path[p.flow])
    BY <1>1, LinkEnds
  <2> QED
    BY <1>3, <2>1, Zenon
<1>5. p.nhop \in 1 .. Len(Path[p.flow]) /\ Len(Path[p.flow]) \in Nat
  BY <1>1, PathFacts
<1>6. p.nhop < Len(Path[p.flow]) /\ p.nhop \in Nat \ {0}
  BY <1>4, <1>5
<1>7. /\ LinkAfter(p.flow, p.nhop)[1] = Path[p.flow][p.nhop]
      /\ LinkAfter(p.flow, p.nhop)[2] = Path[p.flow][p.nhop + 1]
      /\ p.nhop + 1 \in DOMAIN Path[p.flow]
  BY <1>1, <1>6, LinkEnds
<1>8. Path[p.flow][p.nhop + 1] \in Switch
  BY <1>1, <1>7, PathFacts
<1>9. l[1] = Path[p.flow][p.nhop] /\ l[2] = Path[p.flow][p.nhop + 1] /\ l[2] \in Switch
  BY <1>3, <1>7, <1>8, Zenon
<1> QED
  BY <1>1, <1>2, <1>3, <1>4, <1>6, <1>7, <1>9, Zenon

LEMMA NextSwitchStep ==
  ASSUME NoLoops, PowersFit, IInv, NEW l \in Link, NEW status \in Power, NextSwitch(l, status)
  PROVE  IInv'
<1> DEFINE p == Head(wire[l])
           h == l[2]
           pending == Arrived(l)
<1>1. TypeOK /\ OnItsLink(wire) /\ Linked /\ PacketsNear
  BY TypeParts DEF IInv
<1>2. wire[l] # <<>> /\ h # Host /\ SwitchNotifyDequeue(h, p, status, pending)
  BY DEF NextSwitch
<1>3. p \in Packet /\ p.flow \in Flow /\ p.nhop \in DOMAIN Path[p.flow] /\ p.nsave <= p.nhop
  BY <1>1, <1>2, ArrivalFacts
<1>9. p = wire[l][1] /\ 1 \in DOMAIN wire[l]
  BY <1>1, <1>2, ArrivalFacts
<1>10. l = LinkAfter(p.flow, p.nhop)
  BY <1>1, <1>2, ArrivalFacts
<1>4. /\ OnItsLink(pending) /\ pending[l] = Tail(wire[l])
      /\ \A m \in Link \ {l} : pending[m] = wire[m]
      /\ \A m \in Link : \A k \in DOMAIN pending[m] :
           \E j \in DOMAIN wire[m] : pending[m][k] = wire[m][j]
  BY <1>1, <1>2, DropHead
<1>5. /\ p.nhop < Len(Path[p.flow]) /\ h = Path[p.flow][p.nhop + 1]
      /\ p.nhop + 1 \in DOMAIN Path[p.flow] /\ l[1] = Path[p.flow][p.nhop]
      /\ p.nhop \in Nat \ {0}
  BY <1>1, <1>2, ArrivalFacts
<1>6. h \in Switch
  BY <1>1, <1>2, ArrivalFacts
<1> HIDE DEF p, pending
<1> HIDE DEF h
<1>7. ASSUME NEW g \in Flow, NEW k \in DOMAIN Path[g], Followed(g, k)
      PROVE  /\ Chain(pending[LinkAfter(g, k)], Sharing(g), Got(g, k)', Sent(g, k))
             /\ g = p.flow /\ k = p.nhop => CurInput(h, p) = p.meant
  <2>1. Chain(wire[LinkAfter(g, k)], Sharing(g), Got(g, k), Sent(g, k))
    BY <1>1, <1>7 DEF Linked
  <2>2. LinkAfter(g, k) \in Link
    BY PathFacts
  <2>3. CASE LinkAfter(g, k) = l
    <3>1. /\ p.flow \in Sharing(g) => Understood(p, Got(g, k))
          /\ Chain(pending[l], Sharing(g), After(Sharing(g), p, Got(g, k)), Sent(g, k))
      <4>1. wire[l] \in Seq(Packet)
        BY <1>1 DEF OnItsLink
      <4> QED
        BY <1>2, <1>4, <2>1, <2>3, <4>1, ChainTail DEF p
    <3>2. CASE p.flow \notin Sharing(g)
      <4>1. Got(g, k)' = Got(g, k)
        BY <1>1, <1>2, <1>3, <1>6, <3>2, GotKept, Zenon
      <4>2. g # p.flow
        BY <3>2 DEF Sharing
      <4> QED
        BY <2>3, <3>1, <3>2, <4>1, <4>2 DEF After
    <3>3. CASE p.flow \in Sharing(g)
      <4>1. Path[p.flow] = Path[g]
        BY <1>7, <3>3 DEF Followed, SamePathInSlot
      <4>2. k = p.nhop
        <5>1. Path[g][k] = Path[p.flow][p.nhop]
          BY <1>5, <2>3, LinkEnds
        <5> QED
          BY <1>3, <4>1, <5>1, Zenon DEF NoLoops
      <4>3. k < Len(Path[g]) /\ Path[g][k + 1] = h
        BY <1>5, <4>1, <4>2
      <4>4. Got(g, k)[p.flow] = OfFlow(h, p.flow, prev_inputs)
        BY <3>3, <4>3 DEF Got
      <4>5. CurInput(h, p) = p.meant
        BY <3>1, <3>3, <4>4 DEF Understood, CurInput
      <4>6. Got(g, k)' = Only(Sharing(g), p)
        <5>1. ASSUME NEW e \in Sharing(g)
              PROVE  OfFlow(Path[g][k + 1], e, prev_inputs)' = IF e = p.flow THEN p.meant ELSE 0
          <6>1. e \in Flow /\ hashidx[e] = hashidx[p.flow]
            BY <3>3 DEF Sharing
          <6>2. OfFlow(h, e, prev_inputs)' = IF e = p.flow THEN CurInput(h, p) ELSE 0
            BY <1>1, <1>2, <1>3, <1>6, <6>1, SketchAfter
          <6>3. OfFlow(Path[g][k + 1], e, prev_inputs)' = OfFlow(h, e, prev_inputs)'
            <7>1. (Path[g][k + 1])' = h
              BY <4>3
            <7> QED BY <4>3, <7>1
          <6> QED
            BY <4>5, <6>2, <6>3
        <5>2. Sharing(g)' = Sharing(g)
          BY <1>2 DEF SwitchNotifyDequeue, Sharing
        <5> QED
          BY <4>3, <5>1, <5>2 DEF Got, Only
      <4> QED
        BY <2>3, <3>1, <3>3, <4>5, <4>6 DEF After
    <3> QED
      BY <3>2, <3>3
  <2>4. CASE LinkAfter(g, k) # l
    <3>1. p.flow \notin Sharing(g) \/ k = Len(Path[g]) \/ Path[g][k + 1] # h
      <4> SUFFICES ASSUME p.flow \in Sharing(g), k # Len(Path[g]), Path[g][k + 1] = h
                   PROVE  FALSE
        OBVIOUS
      <4>1. Path[p.flow] = Path[g]
        BY <1>7 DEF Followed, SamePathInSlot
      <4>2. k \in Nat /\ k + 1 \in DOMAIN Path[g]
        BY PathFacts
      <4>3. k + 1 = p.nhop + 1
        BY <1>5, <4>1, <4>2 DEF NoLoops
      <4>4. k = p.nhop
        BY <1>5, <4>2, <4>3
      <4> QED
        BY <1>10, <2>4, <4>1, <4>4, Zenon DEF LinkAfter
    <3>2. Got(g, k)' = Got(g, k)
      BY <1>1, <1>2, <1>3, <1>6, <3>1, GotKept, Zenon
    <3>3. g = p.flow => k # p.nhop
      BY <1>10, <2>4, Zenon
    <3> QED
      BY <1>4, <2>1, <2>2, <2>4, <3>2, <3>3
  <2> QED
    BY <2>3, <2>4
<1>8. ASSUME Sharing(p.flow) = {p.flow}
      PROVE  /\ p.flow \notin harmed => Near(p) /\ CurInput(h, p) = p.meant
             /\ p.nhop = 0 => CurInput(h, p) = 0
  <2>1. p.flow \notin harmed => Followed(p.flow, p.nhop)
    BY <1>8 DEF Followed, SamePathInSlot
  <2>2. p.flow \notin harmed => CurInput(h, p) = p.meant
    BY <1>3, <1>7, <2>1
  <2>3. p.flow \notin harmed => Near(p)
    BY <1>1, <1>3, <1>8, <1>9 DEF PacketsNear
  <2> QED
    BY <1>5, <2>2, <2>3
<1> QED
  BY <1>2, <1>3, <1>4, <1>5, <1>6, <1>7, <1>8, <1>10, DequeueStep

(* A packet that leaves link l without being handled by a switch. *)
LEMMA RemovedType ==
  ASSUME TypeOK, NEW l \in Link, wire[l] # <<>>, wire' = Arrived(l),
         UNCHANGED <<hashidx, sketch>>, harmed' \subseteq Flow,
         view' \in [Flow -> Nat], truth' \in [Flow -> Nat]
  PROVE  TypeOK'
<1>1. OnItsLink(wire')
  BY TypeParts, DropHead
<1>2. /\ hashidx' \in [Flow -> Slot]
      /\ flowkeys' \in [Switch -> [Slot -> Flow \cup {NoFlow}]]
      /\ prev_inputs' \in [Switch -> [Slot -> Nat]]
      /\ prev_outputs' \in [Switch -> [Slot -> Nat]]
  BY TypeParts DEF sketch
<1> QED
  BY <1>1, <1>2 DEF TypeOK, OnItsLink, On

LEMMA RemovedKept ==
  ASSUME IInv, NEW l \in Link, wire[l] # <<>>, wire' = Arrived(l),
         UNCHANGED <<hashidx, sketch>>, harmed \subseteq harmed'
  PROVE  Bounded' /\ FirstBlank' /\ PacketsNear'
<1>1. TypeOK /\ Bounded /\ FirstBlank /\ PacketsNear
  BY DEF IInv
<1>2. /\ hashidx' = hashidx /\ flowkeys' = flowkeys
      /\ prev_inputs' = prev_inputs /\ prev_outputs' = prev_outputs
  BY DEF sketch
<1>3. Bounded' /\ FirstBlank'
  BY <1>1, <1>2 DEF Bounded, FirstBlank, OfFlow, Sharing
<1>4. PacketsNear'
  <2> SUFFICES ASSUME NEW m \in Link, NEW k \in DOMAIN wire'[m],
                      wire'[m][k].flow \notin harmed,
                      Sharing(wire'[m][k].flow) = {wire'[m][k].flow}
               PROVE  Near(wire'[m][k])
    BY <1>2 DEF PacketsNear, Sharing
  <2>1. PICK j \in DOMAIN wire[m] : wire'[m][k] = wire[m][j]
    BY <1>1, TypeParts, DropHead, ZenonT(40)
  <2> QED
    BY <1>1, <2>1 DEF PacketsNear
<1> QED
  BY <1>3, <1>4

(* The chains of the links afterwards; known is what the far end has. *)
LEMMA RemovedChain ==
  ASSUME IInv, NEW l \in Link, wire[l] # <<>>, wire' = Arrived(l),
         NEW f \in Flow, NEW k \in DOMAIN Path[f], Followed(f, k)
  PROVE  /\ LinkAfter(f, k) # l =>
              Chain(wire'[LinkAfter(f, k)], Sharing(f), Got(f, k), Sent(f, k))
         /\ LinkAfter(f, k) = l =>
              /\ Head(wire[l]).flow \in Sharing(f) => Understood(Head(wire[l]), Got(f, k))
              /\ Chain(wire'[l], Sharing(f), After(Sharing(f), Head(wire[l]), Got(f, k)),
                       Sent(f, k))
<1>1. Chain(wire[LinkAfter(f, k)], Sharing(f), Got(f, k), Sent(f, k))
  BY DEF IInv, Linked
<1>2. /\ wire \in [Link -> Seq(Packet)] /\ wire'[l] = Tail(wire[l])
      /\ \A m \in Link \ {l} : wire'[m] = wire[m]
  BY TypeParts, DropHead DEF IInv, OnItsLink
<1>3. LinkAfter(f, k) \in Link /\ wire[l] \in Seq(Packet)
  BY <1>2, PathFacts
<1>4. CASE LinkAfter(f, k) # l
  BY <1>1, <1>2, <1>3, <1>4
<1>5. CASE LinkAfter(f, k) = l
  BY <1>1, <1>2, <1>3, <1>5, ChainTail
<1> QED
  BY <1>4, <1>5

LEMMA LoseStep ==
  ASSUME IInv, NEW l \in Link, Lose(l)
  PROVE  IInv'
<1> DEFINE p == Head(wire[l])
<1>1. /\ TypeOK /\ ViewAccurate /\ wire[l] # <<>> /\ wire' = Arrived(l)
      /\ harmed' = IF Harms(p) THEN harmed \cup Sharing(p.flow) ELSE harmed
      /\ UNCHANGED <<hashidx, sketch, sender>>
  BY DEF IInv, Lose
<1>2. p.flow \in Flow
  BY <1>1, TypeParts, HeadPacket
<1> HIDE DEF p
<1>3. /\ hashidx' = hashidx /\ view' = view /\ truth' = truth
      /\ flowkeys' = flowkeys /\ prev_inputs' = prev_inputs /\ prev_outputs' = prev_outputs
  BY <1>1 DEF sketch, sender
<1>4. harmed \subseteq harmed' /\ harmed' \subseteq Flow
  BY <1>1, TypeParts DEF Sharing
<1>5. TypeOK'
  BY <1>1, <1>3, <1>4, TypeParts, RemovedType
<1>6. Bounded' /\ FirstBlank' /\ PacketsNear'
  BY <1>1, <1>4, RemovedKept
<1>7. ViewAccurate'
  BY <1>1, <1>3, <1>4 DEF ViewAccurate, Sharing
<1>8. Linked'
  <2>1. SUFFICES ASSUME NEW f \in Flow, NEW k \in DOMAIN Path[f], Followed(f, k), f \notin harmed'
                 PROVE  Chain(wire'[LinkAfter(f, k)], Sharing(f), Got(f, k), Sent(f, k))
    BY <1>3, <1>4, ZenonT(40) DEF Linked, Followed, SamePathInSlot, Sharing, Got, Sent, OfFlow
  <2>2. CASE LinkAfter(f, k) # l
    BY <1>1, <2>1, <2>2, RemovedChain
  <2>3. CASE LinkAfter(f, k) = l
    <3>1. /\ p.flow \in Sharing(f) => Understood(p, Got(f, k))
          /\ Chain(wire'[l], Sharing(f), After(Sharing(f), p, Got(f, k)), Sent(f, k))
      BY <1>1, <2>1, <2>3, RemovedChain DEF p
    <3>2. CASE p.flow \in Sharing(f)
      <4>1. ~ Harms(p)
        BY <1>1, <1>2, <2>1, <3>2 DEF Sharing
      <4>2. Sharing(f) = {p.flow} /\ p.power = 0
        BY <1>2, <3>2, <4>1 DEF Harms, Sharing
      <4>3. Got(f, k)[p.flow] = p.meant
        BY <3>1, <3>2, <4>2 DEF Understood
      <4>4. Got(f, k) = [g \in {p.flow} |-> Got(f, k)[p.flow]]
        BY <4>2 DEF Got
      <4>5. After(Sharing(f), p, Got(f, k)) = Got(f, k)
        BY <3>2, <4>2, <4>3, <4>4 DEF After, Only
      <4> QED
        BY <2>3, <3>1, <4>5
    <3>3. CASE p.flow \notin Sharing(f)
      BY <2>3, <3>1, <3>3 DEF After
    <3> QED
      BY <3>2, <3>3
  <2> QED
    BY <2>2, <2>3
<1> QED
  BY <1>5, <1>6, <1>7, <1>8 DEF IInv

LEMMA AckStep ==
  ASSUME IInv, NEW l \in Link, HandleAckHpPint(l)
  PROVE  IInv'
<1> DEFINE p == Head(wire[l])
<1>1. /\ TypeOK /\ ViewAccurate /\ PacketsNear /\ wire[l] # <<>> /\ wire' = Arrived(l)
      /\ l[2] = Host
      /\ view' = IF p.power # 0 THEN [view EXCEPT ![p.flow] = p.power] ELSE view
      /\ truth' = [truth EXCEPT ![p.flow] = p.met]
      /\ UNCHANGED <<hashidx, sketch, harmed>>
  BY DEF IInv, HandleAckHpPint
<1>2. /\ p \in Packet /\ p.flow \in Flow /\ p.power \in Nat /\ p.met \in Nat
      /\ p.nhop \in DOMAIN Path[p.flow]
  BY <1>1, TypeParts, HeadPacket, DintNumbers DEF Packet
<1>11. p = wire[l][1] /\ 1 \in DOMAIN wire[l]
  BY <1>1, TypeParts, HeadPacket
<1>12. l = LinkAfter(p.flow, p.nhop)
  BY <1>1, TypeParts, HeadPacket
<1> HIDE DEF p
<1>3. p.nhop = Len(Path[p.flow])
  BY <1>1, <1>2, <1>12, LinkEnds, Zenon
<1>4. /\ hashidx' = hashidx /\ flowkeys' = flowkeys
      /\ prev_inputs' = prev_inputs /\ prev_outputs' = prev_outputs /\ harmed' = harmed
  BY <1>1 DEF sketch
<1>5. /\ view \in [Flow -> Nat] /\ view' \in [Flow -> Nat]
      /\ truth \in [Flow -> Nat] /\ truth' \in [Flow -> Nat] /\ harmed' \subseteq Flow
  BY <1>1, <1>2, TypeParts
<1>6. TypeOK'
  BY <1>1, <1>4, <1>5, RemovedType
<1>7. Bounded' /\ FirstBlank' /\ PacketsNear'
  BY <1>1, <1>4, RemovedKept
<1>8. ASSUME NEW f \in Flow, NEW k \in DOMAIN Path[f], Followed(f, k)
      PROVE  /\ Chain(wire'[LinkAfter(f, k)], Sharing(f), Got(f, k)', Sent(f, k))
             /\ f = p.flow /\ k = p.nhop => view'[f] = p.meant
  <2>1. Sharing(f)' = Sharing(f)
    BY <1>4 DEF Sharing
  <2>2. CASE LinkAfter(f, k) # l
    <3>1. Chain(wire'[LinkAfter(f, k)], Sharing(f), Got(f, k), Sent(f, k))
      BY <1>1, <1>8, <2>2, RemovedChain
    <3>2. ~ (f = p.flow /\ k = p.nhop)
      BY <1>12, <2>2, Zenon
    <3>3. Got(f, k)' = Got(f, k)
      <4>1. CASE k < Len(Path[f])
        BY <1>4, <2>1, <4>1 DEF Got, OfFlow
      <4>2. CASE ~ (k < Len(Path[f]))
        <5>1. k = Len(Path[f])
          BY <4>2, PathFacts
        <5>2. Sharing(f) = {f} /\ f # p.flow
          BY <1>3, <1>8, <3>2, <5>1 DEF Followed
        <5>3. view'[f] = view[f]
          BY <1>1, <1>5, <5>2
        <5> QED
          BY <2>1, <4>2, <5>2, <5>3 DEF Got
      <4> QED
        BY <4>1, <4>2
    <3> QED
      BY <3>1, <3>2, <3>3
  <2>3. CASE LinkAfter(f, k) = l
    <3>1. /\ p.flow \in Sharing(f) => Understood(p, Got(f, k))
          /\ Chain(wire'[l], Sharing(f), After(Sharing(f), p, Got(f, k)), Sent(f, k))
      BY <1>1, <1>8, <2>3, RemovedChain DEF p
    <3>2. k = Len(Path[f]) /\ ~ (k < Len(Path[f]))
      BY <1>1, <2>3, LinkEnds, PathFacts
    <3>3. Sharing(f) = {f}
      BY <1>8, <3>2 DEF Followed
    <3>4. Got(f, k) = [g \in {f} |-> view[g]] /\ Got(f, k)' = [g \in {f} |-> view'[g]]
      BY <2>1, <3>2, <3>3 DEF Got
    <3>5. CASE p.flow = f
      <4>1. view'[f] = p.meant
        BY <1>1, <1>5, <3>1, <3>3, <3>4, <3>5 DEF Understood
      <4>2. Got(f, k)' = After(Sharing(f), p, Got(f, k))
        BY <3>3, <3>4, <3>5, <4>1 DEF After, Only
      <4> QED
        BY <2>3, <3>1, <4>1, <4>2
    <3>6. CASE p.flow # f
      <4>1. view'[f] = view[f]
        BY <1>1, <1>5, <3>6
      <4>2. Got(f, k)' = After(Sharing(f), p, Got(f, k))
        BY <3>3, <3>4, <3>6, <4>1 DEF After
      <4> QED
        BY <2>3, <3>1, <3>6, <4>2
    <3> QED
      BY <3>5, <3>6
  <2> QED
    BY <2>2, <2>3
<1>9. Linked'
  <2>1. \A f \in Flow : \A k \in DOMAIN Path[f] :
          Followed(f, k) => Chain(wire'[LinkAfter(f, k)], Sharing(f), Got(f, k)', Sent(f, k))
    BY <1>8
  <2>2. \A f \in Flow : \A k \in DOMAIN Path[f] :
          /\ Sharing(f)' = Sharing(f) /\ Sent(f, k)' = Sent(f, k)
          /\ Followed(f, k)' <=> Followed(f, k)
    BY <1>4 DEF Sharing, Sent, OfFlow, Followed, SamePathInSlot
  <2> QED
    BY <2>1, <2>2 DEF Linked
<1>10. ViewAccurate'
  <2> SUFFICES ASSUME NEW f \in Flow, f \notin harmed, Sharing(f) = {f}
               PROVE  Diff(view'[f], truth'[f]) <= DINT_diff * Len(Path[f])
    BY <1>4 DEF ViewAccurate, Sharing
  <2>1. CASE f = p.flow
    <3>1. Followed(f, p.nhop)
      BY DEF Followed, SamePathInSlot
    <3>2. view'[f] = p.meant /\ truth'[f] = p.met
      BY <1>1, <1>2, <1>5, <1>8, <2>1, <3>1
    <3>3. Near(p)
      BY <1>1, <1>2, <1>11, <2>1 DEF PacketsNear
    <3> QED
      BY <1>3, <2>1, <3>2, <3>3 DEF Near
  <2>2. CASE f # p.flow
    <3>1. view'[f] = view[f] /\ truth'[f] = truth[f]
      BY <1>1, <1>5, <2>2
    <3> QED
      BY <1>1, <3>1 DEF ViewAccurate
  <2> QED
    BY <2>1, <2>2
<1> QED
  BY <1>6, <1>7, <1>9, <1>10 DEF IInv

-----------------------------------------------------------------------------
(* The results.                                                            *)

LEMMA TypeStep == TypeOK /\ [Next]_vars => TypeOK'
<1> SUFFICES ASSUME TypeOK, [Next]_vars PROVE TypeOK'
  OBVIOUS
<1>1. ASSUME NEW f \in Flow, NEW status \in Power, EnterNetwork(f, status) PROVE TypeOK'
  <2> DEFINE p == BlankHeader(f)
             h == Path[f][1]
  <2>1. p \in Packet /\ p.nhop + 1 \in DOMAIN Path[p.flow] /\ p.nsave <= p.nhop /\ h \in Switch
    BY BlankFacts
  <2>2. SwitchNotifyDequeue(h, p, status, wire) /\ OnItsLink(wire)
    BY <1>1, TypeParts DEF EnterNetwork
  <2> HIDE DEF p, h
  <2> QED
    BY <2>1, <2>2, DequeueType
<1>2. ASSUME NEW l \in Link, NEW status \in Power, NextSwitch(l, status) PROVE TypeOK'
  <2> DEFINE p == Head(wire[l])
             h == l[2]
             pending == Arrived(l)
  <2>1. wire[l] # <<>> /\ h # Host /\ SwitchNotifyDequeue(h, p, status, pending)
    BY <1>2 DEF NextSwitch
  <2>2. p \in Packet /\ p.nhop + 1 \in DOMAIN Path[p.flow] /\ p.nsave <= p.nhop /\ h \in Switch
    BY <2>1, ArrivalFacts
  <2>3. OnItsLink(pending)
    BY <2>1, TypeParts, DropHead
  <2> HIDE DEF p, h, pending
  <2> QED
    BY <2>1, <2>2, <2>3, DequeueType
<1>3. ASSUME NEW l \in Link, HandleAckHpPint(l) PROVE TypeOK'
  <2> DEFINE p == Head(wire[l])
  <2>1. p.flow \in Flow /\ p.power \in Nat /\ p.met \in Nat
    BY <1>3, TypeParts, HeadPacket, DintNumbers DEF HandleAckHpPint, Packet
  <2>2. /\ view' = IF p.power # 0 THEN [view EXCEPT ![p.flow] = p.power] ELSE view
        /\ truth' = [truth EXCEPT ![p.flow] = p.met]
        /\ wire[l] # <<>> /\ wire' = Arrived(l) /\ UNCHANGED <<hashidx, sketch, harmed>>
    BY <1>3 DEF HandleAckHpPint
  <2> HIDE DEF p
  <2>3. view' \in [Flow -> Nat] /\ truth' \in [Flow -> Nat] /\ harmed' \subseteq Flow
    BY <2>1, <2>2, TypeParts
  <2> QED
    BY <2>2, <2>3, RemovedType
<1>4. ASSUME NEW l \in Link, Lose(l) PROVE TypeOK'
  <2>1. /\ wire[l] # <<>> /\ wire' = Arrived(l) /\ UNCHANGED <<hashidx, sketch, view, truth>>
        /\ harmed' \subseteq Flow
    BY <1>4, TypeParts DEF Lose, sender, Sharing
  <2> QED
    BY <2>1, TypeParts, RemovedType
<1>5. ASSUME UNCHANGED vars PROVE TypeOK'
  BY <1>5 DEF vars, sketch, sender, TypeOK
<1> QED
  BY <1>1, <1>2, <1>3, <1>4, <1>5 DEF Next

(* Whatever paths and powers are, no header, sketch or view leaves its     *)
(* type, and every packet is on the link after the last switch it counted. *)
THEOREM DintTypeCorrect == Spec => []TypeOK
<1>1. Init => TypeOK
  BY InitIInv DEF IInv
<1>2. TypeOK /\ [Next]_vars => TypeOK'
  BY TypeStep
<1> QED
  BY <1>1, <1>2, PTL DEF Spec

LEMMA InvariantStep ==
  ASSUME NoLoops, PowersFit
  PROVE  IInv /\ [Next]_vars => IInv'
<1> SUFFICES ASSUME IInv, [Next]_vars PROVE IInv'
  OBVIOUS
<1>1. CASE \E f \in Flow, status \in Power : EnterNetwork(f, status)
  BY <1>1, EnterStep
<1>2. CASE \E l \in Link, status \in Power : NextSwitch(l, status)
  BY <1>2, NextSwitchStep
<1>3. CASE \E l \in Link : HandleAckHpPint(l)
  BY <1>3, AckStep
<1>4. CASE \E l \in Link : Lose(l)
  BY <1>4, LoseStep
<1>5. CASE UNCHANGED vars
  <2>1. TypeOK'
    BY TypeStep DEF IInv
  <2>2. Bounded' /\ FirstBlank' /\ PacketsNear' /\ ViewAccurate'
    BY <1>5 DEF IInv, vars, sketch, sender, Bounded, FirstBlank, PacketsNear, ViewAccurate,
                Sharing, OfFlow
  <2>3. Linked'
    BY <1>5, ZenonT(40) DEF IInv, vars, sketch, sender, Linked, Followed, SamePathInSlot, Sharing, Got,
                Sent, OfFlow
  <2> QED
    BY <2>1, <2>2, <2>3 DEF IInv
<1> QED
  BY <1>1, <1>2, <1>3, <1>4, <1>5 DEF Next

THEOREM DintInvariant ==
  ASSUME NoLoops, PowersFit PROVE Spec => []IInv
<1>1. Init => IInv
  BY InitIInv
<1>2. IInv /\ [Next]_vars => IInv'
  BY InvariantStep
<1> QED
  BY <1>1, <1>2, PTL DEF Spec

(* On paths of any length, with any number of flows in a slot and packets  *)
(* under way, a switch takes a saved value for what the switch before it   *)
(* meant. *)
THEOREM DintSwitchesAgree ==
  ASSUME NoLoops, PowersFit PROVE Spec => []SwitchesAgree
<1>1. IInv => SwitchesAgree
  <2> SUFFICES ASSUME IInv, NEW l \in Link, l[2] # Host, wire[l] # <<>>,
                      NEW p, p = Head(wire[l]), p.flow \notin harmed, SamePathInSlot(p.flow)
               PROVE  CurInput(l[2], p) = p.meant
    BY DEF SwitchesAgree
  <2>1. /\ p \in Packet /\ p.flow \in Flow /\ p.nhop \in DOMAIN Path[p.flow]
        /\ l = LinkAfter(p.flow, p.nhop) /\ p.nhop < Len(Path[p.flow]) /\ p.nhop \in Nat
        /\ l[2] = Path[p.flow][p.nhop + 1]
    BY ArrivalFacts DEF IInv
  <2>2. Followed(p.flow, p.nhop)
    <3>1. p.nhop # Len(Path[p.flow])
      BY ArrivalFacts DEF IInv
    <3> QED
      BY <3>1 DEF Followed
  <2>3. Chain(wire[l], Sharing(p.flow), Got(p.flow, p.nhop), Sent(p.flow, p.nhop))
    BY <2>1, <2>2 DEF IInv, Linked
  <2>4. p.flow \in Sharing(p.flow)
    BY <2>1 DEF Sharing
  <2>5. wire[l] \in Seq(Packet)
    BY TypeParts DEF IInv, OnItsLink
  <2>6. Understood(p, Got(p.flow, p.nhop))
    BY <2>3, <2>4, <2>5, ChainTail
  <2>7. Got(p.flow, p.nhop)[p.flow] = OfFlow(l[2], p.flow, prev_inputs)
    BY <2>1, <2>4 DEF Got
  <2> QED
    BY <2>6, <2>7 DEF Understood, CurInput
<1>2. QED
  BY <1>1, DintInvariant, PTL

(* The error of the sender's view is at most one threshold per switch, for *)
(* paths of any length and however long it has run. *)
THEOREM DintViewAccurate ==
  ASSUME NoLoops, PowersFit PROVE Spec => []ViewAccurate
<1>1. IInv => ViewAccurate
  BY DEF IInv
<1>2. QED
  BY <1>1, DintInvariant, PTL

===============================================================================
