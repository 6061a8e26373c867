---------------------------- MODULE DeltaIntPath ----------------------------
(***************************************************************************)
(* INTPath-DINT: probes follow source routes through P4 switches; each     *)
(* switch puts a header of four fields in front of those of the switches   *)
(* before it, leaving out the fields that are about what it last sent for  *)
(* the flow.  The receiver fills them in from what it knows and reports    *)
(* the path and the ports that are fast enough; a report that is not       *)
(* renewed is how a failure is noticed.  Probes of a path have a socket,   *)
(* so a flow, of their own.  The switch to the left or right of one stands *)
(* for the port that leads to it.                                          *)
(***************************************************************************)
EXTENDS Naturals, Sequences, SequencesExt

CONSTANTS
  Switch,             \* device numbers, from 1
  Flow,
  Path,               \* Path[f]: the source route of the probes of f
  Hash,               \* what the hash may make of the flows, in every switch
  NoFlow,             \* the flow key of a register never written
  Latency,            \* Latency[queue]: deq_timedelta if the queue is not slow
  SlowLatency,        \* deq_timedelta of a queue in set_timedelta_tbl
  Scale,              \* 2^7: the shift of remove_softhard_diff
  Delta,              \* 10: the difference of timedelta that is not sent
  latency_threshold,  \* of config.json
  MaxFlight,          \* bound: MaxFlight[f] probes of f under way at once
  MaySlow,            \* bound: the queues that may get slow
  MaxLoss             \* bound: probes lost

Slot == UNION {{h[f] : f \in Flow} : h \in Hash}
Host == 0             \* the host of a switch, at both ends of a path

ASSUME IntPaths ==
  /\ Switch \subseteq Nat \ {Host} /\ NoFlow \notin Flow
  /\ Hash \subseteq [Flow -> Slot]
  /\ Path \in [Flow -> Seq(Switch)] /\ \A f \in Flow : Path[f] # <<>>
  /\ \A f, g \in Flow : Path[f][Len(Path[f])] = Path[g][Len(Path[g])]
ASSUME IntNumbers ==
  /\ SlowLatency \in Nat /\ Scale \in Nat \ {0}
  /\ Delta \in Nat /\ latency_threshold \in Nat
  /\ MaxFlight \in [Flow -> Nat] /\ MaxLoss \in Nat
VARIABLES
  index,         \* index[f]: the place of f in the registers
  dint_register, \* both registers: dint_register[s][x] = [flow, last]
  slow,          \* queues in set_timedelta_tbl
  probes,        \* probes[f]: the probes of f under way, oldest first
  known,         \* deviceno_map to timedelta_map: known[f][i], i = 0: last hop
  tor,           \* ToR_deviceno, ToR_eport, ToR_timedelta
  failed,        \* the receiver has ended with an error
  ok,            \* ok[f]: queues the last probe of f reported "ok"
  harmed,        \* history: flows that lost a probe with some field in it
  losses         \* probes lost so far

switches == <<index, dint_register, slow>>
receiver == <<known, tor, failed, ok>>
vars == <<switches, probes, receiver, harmed, losses>>

Field == {"deviceno", "iport", "eport", "timedelta"}
NoFields == [x \in {} |-> 0]
Diff(a, b) == IF a >= b THEN a - b ELSE b - a

Hop(f) == 1..Len(Path[f])
PortBefore(f, k) == IF k = 1 THEN Host ELSE Path[f][k - 1]
PortAfter(f, k) == IF k = Len(Path[f]) THEN Host ELSE Path[f][k + 1]
Queue(f, k) == <<Path[f][k], PortAfter(f, k)>>
Queues == UNION {{Queue(f, k) : k \in Hop(f)} : f \in Flow}

(* Only a queue that is slow is near the threshold. *)
ASSUME Latencies ==
  /\ Latency \in [Queues -> SUBSET Nat] /\ MaySlow \subseteq Queues
  /\ SlowLatency >= latency_threshold * Scale
  /\ \A queue \in Queues : \A d \in Latency[queue] : d \div Scale + Delta < latency_threshold

Init ==
  /\ index \in Hash
  /\ dint_register =
       [s \in Switch |-> [x \in Slot |-> [flow |-> NoFlow, last |-> [y \in Field |-> 0]]]]
  /\ slow = {}
  /\ probes = [f \in Flow |-> <<>>]
  /\ known = [f \in Flow |-> [i \in 0..(Len(Path[f]) - 1) |-> NoFields]]
  /\ tor = NoFields /\ failed = FALSE /\ ok = [f \in Flow |-> {}]
  /\ harmed = {} /\ losses = 0

-----------------------------------------------------------------------------
(* The egress pipeline of a switch.  Nothing is looked at any more once the *)
(* receiver has ended. *)

(* Mutant: the latency is not scaled to that of hardware. *)
Mut_Measured(f, k, deq_timedelta) ==
  [deviceno |-> Path[f][k], iport |-> PortBefore(f, k), eport |-> PortAfter(f, k),
   timedelta |-> deq_timedelta]
(* What the k-th switch of f has to tell. *)
Measured(f, k, deq_timedelta) ==
  [deviceno |-> Path[f][k], iport |-> PortBefore(f, k), eport |-> PortAfter(f, k),
   timedelta |-> deq_timedelta \div Scale]

(* Mutants: the flow key of the register is not looked at; the latency is  *)
(* compared in one direction only. *)
MutKey_Saved(f, s, cur) ==
  LET prev == dint_register[s][index[f]].last
  IN  {x \in Field : IF x = "timedelta" THEN Diff(prev[x], cur[x]) <= Delta
                     ELSE prev[x] = cur[x]}
MutSign_Saved(f, s, cur) ==
  LET r == dint_register[s][index[f]]
  IN  IF r.flow # f THEN {}
      ELSE {x \in Field : IF x = "timedelta" THEN cur[x] + Delta >= r.last[x]
                          ELSE r.last[x] = cur[x]}
(* The fields switch s leaves out: delta_calc if the register is the       *)
(* flow's, set_bitmap if not. *)
Saved(f, s, cur) ==
  LET r == dint_register[s][index[f]]
  IN  IF r.flow # f THEN {}
      ELSE {x \in Field : IF x = "timedelta" THEN Diff(r.last[x], cur[x]) <= Delta
                          ELSE r.last[x] = cur[x]}

(* Mutant: what is not sent is remembered as if it was. *)
Mut_Output(f, s, cur) == cur
(* What update_register writes. *)
Output(f, s, cur) ==
  [x \in Field |-> IF x \in Saved(f, s, cur) THEN dint_register[s][index[f]].last[x]
                   ELSE cur[x]]

(* What the next switch of f makes of a probe. *)
Passed(f, probe, cur) ==
  LET s == Path[f][Len(probe.headers) + 1]
  IN  [headers |-> <<Restrict(cur, Field \ Saved(f, s, cur))>> \o probe.headers,
       meant   |-> <<Output(f, s, cur).timedelta>> \o probe.meant]

(* Probe p of flight, the probes of f, leaves its next switch. *)
Egress(f, flight, p) ==
  LET k == Len(flight[p].headers) + 1
  IN  \E d \in IF Queue(f, k) \in slow THEN {SlowLatency} ELSE Latency[Queue(f, k)] :
        LET s == Path[f][k]
            cur == Measured(f, k, d)
        IN  /\ probes' = [probes EXCEPT ![f] =
                 [flight EXCEPT ![p] = Passed(f, flight[p], cur)]]
            /\ dint_register' = [dint_register EXCEPT ![s][index[f]] =
                 [flow |-> f, last |-> Output(f, s, cur)]]
            /\ UNCHANGED <<index, slow, receiver, harmed, losses>>

(* The sending host has a thread per path; what its switch does is part of *)
(* the step, as nothing comes between. *)
SendProbe(f) ==
  /\ ~failed
  /\ Len(probes[f]) < MaxFlight[f]
  /\ Egress(f, Append(probes[f], [headers |-> <<>>, meant |-> <<>>]), Len(probes[f]) + 1)

(* Probes of a flow do not overtake each other. *)
PassSwitch(f, p) ==
  /\ ~failed
  /\ Len(probes[f][p].headers) < Len(Path[f])
  /\ \A q \in 1..(p - 1) : Len(probes[f][q].headers) > Len(probes[f][p].headers)
  /\ Egress(f, probes[f], p)

-----------------------------------------------------------------------------
(* The receiver. *)

(* int_process: the latency is scaled back. *)
Parsed(header) ==
  [x \in DOMAIN header |-> IF x = "timedelta" THEN header[x] * Scale ELSE header[x]]

(* Mutant: hops are counted from the first one. *)
Mut_Known(f, i) == known[f][Len(Path[f]) - 1 - i]
(* What a field left out by hop i of f is filled in from; for the last hop *)
(* the variables all flows share, except for the port it came in by. *)
Known(f, i) ==
  IF i > 0 THEN known[f][i]
  ELSE [x \in DOMAIN tor \cup (DOMAIN known[f][0] \cap {"iport"}) |->
          IF x = "iport" THEN known[f][0][x] ELSE tor[x]]

IsRecoverable(f, probe) ==
  \A i \in DOMAIN known[f] :
    Field \subseteq DOMAIN probe.headers[i + 1] \cup DOMAIN Known(f, i)
Recovered(f, probe, i) ==
  LET header == Parsed(probe.headers[i + 1])
  IN  [x \in Field |-> IF x \in DOMAIN header THEN header[x] ELSE Known(f, i)[x]]

(* The keys of the detection of gray failures that probe sets. *)
ReportedOk(f, probe) ==
  {<<Recovered(f, probe, i).deviceno, Recovered(f, probe, i).eport>> :
     i \in {j \in DOMAIN known[f] :
              Recovered(f, probe, j).timedelta < latency_threshold * Scale}}

(* What the maps hold after header is taken in. *)
Learned(map, header) ==
  [x \in DOMAIN map \cup DOMAIN header |-> IF x \in DOMAIN header THEN header[x] ELSE map[x]]
(* The device and the port of the last hop are learned once, the latency   *)
(* every time. *)
TorLearned(header) ==
  Learned(tor, Restrict(header, DOMAIN header \ ({"iport"} \cup (DOMAIN tor \ {"timedelta"}))))

AtHost(f) == probes[f] # <<>> /\ Len(Head(probes[f]).headers) = Len(Path[f])

Receive(f) ==
  LET probe == Head(probes[f])
  IN  /\ ~failed
      /\ AtHost(f)
      /\ probes' = [probes EXCEPT ![f] = Tail(@)]
      /\ IF ~IsRecoverable(f, probe)
         THEN failed' = TRUE /\ UNCHANGED <<known, tor, ok>>
         ELSE /\ known' = [known EXCEPT ![f] =
                   [i \in DOMAIN @ |-> Learned(@[i], Parsed(probe.headers[i + 1]))]]
              /\ tor' = TorLearned(Parsed(probe.headers[1]))
              /\ ok' = [ok EXCEPT ![f] = ReportedOk(f, probe)]
              /\ UNCHANGED failed
      /\ UNCHANGED <<switches, harmed, losses>>

-----------------------------------------------------------------------------
(* The script makes one queue slow for the rest of the run. *)
SimulateLatency(queue) ==
  /\ ~failed /\ slow = {}
  /\ slow' = {queue}
  /\ UNCHANGED <<index, dint_register, probes, receiver, harmed, losses>>

(* A probe is lost, before or behind a switch. *)
LoseProbe(f, p) ==
  /\ ~failed /\ losses < MaxLoss
  /\ losses' = losses + 1
  /\ LET headers == probes[f][p].headers
     IN  harmed' = IF \A k \in DOMAIN headers : DOMAIN headers[k] = {} THEN harmed
                   ELSE harmed \cup {f}
  /\ probes' = [probes EXCEPT ![f] = RemoveAt(@, p)]
  /\ UNCHANGED <<switches, receiver>>

ProbeStep(f) ==
  SendProbe(f) \/ Receive(f) \/ \E p \in DOMAIN probes[f] : PassSwitch(f, p)

Next ==
  \/ \E f \in Flow : ProbeStep(f) \/ \E p \in DOMAIN probes[f] : LoseProbe(f, p)
  \/ \E queue \in MaySlow : SimulateLatency(queue)

Spec == Init /\ [][Next]_vars

(* The thread of each path keeps sending, and the network delivers what it *)
(* does not lose. *)
FairSpec == Spec /\ \A f \in Flow : WF_vars(ProbeStep(f))

-----------------------------------------------------------------------------
Value ==
  {d \div Scale : d \in (UNION {Latency[q] : q \in Queues}) \cup {SlowLatency}} \cup {0}
IsField(h, scale) ==
  /\ DOMAIN h \subseteq Field
  /\ \A x \in DOMAIN h : IF x = "timedelta" THEN h[x] \in {v * scale : v \in Value}
                         ELSE h[x] \in Switch \cup {Host}

TypeOK ==
  /\ index \in Hash /\ slow \subseteq Queues
  /\ \A s \in Switch, x \in Slot :
       /\ dint_register[s][x].flow \in Flow \cup {NoFlow}
       /\ DOMAIN dint_register[s][x].last = Field
       /\ IsField(dint_register[s][x].last, 1)
  /\ \A f \in Flow : \A p \in DOMAIN probes[f] :
       LET probe == probes[f][p]
       IN  /\ Len(probe.headers) <= Len(Path[f])
           /\ Len(probe.meant) = Len(probe.headers)
           /\ \A k \in DOMAIN probe.meant : probe.meant[k] \in Value
           /\ \A k \in DOMAIN probe.headers : IsField(probe.headers[k], 1)
  /\ \A f \in Flow : \A i \in DOMAIN known[f] : IsField(known[f][i], Scale)
  /\ IsField(tor, Scale) /\ failed \in BOOLEAN /\ ok \in [Flow -> SUBSET Queues]
  /\ harmed \subseteq Flow /\ losses \in 0..MaxLoss

(* A probe that finds the receiver without an entry for a field it leaves  *)
(* out ends the receiver (dint_receive.py:70, 83, 98).  Unless a probe of   *)
(* the flow that carried a field was lost, none does, whatever flows share *)
(* registers with it. *)
ReceiverSurvives ==
  \A f \in Flow \ harmed : AtHost(f) => IsRecoverable(f, Head(probes[f]))

(* A path that can be recovered is recovered right, with losses and with   *)
(* the variables of the last hop that all flows share                      *)
(* (dint_receive.py:65, 93). *)
PathRecovered ==
  \A f \in Flow : AtHost(f) /\ IsRecoverable(f, Head(probes[f])) =>
    \A k \in Hop(f) :
      LET r == Recovered(f, Head(probes[f]), Len(Path[f]) - k)
      IN  <<r.iport, r.deviceno, r.eport>> = <<PortBefore(f, k), Path[f][k], PortAfter(f, k)>>

(* The latency of a hop but the last is recovered as the one its switch     *)
(* remembers, which is within Delta of the one the probe met, however long *)
(* the switch leaves it out and whatever evicts the flow from its          *)
(* registers, unless a probe with fields was lost (dint_app.p4:113-121). *)
IsAccurate(f, i) ==
  LET probe == Head(probes[f])
  IN  Recovered(f, probe, i).timedelta = probe.meant[i + 1] * Scale
LatencyAccurate ==
  \A f \in Flow \ harmed : AtHost(f) /\ IsRecoverable(f, Head(probes[f])) =>
    \A i \in DOMAIN known[f] \ {0} : IsAccurate(f, i)

(* Path and latencies are recovered right from the fields that arrived and *)
(* the ones remembered, by variables that change at different times        *)
(* (dint_receive.py:63-121). *)
TelemetryRecovered == PathRecovered /\ LatencyAccurate

(* "Though the link between ToR and host is overlapping, it is consistent  *)
(* for this application" (dint_receive.py:39): the same of the last hop.   *)
(* It does not hold: a latency a flow leaves out is filled in with the     *)
(* last one any other flow sent. *)
LastHopAccurate ==
  \A f \in Flow \ harmed :
    AtHost(f) /\ IsRecoverable(f, Head(probes[f])) => IsAccurate(f, 0)

(* A queue that gets slow is no longer reported "ok" by any flow, from some *)
(* time on, so its key expires (dint_receive.py:125-146), unless that flow *)
(* lost a probe with fields.  Not so for the last queue. *)
GrayFailureSeen ==
  <>[](failed \/ \A f \in Flow \ harmed : \A k \in 1..(Len(Path[f]) - 1) :
         Queue(f, k) \in slow => Queue(f, k) \notin ok[f])

=============================================================================
