------------------------------ MODULE DintPath ------------------------------
(***************************************************************************)
(* DeltaINT in the simulator (HPCC-DINT): the telemetry field of the data  *)
(* packets on their way through the switches, the sketch of each switch,   *)
(* and what the sender gets to know.                                       *)
(*                                                                         *)
(* The field is to hold the highest utilisation ("power", the logarithm of *)
(* it) of the ports a packet left through.  A switch that would send about *)
(* what it last sent for the flow leaves the field 0 instead, and the next *)
(* switch takes what it last read for the flow.  Each switch remembers     *)
(* both numbers in a sketch that has one slot per hash value, so flows may *)
(* evict each other.                                                       *)
(***************************************************************************)
EXTENDS Naturals, Sequences

CONSTANTS
  Switch,       \* the switches, numbered from 1
  Flow,
  Path,         \* Path[f]: the switches the packets of f pass through
  Slot,         \* width of the sketch
  NoFlow,       \* the Flowkey of an empty slot
  Power,        \* what Pint::encode_u makes of a utilisation
  DINT_diff,    \* "Delta threshold"
  PowerLimit,   \* the field holds 0..PowerLimit-1: 2^8 or 2^16 by pint_bytes
  MaxFlight,    \* bound: packets on a link at once
  MaxLoss       \* bound: packets lost and ACKs not sampled

Host == 0       \* the far end of the last link of a path

ASSUME DintPaths ==
  /\ Switch \subseteq Nat \ {Host} /\ NoFlow \notin Flow
  /\ Path \in [Flow -> Seq(Switch)] /\ \A f \in Flow : Path[f] # <<>>
ASSUME DintNumbers ==
  /\ Power \subseteq Nat /\ DINT_diff \in Nat /\ PowerLimit \in Nat \ {0}
  /\ MaxFlight \in Nat \ {0} /\ MaxLoss \in Nat

VARIABLES
  hashidx,       \* hashidx[f]: the slot of f, the same in every switch
  flowkeys, prev_inputs, prev_outputs,  \* the sketches: [switch][slot]
  wire,          \* packets between two switches, or the last one and Host
  view,          \* view[f]: the last power the sender of f took from an ACK
  truth,         \* history: the highest power the packet of the last ACK met
  harmed,        \* history: flows whose switches may have lost touch
  losses         \* packets lost and ACKs not sampled so far

sketch == <<flowkeys, prev_inputs, prev_outputs>>
sender == <<view, truth>>
vars == <<hashidx, sketch, wire, sender, harmed, losses>>

Larger(a, b) == IF a > b THEN a ELSE b
Diff(a, b) == IF a > b THEN a - b ELSE b - a

LinkAfter(f, k) ==
  <<Path[f][k], IF k < Len(Path[f]) THEN Path[f][k + 1] ELSE Host>>
Link == UNION {{LinkAfter(f, k) : k \in DOMAIN Path[f]} : f \in Flow}

(* The header of a packet, blank as IntHeader makes it, with two fields    *)
(* that only the properties look at: what the last switch meant to say and *)
(* the highest power the packet met. *)
BlankHeader(f) == [flow |-> f, power |-> 0, nhop |-> 0, nsave |-> 0, meant |-> 0, met |-> 0]

Init ==
  /\ hashidx \in [Flow -> Slot]
  /\ flowkeys = [h \in Switch |-> [x \in Slot |-> NoFlow]]
  /\ prev_inputs = [h \in Switch |-> [x \in Slot |-> 0]]
  /\ prev_outputs = [h \in Switch |-> [x \in Slot |-> 0]]
  /\ wire = [l \in Link |-> <<>>]
  /\ view = [f \in Flow |-> 0] /\ truth = [f \in Flow |-> 0]
  /\ harmed = {} /\ losses = 0

-----------------------------------------------------------------------------
(* SwitchNode::SwitchNotifyDequeue, CcMode 10. *)

(* What the sketch of h has on f in one of its vectors. *)
OfFlow(h, f, vector) ==
  IF flowkeys[h][hashidx[f]] = f THEN vector[h][hashidx[f]] ELSE 0

CurInput(h, p) == IF p.power # 0 THEN p.power ELSE OfFlow(h, p.flow, prev_inputs)

(* The highest power of the packet after port power status of switch h. *)
MaxPower(h, p, status) == Larger(CurInput(h, p), status)
Sends(h, p, status) ==
  Diff(MaxPower(h, p, status), OfFlow(h, p.flow, prev_outputs)) > DINT_diff

(* Mutant: the value that was not sent is remembered as if it was. *)
Mut_Output(h, p, status) == MaxPower(h, p, status)
(* What the switch remembers to have sent. *)
Output(h, p, status) ==
  IF Sends(h, p, status) THEN MaxPower(h, p, status) ELSE OfFlow(h, p.flow, prev_outputs)

SetPower(power) == power % PowerLimit

(* The header as it leaves h. *)
Rewritten(h, p, status) ==
  LET out == Output(h, p, status)
  IN  [flow  |-> p.flow,
       power |-> IF Sends(h, p, status) THEN SetPower(MaxPower(h, p, status)) ELSE 0,
       nhop  |-> p.nhop + 1,
       nsave |-> IF Sends(h, p, status) THEN p.nsave ELSE p.nsave + 1,
       meant |-> out,
       met   |-> Larger(p.met, status)]

(* Mutant: the sketch is written only when a value is sent. *)
Mut_SwitchNotifyDequeue(h, p, status, pending) ==
  LET x == hashidx[p.flow]
      l == LinkAfter(p.flow, p.nhop + 1)
  IN  /\ Len(pending[l]) < MaxFlight
      /\ IF Sends(h, p, status)
         THEN /\ flowkeys' = [flowkeys EXCEPT ![h][x] = p.flow]
              /\ prev_inputs' = [prev_inputs EXCEPT ![h][x] = CurInput(h, p)]
              /\ prev_outputs' = [prev_outputs EXCEPT ![h][x] = Output(h, p, status)]
         ELSE UNCHANGED sketch
      /\ wire' = [pending EXCEPT ![l] = Append(@, Rewritten(h, p, status))]
      /\ UNCHANGED <<hashidx, sender, harmed, losses>>

(* Packet p leaves switch h through a port of power status; pending is the *)
(* content of the wires without it. *)
SwitchNotifyDequeue(h, p, status, pending) ==
  LET x == hashidx[p.flow]
      l == LinkAfter(p.flow, p.nhop + 1)
  IN  /\ Len(pending[l]) < MaxFlight
      /\ flowkeys' = [flowkeys EXCEPT ![h][x] = p.flow]
      /\ prev_inputs' = [prev_inputs EXCEPT ![h][x] = CurInput(h, p)]
      /\ prev_outputs' = [prev_outputs EXCEPT ![h][x] = Output(h, p, status)]
      /\ wire' = [pending EXCEPT ![l] = Append(@, Rewritten(h, p, status))]
      /\ UNCHANGED <<hashidx, sender, harmed, losses>>

(* A packet from the sending host at its first switch, *)
EnterNetwork(f, status) ==
  SwitchNotifyDequeue(Path[f][1], BlankHeader(f), status, wire)

(* and one from a switch at the next. *)
Arrived(l) == [wire EXCEPT ![l] = Tail(@)]
NextSwitch(l, status) ==
  /\ l[2] # Host /\ wire[l] # <<>>
  /\ SwitchNotifyDequeue(l[2], Head(wire[l]), status, Arrived(l))

-----------------------------------------------------------------------------
(* The hosts.  The receiver copies the header into the ACK (ReceiveUdp),   *)
(* the sender takes a valid power from it (HandleAckHpPint). *)
HandleAckHpPint(l) ==
  /\ l[2] = Host /\ wire[l] # <<>>
  /\ LET p == Head(wire[l])
     IN  /\ view' = IF p.power # 0 THEN [view EXCEPT ![p.flow] = p.power] ELSE view
         /\ truth' = [truth EXCEPT ![p.flow] = p.met]
  /\ wire' = Arrived(l)
  /\ UNCHANGED <<hashidx, sketch, harmed, losses>>

Sharing(f) == {g \in Flow : hashidx[g] = hashidx[f]}

(* Losing a packet that carries no value, of a flow that has its slot to   *)
(* itself, does no harm. *)
Harms(p) == p.power # 0 \/ Sharing(p.flow) # {p.flow}

(* A packet is lost, or its ACK: on the way, as a duplicate that the       *)
(* receiver does not answer, or by the sampling of HandleAckHpPint. *)
Lose(l) ==
  /\ losses < MaxLoss /\ wire[l] # <<>>
  /\ harmed' = IF Harms(Head(wire[l])) THEN harmed \cup Sharing(Head(wire[l]).flow) ELSE harmed
  /\ wire' = Arrived(l)
  /\ losses' = losses + 1
  /\ UNCHANGED <<hashidx, sketch, sender>>

Next ==
  \/ \E f \in Flow, status \in Power : EnterNetwork(f, status)
  \/ \E l \in Link : \/ \E status \in Power : NextSwitch(l, status)
                     \/ HandleAckHpPint(l) \/ Lose(l)

Spec == Init /\ [][Next]_vars

-----------------------------------------------------------------------------
Packet == [flow : Flow, power : 0..(PowerLimit - 1), nhop : Nat, nsave : Nat,
           meant : Nat, met : Nat]

TypeOK ==
  /\ hashidx \in [Flow -> Slot]
  /\ flowkeys \in [Switch -> [Slot -> Flow \cup {NoFlow}]]
  /\ {prev_inputs, prev_outputs} \subseteq [Switch -> [Slot -> Nat]]
  /\ wire \in [Link -> Seq(Packet)]
  /\ \A l \in Link : \A k \in DOMAIN wire[l] :
       LET p == wire[l][k]
       IN  p.nhop \in DOMAIN Path[p.flow] /\ l = LinkAfter(p.flow, p.nhop) /\ p.nsave <= p.nhop
  /\ {view, truth} \subseteq [Flow -> Nat]
  /\ harmed \subseteq Flow

(* A switch that reads a packet without a value takes the number the       *)
(* switch before it meant, whatever has left that switch since; and flows  *)
(* that evict each other from a slot do not break this as long as they     *)
(* take the same path (switch-node.cc:383-462). *)
SamePathInSlot(f) == \A g \in Sharing(f) : Path[g] = Path[f]
SwitchesAgree ==
  \A l \in Link :
    l[2] # Host /\ wire[l] # <<>> =>
      LET p == Head(wire[l])
      IN  p.flow \notin harmed /\ SamePathInSlot(p.flow) => CurInput(l[2], p) = p.meant

(* The sender of a flow that has its slot to itself knows the highest      *)
(* utilisation on its path up to DINT_diff per switch, although most ACKs   *)
(* carry no value: the errors add up along the path and not over time      *)
(* (switch-node.cc:442-462, rdma-hw.cc:1058). *)
ViewAccurate ==
  \A f \in Flow :
    f \notin harmed /\ Sharing(f) = {f}
      => Diff(view[f], truth[f]) <= DINT_diff * Len(Path[f])

(* "In DINT, if power == 0, it means 1 bit for invalid status"             *)
(* (int-header.h:98): a field of 0 was saved by some switch. *)
InvalidMeansSaved ==
  \A l \in Link : \A k \in DOMAIN wire[l] :
    wire[l][k].power = 0 => wire[l][k].nsave > 0

=============================================================================
