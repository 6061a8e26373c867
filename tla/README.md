# TLA+ models and proofs of DeltaINT

This directory holds a formal model of the core of `deltaint`: the RDMA/PFC
network simulator of `HPCC-DINT` (a lossless Ethernet switch, its shared
buffer and pause frames, the hosts' queue pairs and NICs), the DeltaINT
telemetry that is built into it, and `INTPath-DINT`, where DeltaINT runs in P4
switches and finds gray failures (telemetry, path planning, detection). The modules are written from the code under
`src/`; every definition names the lines it stands for in `PROJECT.json`
("map"). TLC checks small instances, TLAPS proves the main safety results for
all sizes.

Paths below are relative to `src/HPCC-DINT/simulation/src` unless they say
otherwise.

## 1. The system

### 1.1 Components

| component | code | state | operations |
|---|---|---|---|
| shared-buffer accounting | `point-to-point/model/switch-mmu.cc` | shared, headroom, ingress and egress counters, `paused` per port and queue | admission test, charge, discharge, pause and resume decisions |
| egress queues of a port | `network/utils/broadcom-egress-queue.cc` | one FIFO per queue, `m_rrlast` | `Enqueue`, `DequeueRR` |
| switch | `point-to-point/model/switch-node.cc`, `qbb-net-device.cc`, `qbb-channel.cc` | routing table, `m_bytes[in][out][queue]`, per device `m_txMachineState`, `m_paused`, `m_linkUp` | `SendToDev`, `SwitchNotifyDequeue`, `DequeueAndTransmit`, `TransmitComplete`, `Receive`, `Resume`, `SendPfc`, `TakeDown` |
| reliable delivery | `point-to-point/model/rdma-hw.cc`, `rdma-queue-pair.cc` | `snd_nxt`, `snd_una`, window; `ReceiverNextExpectedSeq`, NACK timer | `GetNxtPacket`, `ReceiveAck`, `RecoverQueue`, `ReceiveUdp`, `ReceiverCheckSeq`, `QpComplete` |
| NIC of a host | `qbb-net-device.cc` (`RdmaEgressQueue`, host branch), `rdma-hw.cc` | the group of queue pairs, `m_rrlast`, `m_nextAvail` per flow, the `m_nextSend` event, the ACK queue | `GetNextQindex`, `DequeueAndTransmit`, `PktSent`, `ChangeRate`, `UpdateNextAvail`, `NewQp`, `RedistributeQp` |
| DeltaINT | `switch-node.cc:282-463`, `network/utils/int-header.cc`, `rdma-hw.cc:1041` | a sketch per switch (`flowkeys`, `prev_inputs`, `prev_outputs`), the header field | the delta update at dequeue, reading of the field by the sender |
| congestion control | `rdma-hw.cc:586-1109` | per flow: rates, `m_lastUpdateSeq`, flags and timers | the handlers of DCQCN, HPCC, TIMELY, DCTCP, HPCC-PINT: on ACKs, CNPs and timers |
| topology script | `simulation/scratch/third.cc` | links, next hops | routes, `TakeDownLink`, switch configuration |
| INTPath telemetry | `INTPath-DINT/system/p4app/dint_app.p4`, `packet/dint_receive.py` | registers of a P4 switch, maps of the receiver | delta update per field, recovery at the receiver |
| INTPath failure detection | `INTPath-DINT/system/controller/app.py`, `detector.py`, `packet/sendint.py`, `receive.py` | the script's sleeps, a sending thread per path, Redis keys with a time to live, the detector's subscription | `update`, `sendPacketByTime`, renewal and expiry of keys, the simulated failure |
| INTPath path planning | `INTPath-DINT/Euler trail-based path planning algorithm/algorithm/*find_path*.py`, `DFLSPathPlan.py` | links not yet on a path, the paths, the recursion of `hierholzer` | `find_path`, `euler`, `my_path`, `add_path` |
| INTPath controller, the rest | `INTPath-DINT/system/controller` | | Mininet topology, forwarding tables, sockets |
| Mininet-DINT, INTDetect-DINT | | | experiments with PINT's P4 program; the framework INTPath was derived from |

### 1.2 How they interact

The simulator runs one event at a time and each event to its end: there is no
preemption. What makes the code hard is what happens *inside* an event and
*between* events.

- Inside: handlers call each other through several objects. A packet that
  arrives is charged to the MMU, which may send a PFC frame through the ingress
  device, which may start a transmission there, before the packet is put in its
  egress queue, which may start another. Starting a transmission discharges the
  packet, which may send a resume frame through a third device.
- Between: data and PFC frames are on several wires at once, and a decision is
  based on counters that those frames have not yet reached. Links go down with
  packets in queues and on wires, routes change under queued packets, ACKs
  overtake each other after a change of routes, frames are lost.
- Time: NACKs are limited by a timer, sending by a pace per flow, and an idle
  NIC depends on one wake-up event.

INTPath is processes on one machine: a controller that plans paths, starts
everything and sleeps for fixed times in between; a thread per path that sends a
probe every epoch; switches that add their telemetry to it, or leave out what
changed little; a receiver that fills in what was left out and renews keys in
Redis; and a detector that takes a key that expires for a failure. Nothing but
sleeps and times to live orders them.

### 1.3 What makes each component correct

- MMU: counters account for the stored bytes exactly (they are unsigned, an
  error of one byte wraps), pool, headroom and buffer are not exceeded, and a
  port is paused only while that makes sense, so that no pause lasts for ever. The
  headroom is enough for what still comes when a pause has been decided.
- Switch: queues, byte matrix and MMU agree after every event; a free device
  never sits on a packet it may send; the neighbour ends up knowing what the
  MMU decided; no assertion of the devices fails.
- Transport: nothing is taken as acknowledged that the receiver does not hold
  for good; completion is reported once and truthfully; gaps are repaired.
- Congestion control: it acts once per round trip, on feedback that is younger than
  its last change; rates keep their bounds, timers end with the flow.
- NIC: no flow is lost, sent out of turn or left without a wake-up.
- DeltaINT: a saved value is read by the next switch as what was meant; the
  sender's view is off by no more than the threshold per switch. The receiver of
  INTPath recovers the path and latencies of every probe.
- Path planning: paths do not overlap, cover every link and are as few as possible,
  and the loop ends.
- Routes: tables have the next hops of shortest paths over links that are up, and
  a failure leads no packet astray and loses none but those of its link and those
  to which no way is left; what else is lost, a full buffer refused.
- Failure detection: what a failure takes away is reported in time, and nothing
  that a path in order renews is reported at all.

The list of hazards these properties are aimed at, each at its line, is in
`PROJECT.json`.

## 2. The modules

| module | models | extends / instantiates |
|---|---|---|
| `NatSums` | sums over ports and queues | Integers |
| `SwitchMmu` | the MMU driven by arrivals and departures | NatSums |
| `PfcHeadroom` | the MMU behind a link that takes time, with the headroom `third.cc` configures | SwitchMmu |
| `EgressQueue` | `BEgressQueue` as operators on one port's queues | |
| `SwitchNode` | a whole switch with its neighbours as environment | NatSums, instances of SwitchMmu and EgressQueue |
| `RdmaDelivery` | abstract: what a queue pair promises | |
| `RdmaTransport` | sender, receiver and paths of one flow | instance of RdmaDelivery (refinement) |
| `RateControl` | when each congestion control changes what | RdmaTransport |
| `NicEgress` | the NIC of a host and its flows, with time | |
| `DintPath` | DeltaINT of the simulator along the paths of several flows | |
| `DeltaIntPath` | DeltaINT of INTPath: P4 switches, probes, receiver | |
| `FailureDetection` | script, senders, keys and detector of INTPath, with time | |
| `PathPlan` | how INTPath cuts a network into probe paths | SequencesExt |
| `Routing` | routes of the simulated network, and a link that fails under traffic | |
| `MC...` | values of the constants for TLC | the module of that name |
| `RdmaHw_proofs` | proofs about the RDMA host | RateControl (hence RdmaTransport), NicEgress, TLAPS |
| `IntController_proofs` | proofs about INTPath's controller | FailureDetection, PathPlan, TLAPS |
| `SwitchMmu_proofs` | proofs about the MMU and its headroom | PfcHeadroom (hence SwitchMmu), TLAPS |
| other `..._proofs` | theorems and proofs | the module of that name, TLAPS |

### 2.1 SwitchMmu

Variables have the names of the fields. `Enqueue(i, o, q, s)` is what
`SendToDev` does with a packet of `s` bytes from port `i` to queue `q` of port
`o`: `CheckIngressAdmission`, `UpdateIngressAdmission`,
`UpdateEgressAdmission`, then `CheckAndSendPfc`; `Drop` is its early return;
`Dequeue` is `SwitchNotifyDequeue`, which ends in `CheckAndSendResume`. The
charge splits a packet between reserve and pool or puts all of it in the
headroom, and the discharge takes from the headroom first, so a departing
packet is in general not discharged where it was charged: that the sums come
out right nevertheless is what `SharedAccounted` and `IngressAccounted` say.
A right shift is a division by `PfcDiv`. Counters are numbers that would be
negative where the code's would wrap; `TypeOK` says they never are.

`PfcHeadroom` adds to it both directions of the link of one port, `Watched`, with time
in units of what a unit of data takes on it: `Transmit` is `TransmitStart` of the
upstream's device and the channel's, `Arrive` is `SendToDev`, `Leave`
is `SwitchNotifyDequeue`; both queue a PFC frame if they change the decision for
`Watched`. `TransmitPfc` and `TransmitOther` are what the switch's own device sends on
that link: a PFC frame waits for the packet being sent, then goes first. What the
upstream's device is sending when the pause comes is not recalled (`ReceivePfc`). The
other ports are not watched: their packets come and go at any time, so the pool is as
full as any traffic can make it. `HeadroomOf` is the formula of `third.cc:831`, three
times what the link holds. Both directions have one rate, as in the topology files, and
queue 0 holds PFC frames only (ACKs are of the data queue unless `ack_high_prio` is set).

### 2.2 SwitchNode and EgressQueue

The state of the switch is one record, `sw`, because an event passes through
many handlers: each handler is an operator from the record before the call to
the record after it, in the code's order (`CheckAndSendPfc` sends before it
sets the mark, `DequeueAndTransmit` notifies before it starts the
transmission). An action is a whole event: `Receive`, `TransmitComplete`,
`TakeDownLink`. The decisions of the MMU are those of `SwitchMmu`, instantiated
on the record. Each neighbour is a device that obeys pauses and asks for some;
wires hold frames in order and lose nothing except through `Corrupt`, the error
model of `QbbNetDevice::Receive`. Assertions of the code put their text in
`sw.failed`, which stops the model as it would the program. `EgressQueue` has
the scheduler: queue 0 first, then round robin after `m_rrlast`.

ECMP is a route per flow, and `Route` gives it for every set of links of this switch
that are down, as `TakeDownLink` calculates all routes anew. That routes lead over
links that are up (`SwitchFlows`) is what `RoutesLive` proves of the calculation
(4.8). ECN marks and the rewriting of telemetry headers do not touch this state.

### 2.3 RdmaTransport and RdmaDelivery

Byte sequence numbers of one flow, the go-back-N and the go-back-to-chunk mode
(`m_backto0`). `SendPacket` is `GetNxtPacket` under the NIC's conditions,
`ReceiveAck` and `ReceiveUdp` the handlers of the same names, the latter with
the three branches of `ReceiverCheckSeq`. Loss and overtaking are actions of
the paths. The on-the-fly count is computed modulo `Modulus`, so that it wraps
as the code's does. A remainder by a chunk of 0 sets `divided_by_zero` and ends
the run. `RdmaDelivery` is the promise: the receiver's prefix grows and may
shrink only above what is acknowledged, completion is reported once; the
refinement maps `received` to `expected` and `acknowledged` to `snd_una`.

### 2.4 NicEgress

Names that the transport has too begin with `Nic` or `nic` here, since one module
proves about both. Flows count packets; a point in time is the number of ticks until then, and
`Tick` stops at the next event. `DequeueWith` is the host branch of
`DequeueAndTransmit`: `Hit` and `Unfinished` are the two loops of
`GetNextQindex` (the choice, and the removal of finished flows, which moves the
index; `AtPlaces` is what stays), `Reassigning` the loop of `RedistributeQp`, in which
each flow that is added again triggers the device, `SendOf` the transmission and `PktSent` (`Pace` is its `UpdateNextAvail`: by the rate of
the flow, or with `m_rateBound` false by the rate of the line), `ScheduleNextSend` the branch
with nothing to send. Every event that triggers the device ends in it. Rates
are gaps between packets; `shifts_avail` distinguishes the congestion controls
that call `ChangeRate` (HPCC, HPCC-PINT) from those that set `m_rate` alone.
How late a flow is matters only as far as a change of rate can make up for it,
so `avail` is clipped there, which keeps the state space finite.

`WakeUpPending` says what an idle device with a packet it may send waits for. It does
not say that a flow whose time has come is held up: when a timer of DCQCN raises the
rate, a variable window opens and nobody triggers the device, so nothing is sent before
the next ACK (`rdma-hw.cc:680-725`).

### 2.5 DintPath

`SwitchNotifyDequeue` is the DINT branch of CcMode 10: current input from the
header or, for a saved field, from the sketch; the maximum with the port's own
power; send it if it differs from what was last sent by more than `DINT_diff`,
else save. The utilisation of a port is any member of `Power`, as its
computation is floating point. The hash is any function from flows to slots,
the same in every switch as the code uses one seed per row. Two header fields
(`meant`, `met`) and `truth`, `harmed` are history for the properties.

### 2.6 DeltaIntPath

A header is a function from the fields a switch sends to their values, so its
domain is the bitmap; a probe carries the headers of the switches it passed,
the last one first, as the deparser puts them. `Egress` is the egress pipeline:
`Saved` is `delta_calc` or, if the register holds another flow, `set_bitmap`;
`Output` is what `update_register` writes, sent or not. Latencies are scaled
down in the switch and back in the receiver. `Receive` is one turn of the
receiver's loop: it fills in what is left out from its maps, at the last hop
from the variables all flows share, ends if it has no entry, learns what was
sent, and sets the keys of fast queues in Redis (`ok`; what becomes of a key is
in `FailureDetection`). The key for the detection of broken links is the recovered
path, so `PathRecovered`, one half of `TelemetryRecovered`, is about it. Flows on one link may overtake each other here,
which the code's links do not allow: what holds is the stronger for it.

### 2.7 FailureDetection

Time is a number of ticks, `now`. `script` is where `app.py` stands, and its
sleeps (`WaitTables` and so on) end at `wake`. A thread (`sender`, `nextSend`) is
a turn of `sendPacketByTime` per `Epoch`, woken up to `Jitter` late. A probe is
the time it was sent; it arrives, in order, within `Transit`, or is lost, at most
`MaxLoss` in a row unless its path is broken. `Receive` sets the keys the probe
renews and their time to live; the code does this with two commands per key (a
`set` without a time to live, then `pexpire`), which no other client comes
between as far as this key's end is concerned, so they are one step. `Expire` is
what Redis does on its own, up to `ExpiryLag` late, or when a `SET` finds the key
over; the event goes to the detector if it is subscribed and is lost otherwise.
`SimulateFailure` takes down a link of one path or makes one queue slow.

### 2.8 PathPlan

`net` is the network, `links` what `node_neighbors` still holds, as a set of
links; `Plans` are the paths found, with the one that is being lengthened. Actions are the passes of the outer loop (`FirstCircuit`, `JoinCircuit`,
`StartCuts`), the turns of the inner one (`Cut`), and the recursion of
`hierholzer` with an explicit `stack` (`Follow`, `Return`): its `for` runs over the
list it removes from, so a call may return with links left, and then does not note
its node. The order of lists, subgraphs and nodes is left open, which covers every
matrix for the same network and both variants of `my_path`. What raises in the code (`remove` of
a link that is gone, unpacking of `None`) leads to the phase `raised`.

### 2.9 RateControl

Every step of `RdmaTransport`, with what the congestion control does in the same
handler. `ReceiveAckAndControl` is `ReceiveAck` to its end: the transport's part,
then the handler of the mode, with a CNP or without. `HandleAckHp`,
`HandleAckTimely` and `HandleAckHpPint` are built from `FullUpdate` and `FastReact`,
the two ways to call `UpdateRate...`; with HPCC-PINT an ACK may also carry no value,
since it was not sampled or a switch with DeltaINT saved it and the sender has none
to fill in. `HandleAckDctcp` has the batch for alpha and the window after a cut.
DCQCN is `CnpReceivedMlx` and two timers; how far a decrease goes depends on alpha,
so any rate from half to all of the present one is possible. `QpComplete` cancels the
timers before the CNP of the same ACK is looked at (`AfterQpComplete`). `reaction` is
what a step changed and `stale_data`, `stale_acks` are, for each packet, the changes
made since it was sent or since the packet it answers was: history for the properties.

### 2.10 Routing

The search of `CalculateRoute` goes step by step: `StartSearch` for the next host,
`LookAt` for a turn of the inner loop, `NextNode` for one of the outer, `EndSearch`
for what the loop leaves in `pairDelay`, `pairTxDelay` and `pairBw` (a record,
`pair`, with the distance for the properties). `q` is the code's queue from `now` on.
The maps are ordered by the addresses of nodes, so `LookAt` takes any neighbour.
`SetUp` is `main` up to `maxRtt`. `TakeDownLink` is the function of that name up to
its call of `CalculateRoutes`, `Redo` what follows: clearing of tables, `TakeDown` of
the two devices, `SetRoutingEntries`, `RedistributeQp`. All this is one event of the
simulator: nothing else moves while `phase` is "redo". An interface is named by the
node behind it; a link is in `up` or not for both its ends, as `TakeDownLink` clears
both. Packets are at the device of `from` that leads to `next`, or on the wire; data
and ACKs go by `Forward` through a switch and by `Deliver` into a host. What the hash
of a flow picks among equal next hops is left open every time. `Forward` is
`SendToDev` with both of its drops: no entry in the table, and a packet the MMU does not
admit. What is in the buffers is not modelled here, so a switch may refuse any packet
that is not of queue 0 (`HighPriority`: ACKs, with `m_ackHighPrio`).

## 3. What the runs check

| run | instance | shows |
|---|---|---|
| `pfc_headroom` | 2 ports, 1 queue, a link that holds three packets | exact accounting, pool, headroom and buffer bounds, pauses follow the backlog; nothing an upstream that obeys PFC sends is refused |
| `switch_two_way` | 2 ports, traffic both ways, each neighbour pauses once, and a control packet, a frame lost or a link down | agreement of queues, matrix and MMU, counters never below the queues; work conservation; no failed assertion while no frame is lost, no double transmission; what the upstream gets to know |
| `switch_fair` | two queues share a port | every pause ends, every queue is served |
| `rate_control` | all five congestion controls, 7 bytes in packets of 2, a packet and an ACK lost | one change per round trip, on fresh feedback; timers of DCQCN end; refinement of `RdmaDelivery` and repair of a gap under all of them |
| `transport_overtaken` | 24 bytes in packets of 3, chunks of 8, window 14, ACK interval 7; a packet and an ACK lost, an ACK overtaken | acknowledged and complete mean received; without the losses the flow completes |
| `transport_second_nack` (violated) | window 3, one loss | a second NACK takes `snd_nxt` below `snd_una` |
| `nic_flows` | three flows in two groups, any two disturbances | sending in turn, no flow forgotten or without wake-up, all finish |
| `dint_two_flows` | two flows, two switches, every hash, one loss | saved values are read alike; the sender's view is accurate |
| `intpath_probes` | paths 1-2-3 and 1-3, collision or not, a slow queue, a lost probe | the receiver does not end, recovers paths and latencies, stops reporting a slow queue |
| `failure_detection` | two paths to one host, probes lost, late and slow | what fails is printed in time, nothing else is |
| `path_plan` | every network of up to 6 switches and 8 links | paths do not overlap, the Euler trails are whole, the fewest paths, the loop ends |
| `routes` | every network of 2 hosts, 3 switches and up to 5 links, one link down, one flow | all shortest paths and nothing else in the tables, figures of one path; live routes only, no circle, no packet lost but with its link, its last way or for a full buffer, no NIC missing before hosts are cut off |

The type invariants of `RateControl`, `DintPath` and `FailureDetection` are proved (4.4
to 4.6) and in no run. Every safety property and every action property of the other
runs is proved too, for all sizes (4.1 to 4.10), under the hypotheses named there.

### 3.1 Bounds

- PfcHeadroom, and SwitchMmu in it: units in place of bytes; what matters is the order
  of packet, reserve, share, headroom and pool. A packet has two units and a reserve
  three, so one packet fits the reserve and the next is split; the headroom of the other
  port has three, so one packet fits it and the next is dropped; the pool has eight, of
  which the other port may take so much that the share of `Watched` is less than a
  packet. Buffer and link are finite, so nothing else is bounded. A PFC frame takes one
  unit and the delay is six, three packets. With a delay of five a packet is refused
  (`MCPfcHeadroom2.cfg`), so the instance is at the edge. Other sizes, ports and queues
  are left to the proofs (4.1).
- SwitchNode: `WireCap = 1` frame per wire direction and `MaxBacklog` PFC frames
  at a port let a pause and a resume be under way with the data behind them;
  `MaxPfc` counts the pauses of each neighbour, `MaxDisturb` control packets, lost
  frames and links taken down together; with two of them the run has five times the
  states and shows the same. Data is unbounded: neighbours send as long as they
  are not paused. What holds without failures only has this as its hypothesis
  (`spent.loss`, `spent.down`).
- RdmaTransport: `MaxFlight` packets per path, `MaxDataLoss`, `MaxAckLoss`,
  `MaxOvertake`. A flow of a few packets has a first, a middle and a short last
  one; second NACKs, losses of the repair and of the last packet all occur.
- RateControl: the bounds of the transport; the flow is long enough for several round
  trips with three packets on a path. Rates are small numbers: a line of three times
  the least rate, a recovery of one stage, increases of 1 and 2, so that each of the
  three kinds of increase meets the rate of the line. Stages past hyper increase are
  one stage, as they do the same.
- NicEgress: `MaxDisturb` disturbances of any kind together. Three flows are
  the least with which clearing a finished flow moves the index of the picked
  one past another; one of them has three packets, so that with a window of two there is
  one left when a timer opens it. Gaps {1, 2}, a packet takes one tick. `m_rateBound` is
  true, the default, as no script turns it off (`RATE_BOUND`); the proofs are for both.
- DintPath: one packet per link (`MaxFlight`), so that every link may hold one
  while switches see others; four powers with `DINT_diff = 1` give differences
  at, below and above the threshold. Flows and slots are symmetric: both flows
  take the same path. Powers start at 1; 0 is the subject of `MCDintPath2.cfg`.
- DeltaIntPath: three latencies on the middle queue of the longer path (equal,
  within `Delta` and beyond it) and the slow one, which is where the script makes
  it slow; one latency elsewhere. Two probes of one flow may be under way. The
  hash collides for both flows or for none; a place in the registers is the same
  in every switch, as the hash is.
- FailureDetection: two paths that share one port key (a host has one port, and
  several paths may end there) and one key each of their own. Epochs of 2, lags
  and transit of 1, no two losses in a row; the times are tight: `Aging` is one
  above what `AgingOutlastsLosses` asks and the detector may subscribe after the
  failure. The run ends with the script.
- PathPlan: 6 switches are the least with which a circuit is left over by the cuts
  and spliced into a path, and 8 links the least with which every action fires.
  Switches are named in the order of their degrees; as names do not matter to what
  is checked and every order of the lists is covered, no network is left out.
- Routing: three switches are the least with two ways through switches, and with two
  hosts one can be wrongly led through the other or through the source. Every network of
  up to five of the nine possible links is an initial state, unconnected ones too, and
  one with six, where two equal ways and a link between them are left when a link
  fails. One link fails (`MaxDown`), as in the script, and one packet is refused by a
  full buffer (`MaxRefused`); ACKs have high priority, so that a refused one would be an
  error. Delays and bandwidths differ from link to link.

### 3.2 Fairness

- `switch_fair`: transmissions end and frames arrive (weak fairness: these are
  scheduled events of the simulator). A neighbour that asked for a pause ends it
  some time (strong fairness, since the wire it needs may be full in between):
  its own MMU resumes when it drains, which is `UpstreamResumes` one hop
  further. Neighbours need not send.
- transport: weak fairness of the handlers and the timer, and of sending while
  even the least window permits it: the NIC serves every such queue pair
  (`EveryFlowFinishes` of NicEgress). Nothing is assumed about losses.
- `rate_control`: the same. Nothing is assumed of CNPs and of the timers of DCQCN.
- `nic_flows`: time passes, events that are due happen, what is on the fly is
  acknowledged (`Completes` of RdmaTransport) and pauses end
  (`UpstreamResumes` of SwitchNode). Nothing makes a NIC send.
- `intpath_probes`: each flow goes on, by a probe sent, passed on or received:
  a thread sends one every epoch for as long as the failure is to be found.
- `path_plan`: the program runs on (weak fairness of `PlanNext`); it is sequential.
- `routes`: the program calculates, and devices send what is in their queues
  (`EveryQueueServed` of SwitchNode). No flow need send.
- `failure_detection` has none: deadlines are part of the model, and a time by which
  something has happened is a safety property (`FailureReported`).

### 3.3 Disagreements found

`transport_second_nack`: `RecoverQueue` (`rdma-hw.cc:487`) goes back for every
NACK; after a second NACK for the same packet, ACKs of the first repair move
`snd_una` past `snd_nxt`. The on-the-fly count wraps; with a window the flow is
stuck.

More configurations show behaviour the hazards mention and no run lists:

| configuration | property TLC refutes | what happens |
|---|---|---|
| `MCSwitchNode4.cfg` | `OnlyReadyDevicesTransmit` | with a route that leads back after a link failure, a resume frame sent inside `DequeueAndTransmit` starts on the very device that is about to transmit (`qbb-net-device.cc:313, 447`) |
| `MCPfcHeadroom2.cfg` | `Lossless` | over a link that holds less than three packets, what still comes after a pause was decided exceeds three delays (`third.cc:831`) and is refused |
| `MCDintPath2.cfg` | `InvalidMeansSaved` | the sentinel 0 of "saved" (`int-header.h:98`) is also the power of an idle port, which a switch sends |
| `MCRdmaTransport4.cfg` | `Completes` | a flow that is no multiple of the chunk never completes in go-back-to-chunk mode |
| `MCRateControl2.cfg` | `FastReactObeyed` | HPCC-PINT reacts to every ACK with `FAST_REACT 0`, which `simulation/mix/config_doc.txt:35` defines as "react once per RTT" (`rdma-hw.cc:1060-1064` does not ask) |
| `MCRateControl3.cfg` | `TimersNeverOutlive` | the first CNP on the ACK that completes a flow starts timers that `QpComplete` has just cancelled (`rdma-hw.cc:403-415`) |
| `MCRateControl4.cfg` | `AlwaysFresh` | a second NACK for a packet sends the flow back below `m_lastUpdateSeq` and what is acknowledged then is no "full RTT feedback" (`rdma-hw.cc:733`) |
| `MCNicEgress2.cfg` | `WakesInTime` | an idle NIC wakes later than a flow could send |
| `MCDeltaIntPath2.cfg` | `LastHopAccurate` | the latency of the last hop is read from another flow, against the comment in `INTPath-DINT/system/packet/dint_receive.py:39` |
| `MCDeltaIntPath3.cfg` | `ReceiverSurvives` | a path that visits a switch twice ends the receiver with the first probe |
| `MCRouting2.cfg` | `MaxRttOfNetwork` | switches keep the "Max Rtt of the network" (`switch-node.cc:72`) of before a failure, and it is too small after it (`third.cc:299-324` does not compute `maxRtt` again) |

## 4. What is proved

All proofs are checked by TLAPS for every value of the constants that satisfies
the assumptions named below.

### 4.1 SwitchMmu and PfcHeadroom (`SwitchMmu_proofs`, `NatSums_proofs`)

Assumptions `MmuSizes`, `MmuPktSize`, `MmuConfig`, `MmuPool`: any number of
ports and queues, any packet sizes, any configuration that leaves a pool (with
less, the unsigned subtraction of `GetPfcThreshold` wraps before any packet).

- `MmuInvariant`: `Spec => []IInv`, with `IInv` the conjunction of `TypeOK`, the
  three accounting equations, `PoolNotOverdrawn`, `HeadroomRespected`,
  `HeadroomOnlyWhilePaused` and `PausedHasBacklog`. No conjunct is inductive
  alone. That a discharge does not take a counter below 0 needs the ingress
  equation (the queue holds at least the bytes that leave); that the pool is
  not overdrawn needs the shared equation; that a paused queue has a backlog
  needs that headroom is used only while paused.
- From it `MmuCountersNeverWrap`, `MmuAccountsExact`, `MmuWithinBudget` and
  `MmuPauseFollowsBacklog`.
- `MmuStoredFitsBuffer` for one data queue per port: what is stored is what is in
  the reserves, the pool and the headroom, and the buffer has room for each of the
  three at every port (`FitsBuffer`, with `SumToBound`). With several queues per port
  it is not true, as each queue may use the headroom the buffer has once per port.

These are about `Spec`, in which packets come and go in any order. `LinkIsMmu` says that
`PfcSpec` implements it, so every property of `pfc_headroom` is proved.

- `HeadroomSuffices`, with the assumption `HeadroomLink`: `Lossless` for any number of
  ports, any buffer, reserve and threshold, under `LongLink(mtu)`: one data queue, no
  packet longer than `mtu`, none of the upstream (`SentSize`) shorter than two PFC
  frames, and a link that holds three times `mtu` and two PFC frames. The longest story
  is this. A packet passes the threshold while the headroom is empty, so the decision is
  made with nothing in the headroom but this packet. The frame waits for the PFC frames
  before it and for the packet its device is sending, and travels one delay; until it
  comes the upstream sends, and may have just begun a packet; one delay later the last
  of it arrives. `RoomLeft` is that sum for every moment: the headroom in use, what is
  on the wire and what the upstream may still send fit. At the moment of the decision it
  is two delays, three packets and two PFC frames, which three delays cover. The two
  frames are `FewFrames`: a packet takes as long as a pause and a resume, so frames do
  not come faster than they are sent. `LinkOK`, `InOrder` and `LastIsPause` say what is
  on the wires: in order, apart by their sizes, and of the frames under way the last is
  what the MMU has decided.

  The hypotheses matter. With several data queues each may use all of the headroom. PFC
  frames have 43 bytes, so ACKs of 60 in a data queue are shorter than two of them: the
  theorem is about the port of a sender, which sends data and gets ACKs; other ports may
  carry both. Links of 100 Gbit/s and 1 us hold 12,500 bytes, well above three packets
  of 1000 and their headers; links of 25 Gbit/s and 1 us hold 3125, a little less than
  that, so it does not cover them. TLC checked the invariant with a delay of 8.

The equations are sums over ports and queues. `NatSums_proofs`, which the other proofs
share, shows what a
change of one cell does to such a sum, by induction stated over a set of
numbers (`{n \in Nat : ...}` contains 0 and is closed under successor), not
over a predicate, as the provers cannot instantiate one. The lemmas
`PoolTotalUpdate`, `StoredUpdate` and `WaitingUpdate` lift it to tables of
counters; `EnqueueAt` and `DequeueAt` are the arithmetic of one cell,
`AccountsKept` puts both together.

### 4.2 SwitchNode (`SwitchNode_proofs`)

Assumptions `SwitchConfig`, `SwitchFlows`, `SwitchBounds`: any number of ports and
queues, any sizes, any flows, any routes over links that are up, any number of control
packets, lost frames and links taken down.

An event is a chain of calls on the record of the switch, so each call is reasoned
about once, as a relation of the state before it and the state after it: `SendPfcDoes`,
`PauseSignals`, `DischargedDoes`, `DataSent`, `DequeueAndTransmitDoes`, `ForwardDoes`,
`ResumedDoes`, `TakenDownDoes` and others. Most of what they say is one relation,
`Kept`, which composes (`KeptTwice`): books in balance stay so, what the matrix charges
beyond a queue (`Excess`) stays the same, and whatever PFC frames led to the MMU's last
decision, they do after the call. The actions (`...Keeps`) put the calls together.

The inductive invariant `IInv` has these parts, and none is inductive alone:

- `Typed` and `Balanced`: `Books` says that MMU counters are natural and sums over the
  byte matrix, `Covered` that the matrix covers the queues. A packet that leaves is in
  its queue, so the matrix has its bytes and no counter falls below 0 (`HeadCovered`);
  the pool is a sum of what each port has beyond its reserve, so it follows the ports
  (`BooksMove`). Taking a link down empties queues and tells nobody, which leaves an
  excess: the equations of `AccountsMatchQueues` end there, its inequality does not.
- `ServedBut(sw, {})`: a free device has nothing to send. Inside an event it holds but
  for the device at hand.
- `Signals`: for each port and queue, the frames on their way (`Pipe`: wire, then queue 0)
  lead from what the receiver does to what the sender decided last, each a change.
  Both directions are needed: "Must be PAUSEd" fails unless what comes in alternates.
  Queue 0 is served first, hence a frame keeps its place (`PipeJoined`, `PipeSent`).
- `Asserted` and `FromHere`: a device about to transmit is started by a call inside only
  if the packet it sends came in through itself (`NoBack`). What waits in queues and comes
  over wires was not led back when it was routed; that lasts as long as routes do.

From `Invariance` follow `TypeCorrectness`, `Accounts`, `NothingLeftWaiting`,
`UpstreamFollows` and `NoFailures`. The last has a hypothesis, `NoWayBack`: no route leads a
data flow back out of its own port, whatever links are down, as in `switch_two_way`.
Without it, it is false (`MCSwitchNode4.cfg`, 3.3); `NoFailuresUntilDown` says that
it takes a link that went down. So every property of `switch_two_way` is proved. TLC checked
`IInv` on the instances of `switch_two_way` and of `MCSwitchNode4.cfg`.

### 4.3 RdmaTransport (`RdmaHw_proofs`)

Assumptions `TransportSizes`, `TransportBounds`: any flow, MTU, window, chunk
and ACK interval, both modes.

- `IInv` = `TypeOK`, the counts of losses, all data inside the flow,
  `AckedIsReceived` (also of every ACK under way), `WholeChunks` (in chunk mode
  what is acknowledged ends a chunk) and `CompleteMeansAcked`. A receiver that
  gives up part of a chunk keeps what was acknowledged because rounding down is
  monotone and idempotent (`ChunkMonotone`, `ChunkIdempotent`) and every ACK
  under way is rounded by the sender.
- `TransportTypeCorrect`, `AcknowledgedIsReceived`, `CompletionIsTrue` follow, the last
  two together as `SenderNeverWrong`.
- `DeliveryKept`: if no ACK overtakes another (`MaxOvertake = 0`), the transport
  implements `RdmaDelivery`. The invariant it adds, `FinalAckIsLast`, says that an
  ACK for the whole flow is the last on its path and that none is left once the
  sender has taken it, so completion is not reported twice. With overtaking the theorem is false, as TLC shows.

### 4.4 FailureDetection (`IntController_proofs`)

Assumptions `DetectionPaths`, `DetectionTimes`, `AgingOutlastsLosses`, `Schedule`:
any paths and keys, any times and lags for which a key outlasts the losses allowed
and the failure comes while all keys are there and all threads send.

- `NoPathInOrderReported`: the invariant adds to `TypeOK` that the probes of a
  path in order follow each other by at most `Gap` from the last that arrived to
  the next to be sent, with as many gaps as were lost (`Chained`), and that a key
  ends `Aging` or more after the last probe of any path that renews it was sent
  (`KeysRenewed`). The two together leave no time for the key to be over.
- `FailureReportedInTime`: from the failure on no key that is taken away is
  renewed except by probes sent before (`Doomed`), so it ends by a known time, and
  the detector subscribes before any key can end (`Timed`, `Started`, `Lasting`).

### 4.5 DintPath (`DintPath_proofs`)

Assumptions `DintPaths`, `DintNumbers`: any flows, paths, hash function, threshold,
length of the links and number of losses. `DintTypeCorrect` needs no more. The other
theorems are stated under two hypotheses: `NoLoops`, no path visits a switch twice
(it would compare with what it has on the visit before), and `PowersFit`, no power
is 0 (the sentinel of "saved", see 3.3) or too large for the field.

- What a switch has on the flows of one slot is a function on them. `Linked` says
  that the packets of a link lead (`Chain`) from what its far end has to what its
  near end has: each packet sent leaves its meaning for its own flow and nothing
  for the others, each packet saved has the meaning that is there already. A
  switch that sends appends to the chain, one that receives takes its first step
  (`Leads`). The flows that lost a packet, or share a slot over different paths,
  are left out; `DintSwitchesAgree` says that for all others a saved value is read
  as meant.
- `PacketsNear` says that what a packet means and what it met differ by one
  threshold at most for each switch passed: the maximum of two numbers moves by
  no more than they do, and a switch saves only within the threshold of what it last
  sent. With the end of the chain at the sender this gives `DintViewAccurate`.
  `FirstBlank` (the first switch never has an input) starts the count at 0.

### 4.6 RateControl (`RdmaHw_proofs`)

Assumptions `TransportSizes`, `TransportBounds`, `RateModes`, `RateNumbers`: any flow,
both modes of going back, any rates of which the least is even, any number of losses.
A step of `RateControl` is a step of `RdmaTransport` or leaves it alone
(`TransportStep`), so its invariant holds, and `DeliveryUnderControl` follows from
`DeliveryKept`.

- `FeedbackFresh`: a change sets a mark, `m_lastUpdateSeq` or `m_highSeq`, at or past
  all that was sent; what was in flight then must stay below it until it is answered.
  NACKs take `snd_nxt` back, so this is not evident. `RoundTrips` says that as long as
  the receiver has not asked twice for a packet, the packets on their way are some
  the receiver passes over without an answer (`PassedOver`: sent before the sender
  obeyed a NACK for what is expected), and behind them a stream without repetitions
  (`Stream`); that a NACK is the last of all replies (`NackIsLast`), so none is left
  when the sender obeys it; and that after a cut of DCTCP its window stays open as
  long as anything older is under way (`CutsFirst`). Actions that take packets away
  keep what is said of the rest in the same order (`Some`).
- `RateTypeCorrect` for `m_ack_interval > 0` (without ACKs counted, a NACK takes the
  sender back to 0 and the size of a batch wraps): the halves of two numbers no less than an
  even one add up to no less than it (`Halves`), and a batch fits the flow because an
  ACK is never ahead of `snd_nxt` while no packet was asked for twice (`BatchStep`).
- `TimersEnd` needs only that timers belong to DCQCN and start with its first CNP.

### 4.7 DeltaIntPath (`DeltaIntPath_proofs`)

Assumptions `IntPaths`, `IntNumbers`, `Latencies`: any network, flows and paths to one
host, hash function, latencies, scale, difference that is not sent, number of probes
under way and of losses.

- `RouteKept`: what headers, maps and the variables of the last hop say of a hop, but
  for its latency, is right (`OnRoute`). The variables all flows share are right for
  all as all paths end at one switch. `PathNeverWrong` follows, with any losses and
  also for paths with loops.
- `MemoryKept` and the theorems from it are stated under `NoLoops`: no path visits a
  switch twice. Otherwise they are false (`MCDeltaIntPath3.cfg`). The invariant
  relates three memories that change at different times: that of a switch, that of
  the receiver and the probes between them. `Supplied` says that whatever a switch
  leaves out of a probe is known to the receiver or in a header of a probe no younger
  than it, and the same of what it would leave out of the next one, as long as its
  register is the flow's. `Told` says the same of the latency: the last one under way,
  or the one the receiver has, is that the switch remembers (`Holds`). A flow that
  evicts another from a register takes nothing from it, since a switch leaves nothing
  out when it gets the register back (`OtherRegisters`). A lost probe without fields
  said what the one before it did (`Silent`), so nothing is lost with it.
- `ReceiverNeverEnds` is `Supplied` for the oldest probe, `TelemetryNeverWrong` is
  `Told` for it.
- `PathTyped`: `TypeOK`, with `ValuesInv` for the latencies: registers, headers and maps
  hold none but those some switch measured. That what is reported as "ok" is a queue of
  the network is a consequence of `OnRoute`: device and port of a hop come from fields
  that arrived at different times, and still are those of one hop.

### 4.8 Routing (`Routing_proofs`)

Assumptions `RouteNodes`: any hosts and switches, networks, and flows between different
hosts; and `RouteNumbers`: delays are numbers, bandwidths positive and no larger than
`NoLimit`. How many links go down does not matter. The four theorems rest on two
invariants, `IInv` for where entries lead and `BInv` for what they leave out.

- `RoutesLive`: while the program runs, every entry leads one hop nearer over a link
  that is up, and packets and queue pairs are on such entries only. `SearchInv` is what
  the search has in hand: the node at the head of `q` has been found, `left` are its
  neighbours. `HopsInv` gives each next hop its distances: for the host at hand those
  of the search, for the hosts done those kept in `pair`; a host still to do has none.
  `TrafficInv` carries packets over the calculation: their links are up or `broken`,
  and those in `broken` end in `TakeDown` before the tables are those of `nextHop`.
- `RoutesShortest`: the tables have *all* next hops of shortest paths and no other, and
  the figures of a pair are those of one path. `SearchSound` says why a breadth-first
  search works. `NodesFound`: the nodes found are those with a next hop, and none is as
  far as the nodes found are many. `OnePath`: what is known of a node is known over one
  of its next hops. `InOrder`: the queue goes from near to far, and nothing found is
  more than one link beyond its head; without it a node found early could turn out
  nearer later. `AllLooked`: a neighbour looked at from `y` is found, at most one link
  farther, and has `y` for a next hop if it is one farther. When the queue is empty
  these four become `Solved`. That `Solved` figures are distances is a fact about
  graphs (`LevelsAreDistances`): figures that are 0 at the host, one less at some
  neighbour that lets packets through, and rise by at most one over any link, are the
  distances of `Within`. `Within` is a recursive function; `WithinExists` shows that it
  exists and `WithinLevels` what it gives for every number of links, both by induction
  over a set of numbers (`SetInduction` of `NatSums_proofs`), which does not need the
  library's induction theorems.
- `LossHasReason`: a packet is gone only at the host it is for, on a link taken down, or
  where no way is left, or at a switch whose buffer refuses it, and then it is not of
  high priority; an assertion about NICs fails only when two hosts are cut off. An empty entry means that there is no way because the tables have *all* shortest
  paths: this is what `RoutesShortest` is needed for.
- `RoutesTyped`: `TypeOK`.

### 4.9 NicEgress (`RdmaHw_proofs`)

Assumptions `NicSizes`, `NicBounds`: any flows, sizes, priority groups, window (fixed,
by rate or none), pacing by rate or not (`m_rateBound`), any finite set of rates, none above what the line can send, and any
number of disturbances, in both kinds of congestion control. All four properties of
`nic_flows` but liveness are proved: `NicTypeCorrect`, `FlowsKept`, `NeverLeftAsleep`,
`PacketsInTurn`.

- Every event changes the device and then calls `DequeueAndTransmit`, so one lemma,
  `Dequeues`, is about that call, for any device: if the device is `Good` (its numbers
  fit the flows, each flow with something to do is once in the group), it stays so;
  at most one packet leaves, of a flow that may send now, and only if the device was
  free (`Outcome`); and the device is `Awake` after it. Each action then has to show
  that what it made of the device before the call is `Good`.
- `Awake` is stronger than `WakeUpPending`: an idle device without a wake-up waits for
  some flow if *any* flow has a packet left, not only if one may send. It has to be,
  since a timer can open a window later without an event for the device.
- That a flow is picked if one may send needs that the loop, which starts after
  `m_rrlast`, comes past every place (`ModReaches`). That no flow is forgotten needs that
  what is cleared has nothing to do and that the others keep their order
  (`AtPlacesProperties`).
- `RedistributeQp` calls the device once per flow; `ReassigningSteps` is an induction
  over the order of the flows (`SetInduction`), in which `Outcome` composes
  (`OutcomeChain`): `SentInTurn` is true of a flow even if the event sent for several.

### 4.10 PathPlan (`IntController_proofs`)

Assumptions `NAssumption`, `NetworksAssumption`: any number of switches, any network
that hangs together. The order of lists, subgraphs and nodes, and the choice among
shortest paths, are open in the model, so the theorems hold for each. `PlanInvariant`
is the inductive one, and TLC checked `PlanInv` on all networks of 5 switches and up to
6 links. From it follow:

- `LinksOnce`: `LinksTakenOnce`, both halves of it.
- `NeverRaises`: no `remove` fails and every circuit to be joined finds its path.
- `FewestWhenDone`: at the end no link is left, and there is one path, or half as many
  as odd nodes. `MinimalWhenDone` says that this is the minimum, which TLC cannot check:
  any paths that go along each link once are at least as many (`OddEnds`: each
  path has two ends, so it takes the oddness of at most two nodes).
- `PlanTypeCorrect`.

What they rest on:

- Graphs. `ComponentLeast`: the component of a node, which the model finds by N rounds
  of adding neighbours, is the least set with the node that no link leaves; as long as a
  round adds a node, k rounds have more than k. So subgraphs are disjoint, taking links
  from one leaves the others as they were (`SubgraphKept`, `DegreeKept`: degrees
  computed at the head of the loop are still right for the subgraphs not yet cut), and
  a subgraph of a network that hangs together touches a path (`SubgraphTouched`).
  `LinkTaken`, `PathTaken`: without the links of a path, its two ends change
  parity and no other node does.
- `hierholzer`, in `EulerAt`. What is on the stack and what is noted are two walks
  without a common link and together all links taken (`EulerTaken`). By parity the
  descent under way can only run into a dead end at one node `e`, the first time at the
  other odd node (`EulerParity`), so what is noted goes on as a walk. A loop that has
  made its second turn belongs to a node without links, or to `e` (`EulerLoops`):
  hence every call that returns finds its list empty and notes its node, although the
  list shrinks under the loop. What is not yet taken can be reached from a
  node on the stack (`EulerSpans`), so nothing is left when the stack is empty.
- `HopsSplice`: a circuit put into a path where it touches it gives a path along the
  links of both. `ShortestOnce`: a path as long as the distance of its ends visits no
  node twice, so `my_path`'s links can all be removed.
- `PlanCount`: twice the paths plus the odd nodes of what is left is the number of odd
  nodes of the network, or none is odd and there is one path at the end. `Purpose`
  says what a call of `euler` is for: a circuit is the first path, with no odd node in
  the network, or starts on the path set aside.

### 4.11 Only model-checked

Liveness (`UpstreamResumes`, `EveryQueueServed`, `Completes`, `GapsRepaired`,
`EveryFlowFinishes`, `GrayFailureSeen`, `PlansOptimally`, `PacketsEnd`) is out of the
prover's reach. Of `PlansOptimally` only that the loop ends is left to TLC.

## 5. What is not modelled

- The rates of HPCC, TIMELY, DCTCP and HPCC-PINT, and the alpha of DCQCN and DCTCP,
  are computed in floating point. `RateControl` has when they change; transport and
  NIC leave the rate open, so that their results hold for all five.
- Port utilisation and the PINT encoding: floating-point logarithms with random
  rounding; any value of `Power` in `DintPath`.
- Reading of inputs and tracing in `third.cc`, the bandwidth-delay products it forms
  from what `Routing` has; header serialisation.
- `DFLSPathPlan.py` of INTPath, which counts the stretches of one depth-first
  search and keeps no paths. The rest of INTPath's controller: building a Mininet
  network, tables and sockets is input and output once at the start, in part
  p4lang's code.
- `Mininet-DINT`: PINT's P4 program, which has no state, and scripts that sample and
  plot recorded data with a third-party quantile sketch (`kll.py`).
  `INTDetect-DINT`: the framework INTPath was derived from, without DeltaINT.
- Networks of several switches under PFC, hence pause deadlocks over a circle of
  switches. How full buffers are when routes change: `Routing` lets a switch refuse any
  data packet.
- The rest of `simulation/src` is ns-3.17, most of it not even built for these
  experiments. Nearly all lines of the repository are of this kind: the simulator's
  Python bindings alone (`*/bindings/modulegen__*.py`, generated) are several hundred
  thousand. The code of this project's own is about two dozen files, which the
  table in 1.1 names.

## 6. Plan

In this order; all are done.

1. `SwitchMmu` with proofs. 2. `SwitchNode` over `EgressQueue` and `SwitchMmu`.
3. `RdmaTransport` refining `RdmaDelivery`, with proofs. 4. `DintPath`
   with proofs. 5. `NicEgress`. 6. `DeltaIntPath` with proofs. 7. `FailureDetection` with
   proofs.
8. `PathPlan`, with proofs.
9. `RateControl` over `RdmaTransport`, with proofs.
10. `Routing`: the search for routes and `TakeDownLink` on small networks, against
   shortest paths, with proofs.
11. `PfcHeadroom`: time on a link, the headroom formula of `third.cc:831`, no drop, with
    a proof.
12. Proofs of `SwitchNode`. 13. Proofs of `NicEgress`.

New runs will take the place of runs whose question is then answered by a
proof.
