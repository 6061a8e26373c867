----------------------------- MODULE PfcHeadroom ----------------------------
(***************************************************************************)
(* Is the headroom large enough?  SwitchMmu behind a link that takes time: *)
(* when the MMU decides to pause an upstream, the PFC frame waits for the  *)
(* packet its device is sending and then travels, and what the upstream    *)
(* has sent by then, the packet it is sending included, still arrives.     *)
(*                                                                         *)
(* Of one port, Watched, both directions of the link are modelled; what    *)
(* the other ports receive and send comes and goes at any time, so that    *)
(* the pool is as full and as empty as any traffic makes it.  The unit of  *)
(* time is what a unit of data takes on the link of Watched.               *)
(***************************************************************************)
EXTENDS SwitchMmu, Sequences

CONSTANTS
  Watched,
  LinkDelay,    \* LinkDelay[i]: delay of the link of port i, as the data it holds
  PfcSize,      \* of a PFC frame
  SentSize      \* sizes of the packets the upstream of Watched sends

(* third.cc computes the headroom of a port from rate and delay of its     *)
(* link.  Mutant: what is on the way both ways, and not more.              *)
Mut_HeadroomOf(delay) == delay * 2
HeadroomOf(delay) == delay * 3

ASSUME HeadroomLink ==
  /\ Watched \in Port /\ LinkDelay \in [Port -> Nat] /\ PfcSize \in Nat \ {0}
  /\ SentSize \subseteq PktSize
  /\ Headroom = [i \in Port |-> HeadroomOf(LinkDelay[i])]

VARIABLES
  sending,   \* until the upstream's device is READY again
  stopped,   \* m_paused of the upstream's device
  wire,      \* packets on their way to the switch
  answering, \* until the switch's device at Watched is READY again
  frames,    \* PFC frames in queue 0 of that device
  back       \* PFC frames on their way to the upstream

link_vars == <<sending, stopped, wire, answering, frames, back>>
pfc_vars == <<mmu_vars, link_vars>>

PfcInit ==
  /\ Init
  /\ sending = 0 /\ stopped = {} /\ wire = <<>>
  /\ answering = 0 /\ frames = <<>> /\ back = <<>>

-----------------------------------------------------------------------------
(* The upstream. *)

(* Its device is READY and sends a packet of a queue that is not paused.   *)
Transmit(q, s) ==
  /\ sending = 0 /\ q \notin stopped
  /\ sending' = s
  /\ wire' = Append(wire, [q |-> q, size |-> s, in |-> s + LinkDelay[Watched]])
  /\ UNCHANGED <<mmu_vars, stopped, answering, frames, back>>

(* Mutant: a pause that comes while the device is BUSY is lost.            *)
Mut_ReceivePfc ==
  /\ back # <<>> /\ Head(back).in = 0
  /\ back' = Tail(back)
  /\ stopped' = IF ~Head(back).pause THEN stopped \ {Head(back).q}
                ELSE IF sending > 0 THEN stopped ELSE stopped \cup {Head(back).q}
  /\ UNCHANGED <<mmu_vars, sending, wire, answering, frames>>

(* QbbNetDevice::Receive of a PFC frame.                                   *)
ReceivePfc ==
  /\ back # <<>> /\ Head(back).in = 0
  /\ back' = Tail(back)
  /\ stopped' = IF Head(back).pause THEN stopped \cup {Head(back).q}
                ELSE stopped \ {Head(back).q}
  /\ UNCHANGED <<mmu_vars, sending, wire, answering, frames>>

-----------------------------------------------------------------------------
(* The switch. *)

(* SendPfc, when the decision for queue q of Watched has changed.          *)
SendPfc(q) ==
  frames' = IF paused'[Watched][q] = paused[Watched][q] THEN frames
            ELSE Append(frames, [q |-> q, pause |-> paused'[Watched][q]])

(* A packet of the upstream is received: SendToDev.                        *)
Arrive(o) ==
  LET p == Head(wire)
  IN  /\ wire # <<>> /\ p.in = 0
      /\ wire' = Tail(wire)
      /\ IF CheckIngressAdmission(Watched, p.q, p.size)
         THEN Enqueue(Watched, o, p.q, p.size)
         ELSE Drop(Watched, p.q, p.size)
      /\ SendPfc(p.q)
      /\ UNCHANGED <<sending, stopped, answering, back>>

(* The same for a packet of another port; any packet leaves.               *)
ArriveElsewhere(i, o, q, s) ==
  /\ i # Watched
  /\ IF CheckIngressAdmission(i, q, s) THEN Enqueue(i, o, q, s) ELSE Drop(i, q, s)
  /\ UNCHANGED link_vars
Leave(i, o, q, s) ==
  /\ Dequeue(i, o, q, s)
  /\ SendPfc(q)
  /\ UNCHANGED <<sending, stopped, wire, answering, back>>

(* DequeueAndTransmit at Watched: queue 0 goes first; other packets may    *)
(* be any.                                                                 *)
TransmitPfc ==
  /\ answering = 0 /\ frames # <<>>
  /\ answering' = PfcSize
  /\ frames' = Tail(frames)
  /\ back' = Append(back, [q |-> Head(frames).q, pause |-> Head(frames).pause,
                           in |-> PfcSize + LinkDelay[Watched]])
  /\ UNCHANGED <<mmu_vars, sending, stopped, wire>>
TransmitOther(s) ==
  /\ answering = 0 /\ frames = <<>>
  /\ answering' = s
  /\ UNCHANGED <<mmu_vars, sending, stopped, wire, frames, back>>

(* Time passes, when nothing is due.                                       *)
Tick ==
  LET nearer(s) == [k \in DOMAIN s |-> [s[k] EXCEPT !.in = @ - 1]]
      due(s) == s # <<>> /\ Head(s).in = 0
  IN  /\ ~due(wire) /\ ~due(back) /\ (answering = 0 => frames = <<>>)
      /\ sending' = sending - Smaller(1, sending)
      /\ answering' = answering - Smaller(1, answering)
      /\ wire' = nearer(wire) /\ back' = nearer(back)
      /\ UNCHANGED <<mmu_vars, stopped, frames>>

PfcNext ==
  \/ \E q \in Queue, s \in SentSize : Transmit(q, s)
  \/ ReceivePfc
  \/ \E o \in Port \ {Watched} : Arrive(o)
  \/ \E i \in Port, q \in Queue, s \in PktSize : \E o \in Port \ {i} :
       ArriveElsewhere(i, o, q, s) \/ Leave(i, o, q, s)
  \/ TransmitPfc \/ (\E s \in PktSize : TransmitOther(s)) \/ Tick

PfcSpec == PfcInit /\ [][PfcNext]_pfc_vars

-----------------------------------------------------------------------------
(* An upstream that obeys PFC loses nothing: whatever else fills the pool, *)
(* whatever is on the way when the pause is decided (switch-mmu.cc:76) and *)
(* however pauses and resumes follow each other, a packet that arrives is  *)
(* admitted (switch-node.cc:173), with the headroom of third.cc:831.  This *)
(* is for one data queue, packets of the upstream that take as long as two *)
(* PFC frames, and a link that holds three of them.                        *)
Lossless ==
  wire # <<>> /\ Head(wire).in = 0 =>
    CheckIngressAdmission(Watched, Head(wire).q, Head(wire).size)

=============================================================================
