---------------------------- MODULE EgressQueue ----------------------------
(***************************************************************************)
(* Class BEgressQueue: the queues of one egress port and their scheduler.  *)
(* Queue 0 goes first whatever is paused; the others take turns, starting  *)
(* after the one served last, and a paused queue is passed over.           *)
(***************************************************************************)
EXTENDS Naturals, Sequences

CONSTANT NQueue     \* number of data queues; qCnt = NQueue + 1

DataQueue == 1..NQueue
QIndex == 0..NQueue

EmptyQueues == [q \in QIndex |-> <<>>]

(* DoEnqueue.  Its byte limit is a gigabyte, beyond what the MMU admits. *)
DoEnqueue(queues, q, p) == [queues EXCEPT ![q] = Append(@, p)]

(* Mutant: the data queues have a fixed priority. *)
Mut_Turn(q, rrlast) == q

(* How long queue q waits for its turn: the loop of DoDequeueRR looks at   *)
(* (1 + rrlast) % qCnt first, then at (2 + rrlast) % qCnt, and so on.      *)
Turn(q, rrlast) == (q + NQueue - rrlast) % (NQueue + 1)

CanServe(queues, paused, q) == queues[q] # <<>> /\ (q = 0 \/ ~paused[q])

(* The queue DoDequeueRR takes a packet from, if it finds one. *)
Servable(queues, paused) == {q \in QIndex : CanServe(queues, paused, q)}
Served(queues, rrlast, paused) ==
  IF queues[0] # <<>> THEN 0
  ELSE CHOOSE q \in Servable(queues, paused) :
         \A r \in Servable(queues, paused) : Turn(q, rrlast) <= Turn(r, rrlast)

(* The turn of the data queues does not pass when queue 0 is served. *)
NextRRLast(rrlast, q) == IF q = 0 THEN rrlast ELSE q

=============================================================================
