--------------------------- MODULE MCDeltaIntPath ---------------------------
(***************************************************************************)
(* Two flows of different length to one host, which share the last switch; *)
(* and a path that visits a switch twice.                                  *)
(***************************************************************************)
EXTENDS DeltaIntPath, TLC

CONSTANTS a, b

TwoPaths == a :> <<1, 2, 3>> @@ b :> <<1, 3>>
LatencyOf == (<<1, 2>> :> {0, 3, 5} @@ <<1, 3>> :> {0} @@ <<2, 3>> :> {0}
              @@ <<3, 0>> :> {0})
Hashes == {a :> 1 @@ b :> 1, a :> 1 @@ b :> 2}
OneOrTwo == a :> 1 @@ b :> 2
FirstUplink == {<<1, 2>>}

\* The last queue has latencies a flow sends.
BusyLastHop == [LatencyOf EXCEPT ![<<3, 0>>] = {0, 5}]

LoopPath == a :> <<1, 2, 1, 3>>
LoopLatency == [queue \in {<<1, 2>>, <<2, 1>>, <<1, 3>>, <<3, 0>>} |-> {0}]
LoopFlight == a :> 1
LoopHash == {a :> 1}

=============================================================================
