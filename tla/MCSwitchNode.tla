---------------------------- MODULE MCSwitchNode ----------------------------
(***************************************************************************)
(* Small instances of SwitchNode with two ports.                           *)
(***************************************************************************)
EXTENDS SwitchNode, TLC

CONSTANTS east, west, second, ctrl      \* flows

MCHeadroom == [i \in Port |-> 1]
MCPfcDiv == [i \in Port |-> 2]

MCOrigin == [f \in Flow |-> IF f = west THEN 2 ELSE 1]
MCClass == [f \in Flow |-> IF f = second THEN 2 ELSE IF f = ctrl THEN 0 ELSE 1]
MCAllUp == [f \in Flow |-> IF f = west THEN 1 ELSE 2]
(* Without the link of port d the flow is led back out of the other port,   *)
(* towards a neighbour that has another way to its destination. *)
MCRoute == [down \in SUBSET Port |->
  [f \in Flow |-> IF down = {} THEN MCAllUp[f]
                  ELSE CHOOSE d \in (Port \ down) \cup {0} : d # 0 \/ down = Port]]
(* Or there is no other way. *)
MCNoOtherRoute == [down \in SUBSET Port |->
  [f \in Flow |-> IF MCAllUp[f] \in down THEN 0 ELSE MCAllUp[f]]]

=============================================================================
