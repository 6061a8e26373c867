---------------------------- MODULE RdmaDelivery ----------------------------
(***************************************************************************)
(* What a queue pair promises, whatever is lost on the way: the receiver   *)
(* holds a prefix of the flow, the sender takes as acknowledged only what  *)
(* the receiver holds, and completion is reported once, when the whole     *)
(* flow is acknowledged.  A receiver that goes back to the start of a      *)
(* chunk may give up a part of its prefix, never an acknowledged one.      *)
(***************************************************************************)
EXTENDS Naturals

CONSTANT m_size          \* bytes of the flow

VARIABLES received, acknowledged, completions

delivery_vars == <<received, acknowledged, completions>>

Init == received = 0 /\ acknowledged = 0 /\ completions = 0

Deliver ==
  /\ received' \in (received + 1)..m_size
  /\ UNCHANGED <<acknowledged, completions>>

GiveUpPartOfChunk ==
  /\ received' \in acknowledged..received
  /\ UNCHANGED <<acknowledged, completions>>

Acknowledge ==
  /\ acknowledged' \in (acknowledged + 1)..received
  /\ completions' = IF acknowledged' = m_size THEN completions + 1 ELSE completions
  /\ UNCHANGED received

Next == Deliver \/ GiveUpPartOfChunk \/ Acknowledge

Spec == Init /\ [][Next]_delivery_vars

=============================================================================
