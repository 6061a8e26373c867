---------------------------- MODULE MCNicEgress -----------------------------
(***************************************************************************)
(* Small instances of NicEgress.                                           *)
(***************************************************************************)
EXTENDS NicEgress, TLC

CONSTANTS a, b, c      \* flows

MCSize == [f \in Flow |-> IF f = a THEN 3 ELSE 1]
MCSameSize == [f \in Flow |-> 3]
(* The flows of one group, or b in a group that is paused by itself. *)
MCSameGroup == [f \in Flow |-> 3]
MCGroup == [f \in Flow |-> IF f = b THEN 1 ELSE 3]

=============================================================================
