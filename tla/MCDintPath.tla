----------------------------- MODULE MCDintPath -----------------------------
(***************************************************************************)
(* Small instances of DintPath: two flows through two switches.            *)
(***************************************************************************)
EXTENDS DintPath, TLC

CONSTANTS a, b, s, t      \* two flows, two slots

MCPath == [f \in Flow |-> <<1, 2>>]

(* Both flows take the same path, and a slot is like any other. *)
MCSymmetry == Permutations(Flow) \cup Permutations(Slot)

=============================================================================
