--------------------------- MODULE MCPfcHeadroom ----------------------------
(***************************************************************************)
(* Small instances of PfcHeadroom: the other links are short and, as those *)
(* of fast ports, have a larger share of the pool.                         *)
(***************************************************************************)
EXTENDS PfcHeadroom

CONSTANTS Delay, Shift

MCDelay == [i \in Port |-> IF i = Watched THEN Delay ELSE 1]
MCHeadroom == [i \in Port |-> HeadroomOf(MCDelay[i])]
MCPfcDiv == [i \in Port |-> IF i = Watched THEN 2 ^ Shift ELSE 1]

=============================================================================
