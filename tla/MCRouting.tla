------------------------------ MODULE MCRouting ------------------------------
(***************************************************************************)
(* Small networks of two hosts and three switches, and a flow.             *)
(***************************************************************************)
EXTENDS Routing

CONSTANT MaxLinks

\* Two ways out of a host, three between the switches.
Redundant == {{1, 4}, {1, 5}, {4, 5}, {4, 6}, {5, 6}, {2, 6}}

\* Every network with few enough links, none of them between hosts.
SmallNetworks ==
  {ls \in SUBSET (AllLinks \ {Host}) : Cardinality(ls) <= MaxLinks} \cup {Redundant}

LinkDelay == [l \in AllLinks |-> IF 4 \in l THEN 1 ELSE 2]
LinkBandwidth == [l \in AllLinks |-> IF 5 \in l THEN 2 ELSE 4]

FromOne == [f \in Flow |-> 1]
FromTwo == [f \in Flow |-> 2]
=============================================================================
