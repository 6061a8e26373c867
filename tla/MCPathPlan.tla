----------------------------- MODULE MCPathPlan -----------------------------
(* TLC: the networks of at most MaxLinks links.  Names of switches do not   *)
(* matter, so the ones with more links come first.                         *)
EXTENDS PathPlan

CONSTANT MaxLinks

MCNetworks ==
  {ls \in SUBSET AllLinks :
     /\ Cardinality(ls) <= MaxLinks
     /\ \A u \in 1 .. N - 1 : Degree(ls, u) >= Degree(ls, u + 1)
     /\ Connected(ls)}
=============================================================================
