--------------------------- MODULE MCRateControl ----------------------------
(***************************************************************************)
(* Small instances of RateControl: a flow of a few packets, all modes.     *)
(***************************************************************************)
EXTENDS RateControl, TLC

=============================================================================
