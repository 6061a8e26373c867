-------------------------- MODULE MCRdmaTransport ---------------------------
(***************************************************************************)
(* Small instances of RdmaTransport: flows of four to eight packets.      *)
(***************************************************************************)
EXTENDS RdmaTransport, TLC

=============================================================================
