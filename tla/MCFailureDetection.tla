------------------------- MODULE MCFailureDetection -------------------------
(* TLC: two paths that end at one host, so that both renew the key of the  *)
(* port to it.                                                             *)
EXTENDS FailureDetection

CONSTANTS left, right, leftKey, rightKey, leftPort, hostPort

MCRenews == [p \in Path |-> IF p = left THEN {leftKey, leftPort, hostPort}
                                      ELSE {rightKey, hostPort}]
=============================================================================
