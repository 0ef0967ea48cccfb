---------------------------- MODULE MCPortWatch ----------------------------
(***************************************************************************)
(* One pod port, and requests at the edges of its number: a port that is    *)
(* zero, one that is another's, and 32-bit ones that are or that would      *)
(* narrow to it.                                                            *)
(***************************************************************************)
EXTENDS PortWatch

CONSTANTS deny, mtls, open, pod, other

EdgePorts == {0, 80, MaxPort, MaxPort + 1, MaxPort + 1 + 80}
=============================================================================
