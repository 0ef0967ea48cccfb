---------------------------- MODULE MCReadiness ----------------------------
(***************************************************************************)
(* The probe's threshold is 12 in deploy.yml; what it counts matters, not   *)
(* how far.                                                                 *)
(***************************************************************************)
EXTENDS Readiness

CONSTANTS nodes, pods, servers, authorizations
=============================================================================
