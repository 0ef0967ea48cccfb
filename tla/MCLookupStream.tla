--------------------------- MODULE MCLookupStream ---------------------------
(***************************************************************************)
(* Two servers, so that a stream can hold the channel of one while its port *)
(* is linked to the other, and two policies, so that both can change.       *)
(***************************************************************************)
EXTENDS LookupStream

CONSTANTS a, b, deny, mtls
=============================================================================
