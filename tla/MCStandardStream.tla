-------------------------- MODULE MCStandardStream --------------------------
(***************************************************************************)
(* StandardStream for TLC, with two connection names: the connection in    *)
(* use and the one being set up.  The number of reconnections, failures    *)
(* and resubscriptions is not bounded.                                     *)
(***************************************************************************)
EXTENDS StandardStream

CONSTANTS c1, c2
=============================================================================
