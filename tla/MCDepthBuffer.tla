---------------------------- MODULE MCDepthBuffer ---------------------------
(***************************************************************************)
(* DepthBuffer for TLC, with one or two fetch goroutines.                   *)
(***************************************************************************)
EXTENDS DepthBuffer

CONSTANTS f1, f2
=============================================================================
