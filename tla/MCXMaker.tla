------------------------------ MODULE MCXMaker ------------------------------
(***************************************************************************)
(* Small instances of XMaker for TLC.                                      *)
(***************************************************************************)
EXTENDS XMaker

S(base, quote, layers, maxExposure, maxRounds, maxFailures, maxTorn) ==
    [base |-> base, quote |-> quote, layers |-> layers, maxExposure |-> maxExposure,
     maxRounds |-> maxRounds, maxFailures |-> maxFailures, maxTorn |-> maxTorn]

(* A source account that can hedge every quote, with requests that fail and with
   a torn read, and one that cannot hedge the second layer of asks. *)
Each == {S(8, 8, 1, 0, 2, 1, 0), S(8, 8, 1, 0, 1, 0, 1), S(7, 4, 2, 0, 1, 0, 0)}

Limited == {S(8, 8, 1, 1, 2, 0, 0)}
=============================================================================
