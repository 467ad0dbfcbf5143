------------------------------ MODULE MCCaseFile ------------------------------
(***************************************************************************)
(* A lender with one application on file, one more to receive, and three   *)
(* requests at once.                                                       *)
(***************************************************************************)
EXTENDS CaseFile, TLC

CONSTANTS r1, r2, r3

CaseSymmetry == Permutations(Req) \cup Permutations(Resolution)
=============================================================================
