---------------------------- MODULE MCReviewQueue ----------------------------
(***************************************************************************)
(* One application with a call to make, due in two hours, and a pendency   *)
(* past its time, in a queue the person here may not sign, though he may    *)
(* sign for the call; his token is set, taken away and set again.          *)
(***************************************************************************)
EXTENDS ReviewQueue, TLC

CONSTANTS i1, i2, t1

MCType == (i1 :> "call_review") @@ (i2 :> "pendency")
MCDueAt == (i1 :> 8) @@ (i2 :> -3)
MCEntity == (i1 :> "a1") @@ (i2 :> "a1")
MCQueue == (i1 :> "underwriting.queue") @@ (i2 :> "credit.head")
MCTenant == [t \in Token |-> Item]
MCClaims == t1 :> {"underwriter", "auditor"}
=============================================================================
