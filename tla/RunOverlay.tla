----------------------------- MODULE RunOverlay -----------------------------
(***************************************************************************)
(* What the Studio draws of a run once it has returned (Canvas.tsx and     *)
(* TestPanel.tsx): the status on each node, the tint of each connection,   *)
(* and the tiles above the trace.  It has the trace and the definition,    *)
(* and works out from these which way the run went; the engine's own       *)
(* record of it, its live edges, is not in the answer.                     *)
(***************************************************************************)
EXTENDS WorkflowEngine

(* The nodes the trace has an entry for: those with a row in the panel.    *)
Rows == {n \in Node : trace[n] # "none"}

(* What a node on the canvas says it did, if anything (toFlowNodes).       *)
Shown(n) == IF n \in Rows THEN trace[n] ELSE "not run"

(* otherLiveParent: another edge comes in from a node that ran.            *)
OtherLiveParent(e) ==
    \E o \in incoming(graph, e.target) \ {e} : Shown(o.source) = "ok"

(* Mutant: a branch is as certain as any edge. *)
Certain_Always(e) == TRUE
Certain(e) == e.branch = NoBranch \/ ~OtherLiveParent(e)

(* "The run went this way" and "the run stopped here" (toFlowEdges).       *)
Tint(e) ==
    IF Shown(e.source) = "ok" /\ Certain(e)
    THEN CASE Shown(e.target) = "ok"     -> "travelled"
           [] Shown(e.target) = "failed" -> "stopped"
           [] OTHER                      -> "none"
    ELSE "none"

(* The tiles: the outcome, and how many nodes ran and were skipped.        *)
OutcomeTile ==
    CASE status = "completed"         -> "Completed"
      [] status = "awaiting_approval" -> "Awaiting approval"
      [] status = "invalid"           -> "Invalid"
      [] OTHER                        -> "Failed"
NodesRan     == {n \in Rows : trace[n] = "ok"}
NodesSkipped == {n \in Rows : trace[n] = "skipped"}

-----------------------------------------------------------------------------
(* The canvas never says a run took a branch it did not take ("the one     *)
(* kind of mistake this product cannot afford"): an edge that is tinted    *)
(* was chosen, and the engine followed it unless its source lies past a    *)
(* failure.  The tiles agree with it: a completed run has each of its      *)
(* nodes run or skipped, one that waits shows the gate it waits at, and a  *)
(* failed one shows a failure.                                             *)
DrawnAsItRan ==
    phase = "returned" =>
        /\ \A e \in graph.edges : Tint(e) # "none" =>
              /\ ~NotChosen(e)
              /\ e \in live \/ PastFailure(e.source)
        /\ OutcomeTile = "Completed" => NodesRan \cup NodesSkipped = scope
        /\ OutcomeTile = "Awaiting approval" => \E n \in graph.gates : Shown(n) = "halted"
        /\ OutcomeTile = "Failed" => \E n \in Node : Shown(n) = "failed"
=============================================================================
