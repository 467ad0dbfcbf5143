----------------------------- MODULE WorkflowRun -----------------------------
(***************************************************************************)
(* What one workflow run promises, without batches, a limiter or a set of  *)
(* live edges: every node gets at most one verdict, in dependency order;   *)
(* an edge is dead because of what its source, or something upstream of    *)
(* it, turned out to be; a node runs when an edge that is not dead brings  *)
(* it a success, and is skipped when none can.  WorkflowEngine implements  *)
(* this specification.                                                     *)
(***************************************************************************)
EXTENDS WorkflowGraph

CONSTANT Workflows   \* the graphs run_workflow may be handed

VARIABLES graph,     \* the workflow of this run
          scope,     \* the nodes the run is restricted to
          verdict,   \* per node: Waiting, Skipped or the Outcome it ended with
          over       \* the run has returned

vars == <<graph, scope, verdict, over>>

Waiting == [kind |-> "waiting", branch |-> NoBranch]
Skipped == [kind |-> "skipped", branch |-> NoBranch]

(* NodeOutcome, as far as the engine looks into it. *)
Outcome == [kind : {"ok", "failed", "halt"}, branch : Branch \cup {NoBranch}]

Succeeded(n) == verdict[n].kind = "ok"
Failed(n)    == verdict[n].kind = "failed"

(* An edge brings nothing: it lies past a failure, or its source chose     *)
(* another branch.                                                         *)
Dead(e) ==
    \/ \E f \in graph.nodes : Failed(f) /\ e.source \in Downstream(graph, f)
    \/ /\ Succeeded(e.source)
       /\ e.source \in graph.branching
       /\ e.branch # verdict[e.source].branch

Due(n) ==
    /\ n \in scope
    /\ verdict[n] = Waiting
    /\ \A e \in incoming(graph, n) : Dead(e) \/ verdict[e.source] # Waiting

Arrived(n) ==
    \/ incoming(graph, n) = {}
    \/ \E e \in incoming(graph, n) : ~Dead(e) /\ Succeeded(e.source)

Halted == \E n \in graph.nodes : verdict[n].kind = "halt"

Init ==
    /\ graph \in Workflows
    /\ scope \in SUBSET graph.nodes
    /\ verdict = [n \in Node |-> Waiting]
    /\ over = FALSE

Settle(n, o) ==
    /\ ~over /\ ~Halted
    /\ Due(n) /\ Arrived(n)
    /\ verdict' = [verdict EXCEPT ![n] = o]
    /\ UNCHANGED <<graph, scope, over>>

Skip(S) ==
    /\ ~over /\ ~Halted
    /\ S # {}
    /\ \A n \in S : Due(n) /\ ~Arrived(n)
    /\ verdict' = [n \in Node |-> IF n \in S THEN Skipped ELSE verdict[n]]
    /\ UNCHANGED <<graph, scope, over>>

(* The run returns when nothing more is due, when a gate halted it, or at  *)
(* once when the graph is refused.                                         *)
Return ==
    /\ ~over
    /\ \/ Halted
       \/ ~NoBlockingProblem(graph)
       \/ ~ \E n \in scope : Due(n)
    /\ over' = TRUE
    /\ UNCHANGED <<graph, scope, verdict>>

Next ==
    \/ \E n \in Node, o \in Outcome : Settle(n, o)
    \/ \E S \in SUBSET scope : Skip(S)
    \/ Return

Spec == Init /\ [][Next]_vars
=============================================================================
