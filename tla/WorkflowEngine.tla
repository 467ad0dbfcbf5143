---------------------------- MODULE WorkflowEngine ----------------------------
(***************************************************************************)
(* run_workflow (gravai_workflow/engine.py): the scheduling loop, the      *)
(* concurrent batch under a capacity limiter, the retry loop of a node,    *)
(* and the loop over the batch's results that prunes edges.                *)
(*                                                                         *)
(* One iteration of `while pending and not halted` is the action Schedule  *)
(* (which ends at the await of _run_batch), any number of Start and        *)
(* Attempt steps of the batch's tasks, then one Collect step per node of   *)
(* the batch in sorted order.                                              *)
(***************************************************************************)
EXTENDS WorkflowGraph

CONSTANTS Workflows,       \* the graphs run_workflow may be handed
          Replay,          \* may only_nodes be given?
          Position,        \* the order sorted() puts the node ids in
          MAX_CONCURRENCY  \* how many nodes may run at once

ASSUME WorkflowsAssumption == Workflows \subseteq Graph
ASSUME ReplayAssumption == Replay \in BOOLEAN
ASSUME PositionAssumption ==
    /\ Position \in [Node -> Int]
    /\ \A m, n \in Node : Position[m] = Position[n] => m = n
ASSUME ConcurrencyAssumption == MAX_CONCURRENCY \in Nat \ {0}

VARIABLES graph,     \* the workflow of this run
          scope,     \* the nodes it was restricted to (only_nodes)
          phase,     \* "new", then "loop", then "returned"
          pending, settled, skipped,
          live,      \* live_edges: the edges the run may follow
          halted, failed,
          batch,     \* nodes of the current batch not yet collected
          running,   \* batch nodes holding the limiter
          attempts,  \* executor calls made per node
          results,   \* what _run_batch has for each node so far
          trace,     \* per node, the status of its NodeTrace entry
          status     \* RunResult.status

vars == <<graph, scope, phase, pending, settled, skipped, live, halted, failed,
          batch, running, attempts, results, trace, status>>

NoResult == [kind |-> "none", branch |-> NoBranch]
Outcome  == [kind : {"ok", "failed", "halt"}, branch : Branch \cup {NoBranch}]

(* NodeOutcome(): what _run_node returns if its loop body never runs. *)
EmptyOutcome == [kind |-> "ok", branch |-> NoBranch]

(* What an executor of each kind of node can answer; any can raise.        *)
(* A router none of whose conditions holds answers with no branch.         *)
Answers(n) ==
    {[kind |-> "failed", branch |-> NoBranch]} \cup
    (CASE n \in graph.gates     -> {[kind |-> "halt", branch |-> NoBranch]}
       [] n \in graph.branching -> [kind : {"ok"}, branch : Branch \cup {NoBranch}]
       [] OTHER                 -> {EmptyOutcome})

-----------------------------------------------------------------------------

Init ==
    /\ graph \in Workflows
    /\ \/ scope = graph.nodes
       \/ Replay /\ scope \in SUBSET graph.nodes
    /\ phase = "new"
    /\ pending = scope
    /\ settled = {} /\ skipped = {}
    /\ live = graph.edges
    /\ halted = FALSE /\ failed = FALSE
    /\ batch = {} /\ running = {}
    /\ attempts = [n \in Node |-> 0]
    /\ results = [n \in Node |-> NoResult]
    /\ trace = [n \in Node |-> "none"]
    /\ status = "none"

(* graph.validate(): a blocking problem refuses the run before anything    *)
(* is called.                                                              *)
Validate ==
    /\ phase = "new"
    /\ IF NoBlockingProblem(graph)
       THEN phase' = "loop" /\ status' = status
       ELSE phase' = "returned" /\ status' = "invalid"
    /\ UNCHANGED <<graph, scope, pending, settled, skipped, live, halted, failed,
                   batch, running, attempts, results, trace>>

(* Mutant: a skipped source is waited for. *)
DependenciesSettled_NotSkipped(n) ==
    \A e \in incoming(graph, n) : e \in live => e.source \in settled

(* _dependencies_settled *)
DependenciesSettled(n) ==
    \A e \in incoming(graph, n) : e \in live => e.source \in settled \cup skipped

(* _on_live_path *)
OnLivePath(n) ==
    \/ incoming(graph, n) = {}
    \/ \E e \in incoming(graph, n) : e \in live /\ e.source \in settled

Ready == {n \in pending : DependenciesSettled(n)}

OffPath == {n \in Ready : ~OnLivePath(n)}

Looping == phase = "loop" /\ batch = {} /\ ~halted

(* One turn of the loop: take what is ready, skip what no live edge        *)
(* reaches, hand the rest to _run_batch.                                   *)
Schedule ==
    /\ Looping /\ Ready # {}
    /\ pending' = pending \ Ready
    /\ skipped' = skipped \cup OffPath
    /\ trace' = [n \in Node |-> IF n \in OffPath THEN "skipped" ELSE trace[n]]
    /\ batch' = Ready \ OffPath
    /\ UNCHANGED <<graph, scope, phase, settled, live, halted, failed,
                   running, attempts, results, status>>

RunStatus == IF halted THEN "awaiting_approval" ELSE IF failed THEN "failed" ELSE "completed"

(* Mutant: the `break` after nothing is ready is missing. *)
NothingReady_NoBreak ==
    /\ Looping /\ pending # {} /\ Ready = {}
    /\ trace' = [n \in Node |-> IF n \in pending THEN "skipped" ELSE trace[n]]
    /\ UNCHANGED <<graph, scope, phase, pending, settled, skipped, live, halted, failed,
                   batch, running, attempts, results, status>>

(* Nothing is ready: whatever is pending is traced as skipped and the loop *)
(* breaks.                                                                 *)
NothingReady ==
    /\ Looping /\ pending # {} /\ Ready = {}
    /\ trace' = [n \in Node |-> IF n \in pending THEN "skipped" ELSE trace[n]]
    /\ phase' = "returned"
    /\ status' = RunStatus
    /\ UNCHANGED <<graph, scope, pending, settled, skipped, live, halted, failed,
                   batch, running, attempts, results>>

(* The loop condition is false: the result is assembled. *)
Return ==
    /\ phase = "loop" /\ batch = {}
    /\ pending = {} \/ halted
    /\ phase' = "returned"
    /\ status' = RunStatus
    /\ UNCHANGED <<graph, scope, pending, settled, skipped, live, halted, failed,
                   batch, running, attempts, results, trace>>

-----------------------------------------------------------------------------
(* _run_batch and _run_node: the tasks of one batch, interleaved. *)

(* A task gets the limiter and makes its first attempt, unless the retry   *)
(* budget is negative: then the while loop is never entered and the empty  *)
(* outcome, a success, is the result.                                      *)
Start(n) ==
    /\ n \in batch \ running /\ results[n] = NoResult
    /\ Cardinality(running) < MAX_CONCURRENCY
    /\ IF graph.retries[n] < 0
       THEN /\ results' = [results EXCEPT ![n] = EmptyOutcome]
            /\ UNCHANGED <<running, attempts>>
       ELSE /\ running' = running \cup {n}
            /\ attempts' = [attempts EXCEPT ![n] = 1]
            /\ results' = results
    /\ UNCHANGED <<graph, scope, phase, pending, settled, skipped, live, halted, failed,
                   batch, trace, status>>

(* The executor answers (or raises, which is an answer that failed): a     *)
(* failure within the budget is tried again, anything else is the result.  *)
Attempt(n, o) ==
    /\ n \in running
    /\ o \in Answers(n)
    /\ IF o.kind = "failed" /\ attempts[n] <= graph.retries[n]
       THEN /\ attempts' = [attempts EXCEPT ![n] = @ + 1]
            /\ UNCHANGED <<running, results>>
       ELSE /\ results' = [results EXCEPT ![n] = o]
            /\ running' = running \ {n}
            /\ attempts' = attempts
    /\ UNCHANGED <<graph, scope, phase, pending, settled, skipped, live, halted, failed,
                   batch, trace, status>>

-----------------------------------------------------------------------------
(* The loop over the results, in the order sorted() gave the batch. *)

NextToCollect(n) ==
    /\ n \in batch
    /\ \A m \in batch : results[m] # NoResult /\ Position[n] <= Position[m]

(* Mutant: a failure cuts only the edges of the node that failed. *)
CollectFailed_OneHop(n) ==
    /\ NextToCollect(n) /\ results[n].kind = "failed"
    /\ settled' = settled \cup {n}
    /\ trace' = [trace EXCEPT ![n] = "failed"]
    /\ failed' = TRUE
    /\ live' = live \ outgoing(graph, n)
    /\ batch' = batch \ {n}
    /\ UNCHANGED <<graph, scope, phase, pending, skipped, halted, running, attempts,
                   results, status>>

CollectFailed(n) ==
    /\ NextToCollect(n) /\ results[n].kind = "failed"
    /\ settled' = settled \cup {n}
    /\ trace' = [trace EXCEPT ![n] = "failed"]
    /\ failed' = TRUE
    /\ live' = live \ {e \in graph.edges : e.source \in Downstream(graph, n)}
    /\ batch' = batch \ {n}
    /\ UNCHANGED <<graph, scope, phase, pending, skipped, halted, running, attempts,
                   results, status>>

(* Mutant: the halt is traced but not acted on. *)
CollectHalt_Ignored(n) ==
    /\ NextToCollect(n) /\ results[n].kind = "halt"
    /\ settled' = settled \cup {n}
    /\ trace' = [trace EXCEPT ![n] = "halted"]
    /\ batch' = batch \ {n}
    /\ UNCHANGED <<graph, scope, phase, pending, skipped, live, halted, failed, running,
                   attempts, results, status>>
(* The `break`: whatever of the batch comes later in the order is left     *)
(* uncollected.                                                            *)
CollectHalt(n) ==
    /\ NextToCollect(n) /\ results[n].kind = "halt"
    /\ settled' = settled \cup {n}
    /\ trace' = [trace EXCEPT ![n] = "halted"]
    /\ halted' = TRUE
    /\ batch' = {}
    /\ UNCHANGED <<graph, scope, phase, pending, skipped, live, failed, running, attempts,
                   results, status>>

(* _prune_unchosen *)
Unchosen(n, chosen) == {e \in outgoing(graph, n) : e.branch # chosen}

CollectOk(n) ==
    /\ NextToCollect(n) /\ results[n].kind = "ok"
    /\ settled' = settled \cup {n}
    /\ trace' = [trace EXCEPT ![n] = "ok"]
    /\ live' = IF n \in graph.branching THEN live \ Unchosen(n, results[n].branch) ELSE live
    /\ batch' = batch \ {n}
    /\ UNCHANGED <<graph, scope, phase, pending, skipped, halted, failed, running, attempts,
                   results, status>>

-----------------------------------------------------------------------------

Terminated == phase = "returned" /\ UNCHANGED vars

Run(n) == Start(n) \/ (\E o \in Outcome : Attempt(n, o))

Collect(n) == CollectFailed(n) \/ CollectHalt(n) \/ CollectOk(n)

Next ==
    \/ Validate
    \/ Schedule
    \/ NothingReady
    \/ Return
    \/ \E n \in Node : Run(n) \/ Collect(n)
    \/ Terminated

Spec == Init /\ [][Next]_vars

(* The event loop keeps running the scheduling coroutine, and an executor  *)
(* that was started answers: every call it makes has a timeout.            *)
Fairness ==
    /\ WF_vars(Validate \/ Schedule \/ NothingReady \/ Return)
    /\ \A n \in Node : WF_vars(Run(n)) /\ WF_vars(Collect(n))

FairSpec == Spec /\ Fairness

-----------------------------------------------------------------------------
(* Properties *)

Succeeded(n) == n \in settled /\ results[n].kind = "ok"
Failed(n)    == n \in settled /\ results[n].kind = "failed"

(* The nodes the engine has committed to running: an executor call was     *)
(* made for them, or they are in the batch for one.                        *)
Taken == batch \cup settled \cup {n \in Node : attempts[n] > 0}

(* Another branch was chosen at the source of the edge. *)
NotChosen(e) ==
    /\ Succeeded(e.source) /\ e.source \in graph.branching
    /\ e.branch # results[e.source].branch

PastFailure(n) == \E f \in Node : Failed(f) /\ n \in Downstream(graph, f)

Dead(e) == PastFailure(e.source) \/ NotChosen(e)

(* Types. *)
TypeOK ==
    /\ graph \in Graph
    /\ scope \in SUBSET Node
    /\ phase \in {"new", "loop", "returned"}
    /\ pending \in SUBSET Node /\ settled \in SUBSET Node /\ skipped \in SUBSET Node
    /\ live \in SUBSET graph.edges
    /\ halted \in BOOLEAN /\ failed \in BOOLEAN
    /\ batch \in SUBSET Node /\ running \in SUBSET Node
    /\ attempts \in [Node -> Nat]
    /\ results \in [Node -> Outcome \cup {NoResult}]
    /\ trace \in [Node -> {"none", "ok", "failed", "halted", "skipped"}]
    /\ status \in {"none", "invalid", "completed", "failed", "awaiting_approval"}

(* The engine's edge-pruning bookkeeping agrees with its meaning: an edge  *)
(* is live exactly when its source did not choose another branch and       *)
(* nothing it lies past has failed.                                        *)
LiveEdgesAreThoseNotDead == \A e \in graph.edges : e \in live <=> ~Dead(e)

(* A join waits for both: no node is taken while the source of one of its  *)
(* edges is still to be decided, unless that source lies past a failure.   *)
JoinWaits ==
    \A n \in Taken : \A e \in incoming(graph, n) :
        e.source \in settled \cup skipped \/ PastFailure(e.source)

(* Nothing runs off the path the run took: whatever runs, other than an    *)
(* entry node, has an edge from a node that succeeded and chose it.        *)
RunsOnChosenPath ==
    \A n \in Taken :
        \/ incoming(graph, n) = {}
        \/ \E e \in incoming(graph, n) : Succeeded(e.source) /\ ~NotChosen(e)

(* Nothing is skipped that should have run: every edge into a skipped node *)
(* comes from a skipped node, from a branch not taken or from past a       *)
(* failure.                                                                *)
SkippedForCause ==
    \A n \in skipped :
        /\ incoming(graph, n) # {}
        /\ \A e \in incoming(graph, n) : e.source \in skipped \/ Dead(e)

(* What the scheduling of the loop rests on, taken together: the types, the *)
(* bookkeeping of live edges, and why a node runs, waits or is skipped.    *)
EngineInvariant ==
    TypeOK /\ LiveEdgesAreThoseNotDead /\ JoinWaits /\ RunsOnChosenPath /\ SkippedForCause

(* A human approval gate is a genuine stop: nothing past a gate that       *)
(* halted the run has run, except what an earlier failure had cut loose    *)
(* from it.                                                                *)
NothingPastTheGate ==
    \A g \in settled : results[g].kind = "halt" =>
        \A n \in Downstream(graph, g) \ {g} :
            n \in Taken => \E e \in incoming(graph, n) : PastFailure(e.source)

(* A run of the whole graph that was not halted accounts for every node,   *)
(* and reports completion exactly when nothing that ran failed.  A node    *)
(* that was executed and is not traced was collected after the gate that   *)
(* halted the run.                                                         *)
ResultIsComplete ==
    /\ (phase = "returned" /\ status \in {"completed", "failed"}) =>
          /\ scope = graph.nodes => scope = settled \cup skipped
          /\ \A n \in scope : trace[n] # "none"
          /\ status = "completed" <=> \A n \in Node : results[n].kind # "failed"
    /\ phase = "returned" =>
          \A n \in Node : attempts[n] > 0 /\ trace[n] = "none" =>
              \E g \in settled : results[g].kind = "halt" /\ Position[g] < Position[n]

(* The result can be relied on: nothing ran past a gate that stopped the    *)
(* run, and the status and the trace say all that did run.                 *)
ResultIsTrue == NothingPastTheGate /\ ResultIsComplete

(* Every run returns. *)
Termination == <>(phase = "returned")

(* WorkflowRun is what the engine implements: nodes decided one by one in  *)
(* dependency order.                                                       *)
Verdicts ==
    [n \in Node |-> IF n \in settled THEN results[n]
                    ELSE [kind |-> IF n \in skipped THEN "skipped" ELSE "waiting",
                          branch |-> NoBranch]]

Abstract == INSTANCE WorkflowRun WITH verdict <- Verdicts, over <- (phase = "returned")

ImplementsWorkflowRun == Abstract!Spec
=============================================================================
