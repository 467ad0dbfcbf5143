--------------------------- MODULE MCWorkflowEngine ---------------------------
(***************************************************************************)
(* The engine on small workflows, whole or replayed in part: every shape   *)
(* of an acyclic graph over three nodes whose edges point forward, every   *)
(* shape over four that holds a diamond (two ways from the first node to a *)
(* join), with at most MaxRouters branching nodes, MaxGates approval gates *)
(* and, over three nodes, MaxRetriers nodes with a retry budget; and one   *)
(* graph with a cycle, which is refused.                                   *)
(***************************************************************************)
EXTENDS RunOverlay

CONSTANTS MaxRouters, MaxGates, MaxRetriers, RetryBudgets

(* The canvas writes no budget; one written by hand may be negative. *)
HandWrittenBudgets == {-1, 1}

MCPosition == [n \in Node |-> n]

AtMost(k, S) == {T \in SUBSET S : Cardinality(T) <= k}

Pairs(nodes) == {p \in nodes \X nodes : p[1] < p[2]}

(* Every labelling of the edges out of branching nodes. *)
Labelled(shape, routers) ==
    LET routed == {p \in shape : p[1] \in routers}
        plain == {[source |-> p[1], target |-> p[2], branch |-> NoBranch] : p \in shape \ routed}
    IN  {plain \cup {[source |-> p[1], target |-> p[2], branch |-> f[p]] : p \in routed} :
            f \in [routed -> Branch]}

NoBudget == [n \in Node |-> 0]
Budgets == {[n \in Node |-> IF n \in T THEN b ELSE 0] :
                T \in AtMost(MaxRetriers, Node), b \in RetryBudgets}

Forward(nodes, shapes, budgets) ==
    UNION {UNION {{[nodes |-> nodes, edges |-> E, branching |-> routers, gates |-> gates,
                    retries |-> r] :
                        E \in Labelled(shape, routers),
                        gates \in AtMost(MaxGates, nodes \ routers), r \in budgets} :
                  routers \in AtMost(MaxRouters, nodes)} :
           shape \in shapes}

Diamond == {<<1, 2>>, <<1, 3>>, <<2, 4>>, <<3, 4>>}

Cyclic ==
    [nodes |-> Node,
     edges |-> {[source |-> m, target |-> n, branch |-> NoBranch] : m, n \in Node},
     branching |-> {}, gates |-> {}, retries |-> NoBudget]

All ==
    Forward(1..3, SUBSET Pairs(1..3), Budgets)
        \cup Forward(1..4, {shape \in SUBSET Pairs(1..4) : Diamond \subseteq shape}, {NoBudget})

(* Only those whose budgets are of their own nodes. *)
MCWorkflows ==
    {g \in All : \A n \in Node \ g.nodes : g.retries[n] = 0} \cup {Cyclic}
=============================================================================
