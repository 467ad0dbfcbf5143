---------------------------- MODULE WorkflowGraph ----------------------------
(***************************************************************************)
(* The workflow definition (gravai_workflow/graph.py): nodes, the edges    *)
(* between them, and what makes a graph runnable.  A graph is a record     *)
(*                                                                         *)
(*   nodes      the node ids placed on the canvas                          *)
(*   edges      a set of [source, target, branch]; an edge's default id is *)
(*              made of exactly these three, so the record is the identity *)
(*   branching  the nodes whose type routes (router, condition)            *)
(*   gates      the human_approval nodes, whose executor halts the run     *)
(*   retries    the `retries` setting of each node's config                *)
(*                                                                         *)
(* Templates, expressions and the other node settings are data the engine  *)
(* never looks at and are left out.                                        *)
(***************************************************************************)
EXTENDS Integers, FiniteSets

CONSTANTS Node,      \* node ids
          Branch,    \* branch labels a branching node may declare
          NoBranch   \* the empty branch string

ASSUME BranchAssumption == NoBranch \notin Branch

Edge == [source : Node, target : Node, branch : Branch \cup {NoBranch}]

Graph == [nodes     : SUBSET Node,
          edges     : SUBSET Edge,
          branching : SUBSET Node,
          gates     : SUBSET Node,
          retries   : [Node -> Int]]

incoming(g, n) == {e \in g.edges : e.target = n}

outgoing(g, n) == {e \in g.edges : e.source = n}

(* A set of nodes that no edge leaves. *)
ClosedUnder(g, S) == \A e \in g.edges : e.source \in S => e.target \in S

(* n and every node a path of edges leads to from n: the `seen` set the    *)
(* breadth-first walk of _prune_all ends with.                             *)
Downstream(g, n) ==
    {m \in Node : \A S \in SUBSET Node : n \in S /\ ClosedUnder(g, S) => m \in S}

(* What Kahn's peeling leaves behind is a set in which every node still    *)
(* has an edge from inside the set; a graph has a cycle iff there is one.  *)
HasCycle(g) ==
    \E S \in SUBSET g.nodes :
        S # {} /\ \A n \in S : \E e \in incoming(g, n) : e.source \in S

(* No blocking Problem: the checks of validate() that concern the shape.   *)
NoBlockingProblem(g) ==
    /\ g.nodes # {}
    /\ \A e \in g.edges : e.source \in g.nodes /\ e.target \in g.nodes
    /\ \A n \in g.branching \cap g.nodes : \A e \in outgoing(g, n) : e.branch # NoBranch
    /\ ~HasCycle(g)
=============================================================================
