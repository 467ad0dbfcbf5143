----------------------------- MODULE StudioCanvas -----------------------------
(***************************************************************************)
(* What is drawn on the Studio's canvas (console/studio/page.tsx with       *)
(* Canvas, NodeLibrary and ConfigPanel): nodes, edges, the node selected,   *)
(* and the JSON field of the settings panel, whose text is a copy of the    *)
(* node's own.  StudioEditor is the same page seen from its writes.         *)
(*                                                                         *)
(* React Flow reports a Delete as edges, then nodes, and every report is    *)
(* answered from the definition of the last render.  Names, places and      *)
(* fields that are not JSON are left out: an edit of one is an edit of the  *)
(* undo stack only, which StudioEditor has.                                *)
(***************************************************************************)
EXTENDS Naturals, Sequences, FiniteSets, SequencesExt, FiniteSetsExt

CONSTANTS NodeType,     \* the types of the library
          Labels,       \* what a JSON field can list: a router's branches, above all
          defaultLabels, \* what the registry gives a fresh router, or a fresh Input
          opened,       \* the definition that was opened
          MaxChanges,   \* bound on the edits
          MaxDeleted,   \* bound on what one Delete takes
          Nothing

ASSUME CanvasAssumption ==
    /\ NodeType \subseteq {"input", "agent", "condition", "router", "output"}
    /\ \A labels \in Labels : "" \notin labels \* the code drops a label that is ""
    /\ defaultLabels \in Labels

VARIABLES nodes, edges, \* definition
          undoable, redoable,
          selectedId,
          field,        \* JsonField: the field it edits and its text, or Nothing
          changes

canvasVars == <<nodes, edges, undoable, redoable, selectedId, field, changes>>

NodeIds(ns) == {node.id : node \in ns}
NodeOf(ns, id) == CHOOSE node \in ns : node.id = id
Type(id) == id[1]

(* A condition's outcomes are fixed; everything else declares its own.      *)
branchesOf(node) ==
    CASE Type(node.id) = "condition" -> {"true", "false"}
      [] Type(node.id) = "router" -> node.config
      [] OTHER -> {}

isBranching(id) == Type(id) \in {"condition", "router"}

(* The source handles of a diamond and of a card.                          *)
SourceHandles(node) ==
    IF isBranching(node.id) THEN branchesOf(node)
    ELSE IF Type(node.id) = "output" THEN {} ELSE {""}

TargetHandle(id) == Type(id) # "input"

NodeId == {"input", "agent", "condition", "router", "output"} \X (Nat \ {0})
Node == [id : NodeId, config : Labels \cup {{}}]
Edge == [source : NodeId, target : NodeId, branch : {"", "true", "false"} \cup UNION Labels]

(* A definition that holds together, see CanvasIsSound. *)
Coherent(ns, es) ==
    /\ Cardinality(NodeIds(ns)) = Cardinality(ns)
    /\ \A edge \in es :
          /\ {edge.source, edge.target} \subseteq NodeIds(ns)
          /\ edge.source # edge.target /\ TargetHandle(edge.target)
          /\ edge.branch # "" <=> isBranching(edge.source)

(* What is opened was drawn on such a canvas. *)
ASSUME OpenedAssumption ==
    /\ opened.nodes \subseteq Node /\ IsFiniteSet(opened.nodes) /\ opened.edges \subseteq Edge
    /\ Coherent(opened.nodes, opened.edges)

-----------------------------------------------------------------------------
(* The settings panel.                                                     *)

JsonFieldOf(id) ==
    CASE Type(id) = "router" -> "branches" [] Type(id) = "input" -> "schema"
      [] Type(id) = "agent" -> "output_schema" [] OTHER -> ""

(* The text is the node's when the field is mounted, and is then only       *)
(* replaced when the name of the field changes.                            *)
Reseeded(ns, id) ==
    IF id \notin NodeIds(ns) \/ JsonFieldOf(id) = "" THEN Nothing
    ELSE IF field # Nothing /\ field.name = JsonFieldOf(id) THEN field
    ELSE [name |-> JsonFieldOf(id), text |-> NodeOf(ns, id).config]

-----------------------------------------------------------------------------
(* Editing.                                                                *)

Definitions(ns, es) == [nodes |-> ns, edges |-> es]

(* apply, from here and from the canvas.                                   *)
Applied(ns, es) ==
    /\ changes < MaxChanges /\ changes' = changes + 1
    /\ nodes' = ns /\ edges' = es
    /\ undoable' = Append(undoable, Definitions(nodes, edges))
    /\ redoable' = <<>>

undo ==
    /\ undoable # <<>>
    /\ nodes' = Last(undoable).nodes /\ edges' = Last(undoable).edges
    /\ undoable' = Front(undoable)
    /\ redoable' = Append(redoable, Definitions(nodes, edges))
    /\ field' = Reseeded(nodes', selectedId)
    /\ UNCHANGED <<selectedId, changes>>

redo ==
    /\ redoable # <<>>
    /\ nodes' = Last(redoable).nodes /\ edges' = Last(redoable).edges
    /\ redoable' = Front(redoable)
    /\ undoable' = Append(undoable, Definitions(nodes, edges))
    /\ field' = Reseeded(nodes', selectedId)
    /\ UNCHANGED <<selectedId, changes>>

nextNodeId(type, ns) ==
    <<type, Min({n \in 1..Cardinality(ns) + 1 : <<type, n>> \notin NodeIds(ns)})>>

Show(id) == selectedId' = id /\ field' = Reseeded(nodes', id)

defaultConfig(type) == IF type \in {"router", "input"} THEN defaultLabels ELSE {}

(* From the library, clicked or dropped.                                   *)
addNode(type) ==
    LET id == nextNodeId(type, nodes) IN
    Applied(nodes \cup {[id |-> id, config |-> defaultConfig(type)]}, edges) /\ Show(id)

duplicateNode(original) ==
    LET id == nextNodeId(Type(original), nodes) IN
    /\ selectedId = original
    /\ Applied(nodes \cup {[NodeOf(nodes, original) EXCEPT !.id = id]}, edges) /\ Show(id)

(* Mutant: only what leaves a node goes with it. *)
WithoutEnds_Sources(ids) == {edge \in edges : edge.source \notin ids}

WithoutNodes(ids) == {node \in nodes : node.id \notin ids}
WithoutEnds(ids) == {edge \in edges : edge.source \notin ids /\ edge.target \notin ids}

(* Delete, in the settings panel.                                          *)
removeNode(id) ==
    /\ selectedId = id
    /\ Applied(WithoutNodes({id}), WithoutEnds({id})) /\ Show(Nothing)

(* Typing in the JSON field: every text that parses is stored.             *)
updateConfig(labels) ==
    /\ field # Nothing /\ labels # field.text
    /\ Applied((nodes \ {NodeOf(nodes, selectedId)})
                  \cup {[NodeOf(nodes, selectedId) EXCEPT !.config = labels]}, edges)
    /\ field' = [field EXCEPT !.text = labels]
    /\ UNCHANGED selectedId

handleConnect(source, target) ==
    /\ source # target /\ TargetHandle(target)
    /\ \E branch \in SourceHandles(NodeOf(nodes, source)) :
          LET edge == [source |-> source, target |-> target, branch |-> branch] IN
          /\ edge \notin edges
          /\ Applied(nodes, edges \cup {edge})
    /\ UNCHANGED <<selectedId, field>>

(* The Delete key.  With nodes in the selection, the last report is about   *)
(* them, and an edge deleted with them that touches none comes back.       *)
handleRemove(ids, es) ==
    /\ changes < MaxChanges /\ changes' = changes + 1
    /\ ids # {} \/ es # {}
    /\ nodes' = WithoutNodes(ids)
    /\ edges' = IF ids = {} THEN edges \ es ELSE WithoutEnds(ids)
    /\ LET was == Definitions(nodes, edges)
           twice == ids # {} /\ (es # {} \/ WithoutEnds(ids) # edges)
       IN  undoable' = undoable \o (IF twice THEN <<was, was>> ELSE <<was>>)
    /\ redoable' = <<>>
    /\ field' = Reseeded(nodes', selectedId)
    /\ UNCHANGED selectedId

(* A node clicked, or the pane.                                            *)
onSelect(id) ==
    /\ id # selectedId
    /\ UNCHANGED <<nodes, edges, undoable, redoable, changes>>
    /\ Show(id)

-----------------------------------------------------------------------------

CanvasInit ==
    /\ nodes = opened.nodes /\ edges = opened.edges
    /\ undoable = <<>> /\ redoable = <<>>
    /\ selectedId = Nothing /\ field = Nothing /\ changes = 0

InTheLibrary == \E type \in NodeType : addNode(type)

InTheSettings ==
    \/ \E labels \in Labels : updateConfig(labels)
    \/ \E id \in NodeIds(nodes) : duplicateNode(id) \/ removeNode(id)

OnTheStudioCanvas ==
    \/ onSelect(Nothing)
    \/ \E id \in NodeIds(nodes) : onSelect(id)
    \/ \E source, target \in NodeIds(nodes) : handleConnect(source, target)
    \/ \E n \in 0..MaxDeleted : \E ids \in kSubset(n, NodeIds(nodes)),
                                   es \in kSubset(MaxDeleted - n, edges) :
          handleRemove(ids, es)

CanvasNext == undo \/ redo \/ InTheLibrary \/ InTheSettings \/ OnTheStudioCanvas

CanvasSpec == CanvasInit /\ [][CanvasNext]_canvasVars

-----------------------------------------------------------------------------

(* Whatever is added, duplicated, connected, deleted, undone or redone, no  *)
(* two nodes share an id (ids are what expressions address), every edge     *)
(* joins two nodes that are there, and an edge has a branch exactly when    *)
(* it leaves a diamond.  That a router still lists the branch is not said: *)
(* its configuration may have been edited since.                           *)
CanvasIsSound == Coherent(nodes, edges)

=============================================================================
