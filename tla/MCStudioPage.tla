----------------------------- MODULE MCStudioPage -----------------------------
(***************************************************************************)
(* The Studio page and the public sketchpad on small drawings.  What they   *)
(* share is who is at the keyboard, so each part is run by itself, one for  *)
(* a whole visit: the page with its record and its writes (editor), what is *)
(* drawn on its canvas (studio), the inputs of the panel beside it          *)
(* (inputs), and the sketchpad (build).                                    *)
(***************************************************************************)
EXTENDS StudioEditor, SketchBuilder, StudioCanvas, WorkflowInputs

CONSTANT Screen
VARIABLE screen

vars == <<screen, editorVars, sketchVars, canvasVars, inputVars>>

First(type) == <<type, 1>>
Joined(source, target, on) == [source |-> First(source), target |-> First(target), branch |-> on]

MCBranches == [type \in Block |-> IF type = "condition" THEN {"true", "false"} ELSE {}]

MCSeed ==
    [steps |-> {Step(First("condition")), Step(First("output"))},
     edges |-> {Joined("condition", "output", "true")},
     variables |-> {[id |-> 0, named |-> FALSE]}]

MCOpened ==
    [nodes |-> {[id |-> First("input"), config |-> {}], [id |-> First("router"), config |-> {"a"}],
                [id |-> First("output"), config |-> {}]},
     edges |-> {Joined("input", "router", ""), Joined("router", "output", "a")}]

MCLabels == {{"a"}, {"b"}}
MCDefaultLabels == {"a"}

MCSuggested == <<"field", "field_2", "field_3", "field_4">>

(* A part that is not run waits as it starts.                              *)
Init ==
    /\ screen \in Screen
    /\ EditorInit /\ (screen # "editor" => visit = CHOOSE v \in Visit : TRUE)
    /\ SketchInit /\ (screen # "build" => visitor = CHOOSE v \in Visitor : TRUE)
    /\ CanvasInit /\ InputsInit

Next ==
    /\ \/ screen = "editor" /\ EditorNext /\ UNCHANGED <<sketchVars, canvasVars, inputVars>>
       \/ screen = "build" /\ SketchNext /\ UNCHANGED <<editorVars, canvasVars, inputVars>>
       \/ screen = "studio" /\ CanvasNext /\ UNCHANGED <<editorVars, sketchVars, inputVars>>
       \/ screen = "inputs" /\ InputsNext /\ UNCHANGED <<editorVars, sketchVars, canvasVars>>
    /\ UNCHANGED screen

Spec == Init /\ [][Next]_vars

-----------------------------------------------------------------------------
(* On both canvases no two steps share an id, and every connection, drawn,  *)
(* begun or kept for undo, joins steps that are there by handles they have. *)
DrawingsAreSound == SketchIsSound /\ CanvasIsSound
=============================================================================
