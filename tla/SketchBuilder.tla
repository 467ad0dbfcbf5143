---------------------------- MODULE SketchBuilder ----------------------------
(***************************************************************************)
(* The public sketchpad (components/build): steps and connections drawn in  *)
(* the browser and nowhere else, with an undo stack, connections made by    *)
(* dragging or by pressing Connect on one step and Connect here on another, *)
(* and React Flow, which reports a deletion in pieces.                      *)
(*                                                                         *)
(* An id is a type and a number, as nextNodeId writes it; a name and a      *)
(* place are only told apart from the ones a step was given.  The name and  *)
(* description of the sketch, what is selected (an input of Delete), the    *)
(* panes, the status line and the clipboard are left out.                   *)
(***************************************************************************)
EXTENDS Naturals, Sequences, FiniteSets, SequencesExt, FiniteSetsExt

CONSTANTS Block,         \* the types of the library
          Branches,      \* the branches a block offers; {} unless it branches
          seedSketch,    \* the sketch the page opens with
          Visitor,       \* "tidy" or "hasty", see below
          MaxEdits,      \* bound on the changes to the sketch
          MaxSelected,   \* bound on what one Delete takes
          HISTORY_LIMIT, \* 40 in the code
          NotLinking

ASSUME SketchAssumption ==
    /\ Branches \in [Block -> SUBSET STRING]
    /\ Visitor \subseteq {"tidy", "hasty"} /\ HISTORY_LIMIT \in Nat \ {0, 1}

(* A tidy visitor with a connection begun finishes or cancels it before      *)
(* undoing, redoing or pressing Delete; a hasty one need not.               *)
VARIABLES visitor,
          sketch,        \* history.present
          past, future,  \* the rest of history
          linking,       \* the end a connection was begun from
          edits

sketchVars == <<visitor, sketch, past, future, linking, edits>>

Step(id) == [id |-> id, named |-> FALSE, moved |-> FALSE]
Ids(steps) == {step.id : step \in steps}
TypeOf(id) == id[1]

CanBeSource(id) == TypeOf(id) # "output"
CanBeTarget(id) == TypeOf(id) # "input"

(* The handles and buttons a connection can start from. *)
Handles(id) ==
    IF Branches[TypeOf(id)] # {} THEN Branches[TypeOf(id)]
    ELSE IF CanBeSource(id) THEN {""} ELSE {}

Touching(edge, ids) == edge.source \in ids \/ edge.target \in ids

StepId == Block \X (Nat \ {0})
Branch == {""} \cup UNION {Branches[type] : type \in Block}

Sketches == [steps : SUBSET [id : StepId, named : BOOLEAN, moved : BOOLEAN],
             edges : SUBSET [source : StepId, target : StepId, branch : Branch],
             variables : SUBSET [id : Nat, named : BOOLEAN]]

(* A sketch that holds together, see SketchIsSound. *)
SoundFor(who, s) ==
    /\ Cardinality(Ids(s.steps)) = Cardinality(s.steps)
    /\ \A edge \in s.edges :
          /\ edge.target \in Ids(s.steps) /\ CanBeTarget(edge.target)
          /\ edge.source \in Ids(s.steps) \/ who = "hasty"
          /\ edge.branch \in Handles(edge.source) /\ edge.source # edge.target

(* So does the one the page opens with. *)
ASSUME SeedAssumption ==
    seedSketch \in Sketches /\ IsFiniteSet(seedSketch.steps) /\ SoundFor("tidy", seedSketch)

-----------------------------------------------------------------------------

(* Mutant: what is on screen is not kept. *)
Keep_Last(steps, present) == IF steps = <<>> THEN <<present>> ELSE steps

(* The undo stack with one more sketch on it.                              *)
Keep(steps, present) ==
    LET all == Append(steps, present) IN
    IF Len(all) > HISTORY_LIMIT THEN Tail(all) ELSE all

(* A structural change: on the undo stack, unless it changes nothing.       *)
Commit(next) ==
    /\ edits < MaxEdits /\ edits' = edits + 1
    /\ sketch' = next
    /\ IF next = sketch THEN UNCHANGED <<past, future>>
       ELSE past' = Keep(past, sketch) /\ future' = <<>>

(* An edit to a label: off it.                                             *)
Amend(next) ==
    /\ edits < MaxEdits /\ edits' = edits + 1
    /\ next # sketch
    /\ sketch' = next
    /\ UNCHANGED <<past, future, linking>>

Free == visitor = "hasty" \/ linking = NotLinking

SketchUndo ==
    /\ past # <<>> /\ Free
    /\ sketch' = Last(past) /\ past' = Front(past)
    /\ future' = <<sketch>> \o future
    /\ UNCHANGED <<visitor, linking, edits>>

SketchRedo ==
    /\ future # <<>> /\ Free
    /\ sketch' = Head(future) /\ future' = Tail(future)
    /\ past' = Append(past, sketch)
    /\ UNCHANGED <<visitor, linking, edits>>

-----------------------------------------------------------------------------
(* Steps.                                                                  *)

(* The first number no step of this type has.                              *)
NextStepId(type, steps) ==
    <<type, Min({n \in 1..Cardinality(steps) + 1 : <<type, n>> \notin Ids(steps)})>>

(* From the rail, or dropped on the canvas.                                *)
AddBlock(type) ==
    /\ Commit([sketch EXCEPT !.steps = @ \cup {Step(NextStepId(type, sketch.steps))}])
    /\ UNCHANGED <<visitor, linking>>

Without(s, ids) ==
    [s EXCEPT !.steps = {step \in @ : step.id \notin ids},
              !.edges = {edge \in @ : ~Touching(edge, ids)}]

(* Remove, on a card.                                                      *)
RemoveStep(id) ==
    /\ Commit(Without(sketch, {id}))
    /\ linking' = IF linking # NotLinking /\ linking.source = id THEN NotLinking ELSE linking
    /\ UNCHANGED visitor

RenameStep(step) ==
    /\ Amend([sketch EXCEPT !.steps = (@ \ {step}) \cup {[step EXCEPT !.named = ~@]}])
    /\ UNCHANGED visitor

(* The end of a drag, told once or twice, or a nudge by the arrow keys.     *)
MoveStep(step) ==
    /\ Commit([sketch EXCEPT !.steps = (@ \ {step}) \cup {[step EXCEPT !.moved = ~@]}])
    /\ UNCHANGED <<visitor, linking>>

-----------------------------------------------------------------------------
(* Connections.                                                            *)

Connected(source, target, branch) ==
    IF source = target \/ target \notin Ids(sketch.steps) \/ ~CanBeTarget(target) THEN sketch
    ELSE [sketch EXCEPT !.edges =
             @ \cup {[source |-> source, target |-> target, branch |-> branch]}]

(* Dragged from handle to handle.                                          *)
Connect(source, target) ==
    /\ CanBeTarget(target)
    /\ \E branch \in Handles(source) :
          /\ Connected(source, target, branch) # sketch
          /\ Commit(Connected(source, target, branch))
    /\ UNCHANGED <<visitor, linking>>

StartLink(source) ==
    /\ linking = NotLinking
    /\ \E branch \in Handles(source) : linking' = [source |-> source, branch |-> branch]
    /\ UNCHANGED <<visitor, sketch, past, future, edits>>

(* Connect here; a connection there is already, or refused, only ends.     *)
CompleteLink(target) ==
    /\ linking # NotLinking /\ target # linking.source /\ CanBeTarget(target)
    /\ Commit(Connected(linking.source, target, linking.branch))
    /\ linking' = NotLinking
    /\ UNCHANGED visitor

(* Cancel on the card, or Escape.                                          *)
CancelLink ==
    /\ linking # NotLinking /\ linking' = NotLinking
    /\ UNCHANGED <<visitor, sketch, past, future, edits>>

(* Remove, in the list of connections.                                     *)
RemoveEdge(edge) ==
    /\ Commit([sketch EXCEPT !.edges = @ \ {edge}])
    /\ UNCHANGED <<visitor, linking>>

(* The Delete key: React Flow reports the steps selected, and apart from    *)
(* them the connections selected and those of the steps, in either order.   *)
(* A report that finds nothing left to remove changes nothing.             *)
Delete(ids, edges) ==
    /\ Free /\ edits < MaxEdits /\ edits' = edits + 1
    /\ LET gone == edges \cup {edge \in sketch.edges : Touching(edge, ids)}
           done == [Without(sketch, ids) EXCEPT !.edges = @ \ gone]
       IN  \E first \in {[sketch EXCEPT !.edges = @ \ gone], Without(sketch, ids)} :
              /\ sketch' = done
              /\ past' = IF first \in {sketch, done} THEN Keep(past, sketch)
                         ELSE Keep(Keep(past, sketch), first)
    /\ future' = <<>>
    /\ UNCHANGED <<visitor, linking>>

-----------------------------------------------------------------------------
(* Input variables.                                                        *)

AddVariable ==
    /\ Commit([sketch EXCEPT !.variables = @ \cup {[id |-> edits + 1, named |-> FALSE]}])
    /\ UNCHANGED <<visitor, linking>>

ChangeVariable(variable) ==
    /\ Amend([sketch EXCEPT !.variables =
                 (@ \ {variable}) \cup {[variable EXCEPT !.named = ~@]}])
    /\ UNCHANGED visitor

RemoveVariable(variable) ==
    /\ Commit([sketch EXCEPT !.variables = @ \ {variable}])
    /\ UNCHANGED <<visitor, linking>>

(* Start over always goes on the undo stack, even from the seed itself.     *)
StartOver ==
    /\ edits < MaxEdits /\ edits' = edits + 1
    /\ sketch' = seedSketch /\ past' = Keep(past, sketch) /\ future' = <<>>
    /\ linking' = NotLinking
    /\ UNCHANGED visitor

-----------------------------------------------------------------------------

SketchInit ==
    /\ visitor \in Visitor
    /\ sketch = seedSketch /\ past = <<>> /\ future = <<>>
    /\ linking = NotLinking /\ edits = 0

OnTheCards ==
    \E step \in sketch.steps : RemoveStep(step.id) \/ RenameStep(step) \/ StartLink(step.id)
                               \/ CompleteLink(step.id)

OnTheCanvas ==
    \/ SketchUndo \/ SketchRedo
    \/ \E step \in sketch.steps : MoveStep(step)
    \/ \E source, target \in Ids(sketch.steps) : Connect(source, target)
    \/ \E n \in 0..MaxSelected : \E ids \in kSubset(n, Ids(sketch.steps)),
                                    edges \in kSubset(MaxSelected - n, sketch.edges) :
          Delete(ids, edges)

OnTheRail == \E type \in Block : AddBlock(type)

InThePanel ==
    \/ AddVariable
    \/ \E variable \in sketch.variables : ChangeVariable(variable) \/ RemoveVariable(variable)

InTheList == \E edge \in sketch.edges : RemoveEdge(edge)

SketchNext ==
    OnTheCards \/ OnTheCanvas \/ OnTheRail \/ InThePanel \/ InTheList \/ CancelLink \/ StartOver

SketchSpec == SketchInit /\ [][SketchNext]_sketchVars

-----------------------------------------------------------------------------

(* What is drawn, what can come back and what is begun fit together: no two *)
(* steps share an id, every connection joins two steps that are there, by a *)
(* handle they have, and one begun starts at a step that is there.  For a   *)
(* hasty visitor the step a connection starts from may be gone.            *)
Sound(s) == SoundFor(visitor, s)

SketchIsSound ==
    /\ Sound(sketch) /\ \A s \in ToSet(past) \cup ToSet(future) : Sound(s)
    /\ Len(past) + Len(future) <= HISTORY_LIMIT
    /\ linking # NotLinking /\ visitor = "tidy" => linking.source \in Ids(sketch.steps)

(* Nothing drawn is lost to one press: whatever a change replaced is at     *)
(* most two undos, or one redo, away, and only names may differ (commit;    *)
(* "Undo will bring your version back").                                   *)
Drawing(s) == <<{[step EXCEPT !.named = FALSE] : step \in s.steps}, s.edges,
                {variable.id : variable \in s.variables}>>

DrawingsComeBack ==
    [][LET n == Len(past') IN
       \/ Drawing(sketch') = Drawing(sketch)
       \/ \E i \in {n - 1, n} \cap 1..n : past'[i] = sketch
       \/ future' # <<>> /\ Head(future') = sketch]_sketchVars
=============================================================================
