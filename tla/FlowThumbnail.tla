------------------------------ MODULE FlowThumbnail ------------------------------
(***************************************************************************)
(* The small drawing of a saved flow on its card (FlowThumbnail.tsx): what *)
(* the list endpoint sends of the flow, the fit of the drawing into its    *)
(* frame, and the words that stand for it.  The geometry is exact: a scale *)
(* is a numerator and a denominator.  Lengths on the canvas are in units   *)
(* of four pixels, lengths of the frame in units of its viewBox.           *)
(***************************************************************************)
EXTENDS Integers, FiniteSets, Sequences

CONSTANTS Steps,      \* node ids, in the order they are stored
          Connections,\* pairs of ids that may be connected
          Branching,  \* those of a type that branches
          Coordinate, \* where a step may be, on either axis
          Sendable,   \* THUMBNAIL_NODES, 60 in the code
          Nowhere,    \* a step saved without a position
          NoStep      \* an id that is not in the flow

ASSUME ThumbnailAssumption ==
    /\ Steps \in Seq(STRING) /\ \A i, j \in DOMAIN Steps : Steps[i] = Steps[j] => i = j
    /\ Branching \subseteq {Steps[i] : i \in DOMAIN Steps}
    /\ Connections \subseteq {Steps[i] : i \in DOMAIN Steps} \X {Steps[i] : i \in DOMAIN Steps}
    /\ Coordinate \subseteq Int /\ Sendable \in Nat \ {0}
    /\ Nowhere # NoStep

StepId == {Steps[i] : i \in DOMAIN Steps}
Position == [x : Coordinate, y : Coordinate]

(* A step without a position has no place; it is not put at the origin.    *)
Placement == Position \cup {Nowhere}

VARIABLES flow,   \* [place: StepId -> a Position, Nowhere or NoStep; edges]
          density \* "card" or "row"

thumbnailVars == <<flow, density>>

-----------------------------------------------------------------------------
(* What the endpoint sends of the flow: its first steps, and the           *)
(* connections that join them.                                             *)
InFlow == {s \in StepId : flow.place[s] # NoStep}
Before(s) == {q \in InFlow : \E i, j \in DOMAIN Steps : Steps[i] = q /\ Steps[j] = s /\ i < j}
SentSteps == {s \in InFlow : Cardinality(Before(s)) < Sendable}
SentEdges == {e \in flow.edges : e[1] \in SentSteps /\ e[2] \in SentSteps}
SentInPart == Cardinality(InFlow) > Cardinality(SentSteps)

(* The word in the corner of the card.                                     *)
SaysPart == SentInPart

(* What of it can be drawn.                                                *)
placed == {s \in SentSteps : flow.place[s] # Nowhere}
drawnEdges == {e \in SentEdges : e[1] \in placed /\ e[2] \in placed}

Label ==
    IF SentSteps = {} THEN [says |-> "no steps yet"]
    ELSE IF placed = SentSteps /\ drawnEdges = SentEdges
    THEN [says |-> "all", steps |-> Cardinality(SentSteps), edges |-> Cardinality(SentEdges)]
    ELSE IF placed = {} THEN [says |-> "none drawn"]
    ELSE [says |-> "part", steps |-> Cardinality(placed), edges |-> Cardinality(drawnEdges)]

(* What stands where the drawing would: a slot, and on a card its words.   *)
Caption ==
    IF placed # {} \/ density = "row" THEN "none"
    ELSE IF SentSteps = {} THEN "No steps yet" ELSE "No saved positions"

-----------------------------------------------------------------------------
(* The footprint of a step on the canvas, and the two frames.              *)
StepWidth == 45
StepHeight == 22
BranchWidth == 30
BranchHeight == 27

Density ==
    IF density = "card"
    THEN [width |-> 320, height |-> 180, pad |-> 12, maxScale |-> <<6, 5>>, minMark |-> <<3, 10>>]
    ELSE [width |-> 160, height |-> 90, pad |-> 7, maxScale |-> <<22, 25>>, minMark |-> <<11, 50>>]

Least(q, r) == IF q[1] * r[2] <= r[1] * q[2] THEN q ELSE r
Greatest(q, r) == IF q[1] * r[2] >= r[1] * q[2] THEN q ELSE r

Along(axis) == {flow.place[s][axis] : s \in placed}
LowEnd(axis) == CHOOSE n \in Along(axis) : \A k \in Along(axis) : n <= k
HighEnd(axis) == CHOOSE n \in Along(axis) : \A k \in Along(axis) : n >= k
Body(axis) == IF axis = "x" THEN StepWidth ELSE StepHeight
Room(axis) == IF axis = "x" THEN Density.width ELSE Density.height

(* Mutant: the span is of corners, without the bodies at its ends. *)
span_OfCorners(axis) == HighEnd(axis) - LowEnd(axis) + 1
span(axis) == HighEnd(axis) - LowEnd(axis) + Body(axis)

(* One scale for both axes, no larger than the frame allows; a mark has a  *)
(* floor of its own.                                                       *)
fit(axis) == <<Room(axis) - 2 * Density.pad, span(axis)>>
scale == Least(Least(fit("x"), fit("y")), Density.maxScale)
markScale == Greatest(scale, Density.minMark)

(* Twice the centre of a step, over the denominator of the scale k.        *)
Centre(s, axis, k) ==
    Room(axis) * k[2] + (2 * (flow.place[s][axis] - LowEnd(axis)) + Body(axis) - span(axis)) * k[1]

MarkOf(s, axis) ==
    IF s \notin Branching THEN Body(axis) ELSE IF axis = "x" THEN BranchWidth ELSE BranchHeight

(* Both edges of the mark of a step are in the frame.                      *)
MarkIsInside(s, axis, k, mark) ==
    LET centre == Centre(s, axis, k) * mark[2]
        reach == MarkOf(s, axis) * mark[1] * k[2]
    IN  centre >= reach /\ centre + reach <= 2 * Room(axis) * k[2] * mark[2]

-----------------------------------------------------------------------------
(* The list is read again after the flow was saved.  What is saved is      *)
(* arbitrary: a step may be gone with its connections or without them, and *)
(* a connection may be of steps that are not in the flow.                  *)
StepSaved(s, place) ==
    \E edges \in {flow.edges, {e \in flow.edges : s \notin {e[1], e[2]}}} :
        flow' = [place |-> [flow.place EXCEPT ![s] = place],
                 edges |-> IF place = NoStep THEN edges ELSE flow.edges]

EdgeSaved(e) == flow' = [flow EXCEPT !.edges = IF e \in @ THEN @ \ {e} ELSE @ \cup {e}]

FlowThumbnailInit ==
    /\ flow = [place |-> [s \in StepId |-> NoStep], edges |-> {}]
    /\ density \in {"card", "row"}

FlowThumbnailNext ==
    /\ \/ \E s \in StepId, place \in Placement \cup {NoStep} : StepSaved(s, place)
       \/ \E e \in Connections : EdgeSaved(e)
    /\ UNCHANGED density

-----------------------------------------------------------------------------
Attached == {e \in flow.edges : e[1] \in InFlow /\ e[2] \in InFlow}

(* However far apart its steps are, no mark of a flow is cropped by the    *)
(* frame, the floor under small marks included; and a label that claims    *)
(* all of the flow is of all its steps and of every connection between     *)
(* them unless the card says Part (a connection to a step that is not in   *)
(* the flow is dropped in silence); "no steps yet" is said, under the      *)
(* picture or for it, only of a flow without steps, "no saved positions"   *)
(* only of one with them                                                   *)
(* (FlowThumbnail.tsx:50, :308, :336 and :424, AgentCard.tsx:729).         *)
ThumbnailIsWhole ==
    /\ placed # {} =>
           LET k == scale
               mark == markScale
           IN  \A s \in placed, axis \in {"x", "y"} : MarkIsInside(s, axis, k, mark)
    /\ Label.says = "all" /\ ~SaysPart => placed = InFlow /\ drawnEdges = Attached
    /\ Label.says = "no steps yet" \/ Caption = "No steps yet" => InFlow = {}
    /\ Caption = "No saved positions" => InFlow # {} /\ Label.says = "none drawn"
=============================================================================
