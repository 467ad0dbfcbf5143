------------------------------ MODULE Explainers ------------------------------
(***************************************************************************)
(* The two moving explainers of the public site.  AgentPipeline.tsx plays  *)
(* an agent's run over and over, stage by stage, from what its catalogue   *)
(* entry declares; UseCaseFlow.tsx reveals a recorded run as the reader    *)
(* scrolls to it.  Both work from effects, timers and an observer that a   *)
(* browser may not have, or may have and never call.                       *)
(***************************************************************************)
EXTENDS Integers, Sequences, FiniteSets, SequencesExt

CONSTANTS Entry,        \* catalogue entries: [models, codes, escalates]
          MostStages,   \* 5 in the code
          FlowLength    \* stages of the recorded run

ASSUME ExplainersAssumption ==
    /\ MostStages \in Nat /\ FlowLength \in Nat \ {0}
    /\ \A e \in Entry : /\ e.models \in Nat /\ e.codes \in Nat
                         /\ e.escalates \in {"never", "sometimes", "always"}

Stage == 1..FlowLength

VARIABLES entry,
          beat,                         \* 0 before the first cycle
          offScreen, wanted, stillness,
          beatTimer,                    \* whether the next beat is set
          pipelineRan                   \* what the effects last ran with

pipelineVars == <<entry, beat, offScreen, wanted, stillness, beatTimer, pipelineRan>>

VARIABLES observer,   \* of the browser: "absent", "works" or "silent"
          calm,       \* the reader asks for less motion
          listens,    \* whether the hook hears that wish change
          armed, armedRan,
          observing,  \* stages under observation
          told,       \* [observed stages -> what was last said of them]
          inView, arrived, delay,
          heard, fallback

revealVars == <<observer, calm, listens, armed, armedRan, observing, told, inView, arrived, delay,
                heard, fallback>>

explainerVars == <<pipelineVars, revealVars>>

-----------------------------------------------------------------------------
(* The pipeline: models first, then tools, as many as are drawn.           *)
stagesFor(e) == IF e.models + e.codes > MostStages THEN MostStages ELSE e.models + e.codes
Hidden(e) == e.models + e.codes - stagesFor(e)

Frame(at, index, done, returns, person) ==
    [at |-> at, index |-> index, done |-> done, returns |-> returns, person |-> person]

Cycle(stages, escalating) ==
    <<Frame("intake", 0, 0, FALSE, FALSE)>>
    \o [k \in 1..2 * stages |->
           IF k % 2 = 1 THEN Frame("transit", (k + 1) \div 2, k \div 2, FALSE, FALSE)
           ELSE Frame("stage", k \div 2, k \div 2, FALSE, FALSE)]
    \o <<Frame("transit", stages + 1, stages, FALSE, FALSE),
         Frame("verdict", 0, stages, FALSE, FALSE), Frame("emit", 0, stages, TRUE, FALSE)>>
    \o (IF escalating THEN <<Frame("handover", 0, stages, TRUE, TRUE)>> ELSE <<>>)
    \o <<Frame("rest", 0, stages, TRUE, escalating)>>

(* Read off the wording of the catalog entry.                              *)
alwaysEscalates(e) == e.escalates = "always"

cycles(e) ==
    IF e.escalates = "never" THEN <<FALSE>>
    ELSE IF alwaysEscalates(e) THEN <<TRUE>> ELSE <<FALSE, TRUE>>

framesFor(e) == FlattenSeq([i \in DOMAIN cycles(e) |-> Cycle(stagesFor(e), cycles(e)[i])])

(* What a beat draws: the mark crosses a connector or works in a pill, and *)
(* leaves the connectors and pills it has reached drawn behind it.         *)
Still == Frame("nowhere", 0, 0, FALSE, FALSE)
frame == IF beat = 0 THEN Still ELSE framesFor(entry)[beat]
LastConnector == stagesFor(entry) + 1

PillLive(i) == frame.at = "stage" /\ frame.index = i
PillPassed(i) == i <= frame.done
ConnectorLive(i) == frame.at = "transit" /\ frame.index = i
ConnectorPassed(i) ==
    IF i = LastConnector THEN frame.at = "verdict" \/ frame.returns ELSE i <= frame.done

(* The exits of the branch, and the columns of inputs and outputs.         *)
ExitsTaken ==
    (IF frame.returns THEN {"returns"} ELSE {}) \cup (IF frame.person THEN {"person"} ELSE {})
ColumnLit(side) == IF side = "reads" THEN frame.at \notin {"nowhere", "rest"} ELSE frame.returns

playing == ~offScreen /\ wanted /\ ~stillness

(* What the effects depend on, and whether it has changed since they ran.  *)
Rendered == [playing |-> playing, beat |-> beat, still |-> stillness]
PipelineDue == pipelineRan # Rendered

(* Less motion unwinds the run; otherwise the next beat is set.            *)
PipelineEffects ==
    /\ PipelineDue
    /\ beat' = IF stillness /\ ~pipelineRan.still THEN 0 ELSE beat
    /\ beatTimer' = playing
    /\ pipelineRan' = Rendered
    /\ UNCHANGED <<entry, offScreen, wanted, stillness>>

(* A timer may fire before the effects of a render have run.               *)
BeatEnds ==
    /\ beatTimer /\ beatTimer' = FALSE
    /\ beat' = (beat % Len(framesFor(entry))) + 1
    /\ UNCHANGED <<entry, offScreen, wanted, stillness, pipelineRan>>

PipelineSees ==
    /\ \/ offScreen' = ~offScreen /\ UNCHANGED <<wanted, stillness>>
       \/ stillness' = ~stillness /\ UNCHANGED <<offScreen, wanted>>
       \/ ~stillness /\ wanted' = ~wanted /\ UNCHANGED <<offScreen, stillness>>
    /\ UNCHANGED <<entry, beat, beatTimer, pipelineRan>>

PipelineInit ==
    /\ entry \in Entry /\ beat = 0
    /\ offScreen = FALSE /\ wanted = TRUE /\ stillness = FALSE /\ beatTimer = FALSE
    /\ pipelineRan = [playing |-> FALSE, beat |-> 0, still |-> FALSE]

PipelineNext == PipelineEffects \/ BeatEnds \/ PipelineSees

-----------------------------------------------------------------------------
(* The recorded run: drawn whole, hidden only once the browser is found to *)
(* have an observer and the reader not to mind motion.                     *)
Shown(stage) == ~armed \/ stage \in arrived

Windows == {a..b : a \in Stage, b \in Stage}

(* A browser that cannot tell the reader's wish arms, and is never told.   *)
FlowMounts ==
    /\ ~listens /\ armedRan = "unmounted"
    /\ \E matchMedia \in BOOLEAN :
           /\ armed' = (observer # "absent" /\ ~(matchMedia /\ calm))
           /\ listens' = (armed' /\ matchMedia)
    /\ armedRan' = "no"
    /\ UNCHANGED <<observer, calm, observing, told, inView, arrived, delay, heard, fallback>>

ArmedDue == armedRan # "unmounted" /\ armedRan # IF armed THEN "yes" ELSE "no"

ArmedEffect ==
    /\ ArmedDue
    /\ armedRan' = IF armed THEN "yes" ELSE "no"
    /\ observing' = IF armed THEN Stage ELSE {}
    /\ told' = [s \in Stage |-> "nothing"]
    /\ heard' = FALSE /\ fallback' = armed
    /\ UNCHANGED <<observer, calm, listens, armed, inView, arrived, delay>>

(* What the observer has not said yet: it says it in one batch.            *)
Saying(stage) == IF stage \in inView THEN "in" ELSE "out"
Unsaid == {s \in observing : told[s] # Saying(s)}

ObserverSpeaks ==
    /\ observer = "works" /\ Unsaid # {}
    /\ heard' = TRUE
    /\ told' = [s \in Stage |-> IF s \in Unsaid THEN Saying(s) ELSE told[s]]
    /\ LET batch == Unsaid \cap inView IN
       /\ observing' = observing \ batch
       /\ arrived' = arrived \cup batch
       /\ delay' = [s \in Stage |-> IF s \in batch \ arrived
                                    THEN Cardinality({q \in batch \ arrived : q < s}) ELSE delay[s]]
    /\ UNCHANGED <<observer, calm, listens, armed, armedRan, inView, fallback>>

Scrolls ==
    /\ inView' \in Windows \cup {{}}
    /\ UNCHANGED <<observer, calm, listens, armed, armedRan, observing, told, arrived, delay,
                   heard, fallback>>

(* Mutant: the fallback reveals nothing. *)
FallbackFires_Never == fallback /\ fallback' = FALSE
    /\ UNCHANGED <<observer, calm, listens, armed, armedRan, observing, told, inView, arrived,
                   delay, heard>>

FallbackFires ==
    /\ fallback /\ fallback' = FALSE
    /\ armed' = (armed /\ heard)
    /\ UNCHANGED <<observer, calm, listens, armedRan, observing, told, inView, arrived, delay, heard>>

(* Asked for less motion, it disarms, and does not arm again.              *)
MotionWish ==
    /\ calm' = ~calm
    /\ armed' = (armed /\ ~(listens /\ calm'))
    /\ UNCHANGED <<observer, listens, armedRan, observing, told, inView, arrived, delay, heard, fallback>>

RevealInit ==
    /\ observer \in {"absent", "works", "silent"} /\ calm \in BOOLEAN
    /\ listens = FALSE /\ armed = FALSE /\ armedRan = "unmounted"
    /\ observing = {} /\ told = [s \in Stage |-> "nothing"]
    /\ inView = {} /\ arrived = {} /\ delay = [s \in Stage |-> 0]
    /\ heard = FALSE /\ fallback = FALSE

RevealNext ==
    FlowMounts \/ ArmedEffect \/ ObserverSpeaks \/ Scrolls \/ FallbackFires \/ MotionWish

-----------------------------------------------------------------------------
(* The pipeline plays only runs the agent can have: nothing goes to a      *)
(* person before the output is written or without a declared condition, an *)
(* agent that always escalates never rests without a person; the trail     *)
(* leads to the mark without a gap and never past it; the chips count what *)
(* is drawn and what is not; and the run never stalls while it should      *)
(* play, nor stands half way for a reader who asked for none               *)
(* (AgentPipeline.tsx:153, :226, :275, :748 and :1032).                    *)
PipelinePlaysARun ==
    /\ "person" \in ExitsTaken => ColumnLit("produces") /\ entry.escalates # "never"
    /\ frame.at = "rest" /\ alwaysEscalates(entry) => "person" \in ExitsTaken
    /\ \A i \in 1..stagesFor(entry) : PillLive(i) \/ PillPassed(i) =>
           PillPassed(i) /\ \A j \in 1..i : ConnectorPassed(j)
    /\ \A i \in 1..LastConnector : ConnectorLive(i) =>
           ~ConnectorPassed(i) /\ \A j \in 1..i - 1 : ConnectorPassed(j) /\ PillPassed(j)
    /\ ColumnLit("produces") =>
           Cardinality({i \in 1..stagesFor(entry) : PillPassed(i)}) + Hidden(entry)
               = entry.models + entry.codes
    /\ ~PipelineDue => beatTimer = playing /\ (stillness => beat = 0)

(* Nothing of the recorded run stays hidden from a reader who looks at it, *)
(* whatever the browser's observer does, and a stage that waits waits one  *)
(* turn longer than an earlier one that is revealed: a stage that was not  *)
(* leaves no gap in the stagger (UseCaseFlow.tsx:236, :133).               *)
NothingStaysHidden ==
    /\ ~ArmedDue /\ ~fallback /\ (observer = "works" => Unsaid = {})
          => \A s \in inView : Shown(s)
    /\ \A s \in arrived : delay[s] = 0 \/ \E q \in arrived : q < s /\ delay[q] = delay[s] - 1

(* Neither explainer stalls, hides what it shows or tells a run that       *)
(* cannot be.                                                              *)
ExplainersPlay == PipelinePlaysARun /\ NothingStaysHidden
=============================================================================
