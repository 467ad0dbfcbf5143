----------------------------- MODULE WorkflowProofs ----------------------------
(***************************************************************************)
(* Proofs about a workflow, how it runs and how it is kept.                 *)
(*                                                                         *)
(* In the engine, for every set of workflows, every batch limit and every   *)
(* retry budget: type correctness, the bookkeeping of live edges, and the  *)
(* three facts about what runs and what is skipped that rest on it; then   *)
(* what a run leaves behind: nothing ran past a gate that halted it, its   *)
(* status and trace are complete, the Studio draws it the way it went, and *)
(* it is a run of the abstract workflow.                                   *)
(*                                                                         *)
(* In the Studio of one tenant, for any rows, names, definitions, requests *)
(* and ways they race: StudioInv is the inductive invariant of requests    *)
(* that race, TurnInv what requests that follow one another add to it.     *)
(***************************************************************************)
EXTENDS RunOverlay, Studio, FiniteSetTheorems, SequenceTheorems, TLAPS

(* A node is always downstream of itself, and only nodes are.              *)
LEMMA DownstreamFacts ==
    ASSUME NEW g, NEW n \in Node
    PROVE  n \in Downstream(g, n) /\ Downstream(g, n) \subseteq Node
  BY DEF Downstream

(* The engine's state is always of its type. *)
THEOREM TypeCorrectness == Spec => []TypeOK
  <1>1. Init => TypeOK
    <2> SUFFICES ASSUME Init PROVE TypeOK
      OBVIOUS
    <2>1. graph \in Graph
      BY WorkflowsAssumption DEF Init
    <2>2. graph.nodes \subseteq Node
      BY <2>1 DEF Graph
    <2>3. scope \in SUBSET Node
      BY <2>2 DEF Init
    <2> QED
      BY <2>1, <2>3 DEF Init, TypeOK
  <1>2. TypeOK /\ [Next]_vars => TypeOK'
    <2> SUFFICES ASSUME TypeOK, [Next]_vars
                 PROVE  TypeOK'
      OBVIOUS
    <2>1. CASE Validate
      BY <2>1 DEF Validate, TypeOK
    <2>2. CASE Schedule
      BY <2>2 DEF Schedule, TypeOK, Ready, OffPath
    <2>3. CASE NothingReady
      BY <2>3 DEF NothingReady, TypeOK, RunStatus
    <2>4. CASE Return
      BY <2>4 DEF Return, TypeOK, RunStatus
    <2>5. ASSUME NEW n \in Node, Start(n)
          PROVE  TypeOK'
      BY <2>5 DEF Start, TypeOK, EmptyOutcome, Outcome
    <2>6. ASSUME NEW n \in Node, NEW o \in Outcome, Attempt(n, o)
          PROVE  TypeOK'
      BY <2>6 DEF Attempt, TypeOK
    <2>7. ASSUME NEW n \in Node, CollectFailed(n)
          PROVE  TypeOK'
      BY <2>7 DEF CollectFailed, TypeOK
    <2>8. ASSUME NEW n \in Node, CollectHalt(n)
          PROVE  TypeOK'
      BY <2>8 DEF CollectHalt, TypeOK
    <2>9. ASSUME NEW n \in Node, CollectOk(n)
          PROVE  TypeOK'
      BY <2>9 DEF CollectOk, TypeOK
    <2>10. CASE UNCHANGED vars
      BY <2>10 DEF TypeOK, vars
    <2> QED
      BY <2>1, <2>2, <2>3, <2>4, <2>5, <2>6, <2>7, <2>8, <2>9, <2>10
      DEF Next, Run, Collect, Terminated
  <1> QED
    BY <1>1, <1>2, PTL DEF Spec

-----------------------------------------------------------------------------

(* Which node is where: a node is pending, in the batch or settled, never  *)
(* two of them; what a settled node answered is final; a gate that halted  *)
(* has set the flag.                                                       *)
BatchInv ==
    /\ batch \cap settled = {} /\ batch \cap pending = {} /\ pending \cap settled = {}
    /\ running \subseteq batch
    /\ \A n \in running : results[n] = NoResult
    /\ \A n \in settled : results[n] \in Outcome
    /\ \A n \in settled : results[n].kind = "halt" => halted

(* Which node is where is always as BatchInv says. *)
THEOREM BatchCorrectness == Spec => []BatchInv
  <1>1. Init => BatchInv
    BY DEF Init, BatchInv
  <1>2. TypeOK /\ BatchInv /\ [Next]_vars => BatchInv'
    <2> SUFFICES ASSUME TypeOK, BatchInv, [Next]_vars
                 PROVE  BatchInv'
      OBVIOUS
    <2>1. CASE Validate \/ NothingReady \/ Return \/ UNCHANGED vars
      BY <2>1 DEF Validate, NothingReady, Return, vars, BatchInv
    <2>2. CASE Schedule
      BY <2>2 DEF Schedule, BatchInv, Ready, OffPath, Looping
    <2>3. ASSUME NEW n \in Node, Start(n)
          PROVE  BatchInv'
      BY <2>3 DEF Start, BatchInv, TypeOK
    <2>4. ASSUME NEW n \in Node, NEW o \in Outcome, Attempt(n, o)
          PROVE  BatchInv'
      BY <2>4 DEF Attempt, BatchInv, TypeOK
    <2>5. ASSUME NEW n \in Node, CollectFailed(n) \/ CollectHalt(n) \/ CollectOk(n)
          PROVE  BatchInv'
      <3>1. n \in batch /\ \A m \in batch : results[m] # NoResult
        BY <2>5 DEF CollectFailed, CollectHalt, CollectOk, NextToCollect
      <3>2. running = {} /\ results[n] \in Outcome
        BY <3>1 DEF BatchInv, TypeOK
      <3>3. settled' = settled \cup {n} /\ batch' \subseteq batch \ {n}
        BY <2>5 DEF CollectFailed, CollectHalt, CollectOk
      <3>4. UNCHANGED <<running, results, pending>>
        BY <2>5 DEF CollectFailed, CollectHalt, CollectOk
      <3>5. (halted => halted') /\ (results[n].kind = "halt" => halted')
        BY <2>5 DEF CollectFailed, CollectHalt, CollectOk
      <3> QED
        BY <3>1, <3>2, <3>3, <3>4, <3>5 DEF BatchInv
    <2> QED
      BY <2>1, <2>2, <2>3, <2>4, <2>5 DEF Next, Run, Collect, Terminated
  <1> QED
    BY <1>1, <1>2, TypeCorrectness, PTL DEF Spec

-----------------------------------------------------------------------------

(* What a step does to the verdicts: the nodes that have settled keep      *)
(* theirs, and a node settles only by being collected.                     *)
LEMMA VerdictsAreFinal ==
    ASSUME TypeOK, BatchInv, [Next]_vars
    PROVE  /\ settled \subseteq settled' /\ skipped \subseteq skipped'
           /\ graph' = graph
           /\ \A n \in settled : results'[n] = results[n]
           /\ \A n \in Node : Failed(n) => Failed(n)'
           /\ \A n \in Node : Succeeded(n) => Succeeded(n)'
  <1> DEFINE Stable == /\ settled \subseteq settled' /\ skipped \subseteq skipped'
                       /\ graph' = graph
                       /\ \A n \in settled : results'[n] = results[n]
  <1>1. Stable
    <2>1. CASE Validate \/ NothingReady \/ Return \/ Schedule \/ UNCHANGED vars
      BY <2>1 DEF Validate, NothingReady, Return, Schedule, vars
    <2>2. ASSUME NEW n \in Node, Start(n)
          PROVE  Stable
      BY <2>2 DEF Start, BatchInv, TypeOK
    <2>3. ASSUME NEW n \in Node, NEW o \in Outcome, Attempt(n, o)
          PROVE  Stable
      BY <2>3 DEF Attempt, BatchInv, TypeOK
    <2>4. ASSUME NEW n \in Node, CollectFailed(n) \/ CollectHalt(n) \/ CollectOk(n)
          PROVE  Stable
      BY <2>4 DEF CollectFailed, CollectHalt, CollectOk
    <2> QED
      BY <2>1, <2>2, <2>3, <2>4 DEF Next, Run, Collect, Terminated
  <1>2. \A n \in Node : Failed(n) => Failed(n)'
    BY <1>1 DEF Failed
  <1>3. \A n \in Node : Succeeded(n) => Succeeded(n)'
    BY <1>1 DEF Succeeded
  <1> QED
    BY <1>1, <1>2, <1>3

EdgeAgrees(e) == e \in live <=> ~Dead(e)

(* An edge is live exactly when its source did not choose another branch   *)
(* and nothing it lies past has failed.                                    *)
THEOREM LiveEdgesCorrect == Spec => []LiveEdgesAreThoseNotDead
  <1>1. Init => LiveEdgesAreThoseNotDead
    BY DEF Init, LiveEdgesAreThoseNotDead, Dead, NotChosen, PastFailure, Failed, Succeeded
  <1>2. TypeOK /\ BatchInv /\ LiveEdgesAreThoseNotDead /\ [Next]_vars
            => LiveEdgesAreThoseNotDead'
    <2> SUFFICES ASSUME TypeOK, BatchInv, LiveEdgesAreThoseNotDead, [Next]_vars,
                        NEW e \in graph.edges
                 PROVE  EdgeAgrees(e)'
      BY VerdictsAreFinal DEF LiveEdgesAreThoseNotDead, EdgeAgrees
    <2>1. EdgeAgrees(e)
      BY DEF LiveEdgesAreThoseNotDead, EdgeAgrees
    <2> USE DEF EdgeAgrees, Dead, NotChosen
    <2>2. ASSUME settled' = settled, live' = live
          PROVE  EdgeAgrees(e)'
      <3>1. /\ graph' = graph
            /\ \A n \in settled : results'[n] = results[n]
        BY VerdictsAreFinal
      <3>2. \A n \in Node : Failed(n)' <=> Failed(n)
        BY <3>1, <2>2 DEF Failed
      <3>5. Succeeded(e.source)' <=> Succeeded(e.source)
        BY <3>1, <2>2 DEF Succeeded
      <3>3. PastFailure(e.source)' <=> PastFailure(e.source)
        BY <3>1, <3>2 DEF PastFailure
      <3>4. Succeeded(e.source) => results'[e.source] = results[e.source]
        BY <3>1 DEF Succeeded
      <3> QED
        BY <2>1, <2>2, <3>1, <3>3, <3>4, <3>5
    <2>3. ASSUME NEW n \in Node, CollectFailed(n)
          PROVE  EdgeAgrees(e)'
      <3>1. /\ settled' = settled \cup {n} /\ results[n].kind = "failed"
            /\ live' = live \ {d \in graph.edges : d.source \in Downstream(graph, n)}
            /\ graph' = graph /\ results' = results
        BY <2>3 DEF CollectFailed
      <3>2. \A m \in Node : Failed(m)' <=> Failed(m) \/ m = n
        BY <3>1 DEF Failed
      <3>3. PastFailure(e.source)' <=> PastFailure(e.source) \/ e.source \in Downstream(graph, n)
        BY <3>1, <3>2 DEF PastFailure
      <3>4. Succeeded(e.source)' <=> Succeeded(e.source)
        BY <3>1 DEF Succeeded
      <3> QED
        BY <2>1, <3>1, <3>3, <3>4
    <2>4. ASSUME NEW n \in Node, CollectHalt(n)
          PROVE  EdgeAgrees(e)'
      <3>1. /\ settled' = settled \cup {n} /\ results[n].kind = "halt"
            /\ live' = live /\ graph' = graph /\ results' = results
        BY <2>4 DEF CollectHalt
      <3>2. /\ \A m \in Node : Failed(m)' <=> Failed(m)
            /\ Succeeded(e.source)' <=> Succeeded(e.source)
        BY <3>1 DEF Failed, Succeeded
      <3>3. PastFailure(e.source)' <=> PastFailure(e.source)
        BY <3>1, <3>2 DEF PastFailure
      <3> QED
        BY <2>1, <3>1, <3>2, <3>3
    <2>5. ASSUME NEW n \in Node, CollectOk(n)
          PROVE  EdgeAgrees(e)'
      <3>1. /\ settled' = settled \cup {n} /\ results[n].kind = "ok"
            /\ live' = IF n \in graph.branching
                       THEN live \ Unchosen(n, results[n].branch) ELSE live
            /\ graph' = graph /\ results' = results
        BY <2>5 DEF CollectOk
      <3>2. \A m \in Node : Failed(m)' <=> Failed(m)
        BY <3>1 DEF Failed
      <3>3. PastFailure(e.source)' <=> PastFailure(e.source)
        BY <3>1, <3>2 DEF PastFailure
      <3>4. n \notin settled
        BY <2>5 DEF CollectOk, NextToCollect, BatchInv
      <3>5. Succeeded(e.source)' <=> Succeeded(e.source) \/ e.source = n
        BY <3>1 DEF Succeeded
      <3>6. e \in Unchosen(n, results[n].branch)
                <=> e.source = n /\ e.branch # results[n].branch
        BY DEF Unchosen, outgoing
      <3>7. ~Succeeded(n)
        BY <3>4 DEF Succeeded
      <3> QED
        BY <2>1, <3>1, <3>3, <3>5, <3>6, <3>7
    <2>6. ASSUME NEW n \in Node, Start(n) \/ \E o \in Outcome : Attempt(n, o)
          PROVE  EdgeAgrees(e)'
      BY <2>2, <2>6 DEF Start, Attempt
    <2>7. CASE Validate \/ Schedule \/ NothingReady \/ Return \/ UNCHANGED vars
      BY <2>2, <2>7 DEF Validate, Schedule, NothingReady, Return, vars
    <2> QED
      BY <2>3, <2>4, <2>5, <2>6, <2>7 DEF Next, Run, Collect, Terminated
  <1> QED
    BY <1>1, <1>2, TypeCorrectness, BatchCorrectness, PTL DEF Spec

-----------------------------------------------------------------------------

(* Only Schedule takes nodes, and only nodes that are ready and on a live  *)
(* path; only Schedule skips nodes, those that are ready and off it.       *)
LEMMA TakenByScheduling ==
    ASSUME TypeOK, BatchInv, [Next]_vars
    PROVE  \/ Schedule /\ Taken' = Taken \cup (Ready \ OffPath)
           \/ Taken' \subseteq Taken /\ skipped' = skipped
  <1>1. CASE Validate \/ NothingReady \/ Return \/ UNCHANGED vars
    BY <1>1 DEF Validate, NothingReady, Return, vars, Taken
  <1>2. CASE Schedule
    <2>1. batch = {} /\ batch' = Ready \ OffPath
      BY <1>2 DEF Schedule, Looping
    <2>2. UNCHANGED <<settled, attempts>>
      BY <1>2 DEF Schedule
    <2> QED
      BY <1>2, <2>1, <2>2 DEF Taken
  <1>3. ASSUME NEW n \in Node, Start(n)
        PROVE  Taken' \subseteq Taken /\ skipped' = skipped
    <2>1. n \in batch /\ UNCHANGED <<batch, settled, skipped>>
      BY <1>3 DEF Start
    <2>2. \A m \in Node : m # n => attempts'[m] = attempts[m]
      BY <1>3 DEF Start, TypeOK
    <2> QED
      BY <2>1, <2>2 DEF Taken
  <1>4. ASSUME NEW n \in Node, NEW o \in Outcome, Attempt(n, o)
        PROVE  Taken' \subseteq Taken /\ skipped' = skipped
    <2>1. n \in batch /\ UNCHANGED <<batch, settled, skipped>>
      BY <1>4 DEF Attempt, BatchInv
    <2>2. \A m \in Node : m # n => attempts'[m] = attempts[m]
      BY <1>4 DEF Attempt, TypeOK
    <2> QED
      BY <2>1, <2>2 DEF Taken
  <1>5. ASSUME NEW n \in Node, CollectFailed(n) \/ CollectHalt(n) \/ CollectOk(n)
        PROVE  Taken' \subseteq Taken /\ skipped' = skipped
    <2>1. n \in batch /\ batch' \subseteq batch /\ settled' = settled \cup {n}
      BY <1>5 DEF CollectFailed, CollectHalt, CollectOk, NextToCollect
    <2>2. UNCHANGED <<attempts, skipped>>
      BY <1>5 DEF CollectFailed, CollectHalt, CollectOk
    <2> QED
      BY <2>1, <2>2 DEF Taken
  <1> QED
    BY <1>1, <1>2, <1>3, <1>4, <1>5 DEF Next, Run, Collect, Terminated

(* PastFailure never stops holding, and a choice never changes. *)
LEMMA DeadStaysDead ==
    ASSUME TypeOK, BatchInv, [Next]_vars
    PROVE  /\ \A n \in Node : PastFailure(n) => PastFailure(n)'
           /\ \A e \in graph.edges : Dead(e) => Dead(e)'
           /\ \A e \in graph.edges : Succeeded(e.source) /\ ~NotChosen(e)
                                        => Succeeded(e.source)' /\ ~NotChosen(e)'
  <1>1. \A n \in Node : PastFailure(n) => PastFailure(n)'
    BY VerdictsAreFinal DEF PastFailure
  <1>2. ASSUME NEW e \in graph.edges
        PROVE  /\ e.source \in Node
               /\ NotChosen(e) => NotChosen(e)'
               /\ Succeeded(e.source) /\ ~NotChosen(e)
                      => Succeeded(e.source)' /\ ~NotChosen(e)'
    <2>1. e.source \in Node
      BY DEF TypeOK, Graph, Edge
    <2>2. Succeeded(e.source) =>
              Succeeded(e.source)' /\ results'[e.source] = results[e.source]
      BY <2>1, VerdictsAreFinal DEF Succeeded
    <2> QED
      BY <2>1, <2>2, VerdictsAreFinal DEF NotChosen
  <1> QED
    BY <1>1, <1>2 DEF Dead

LEMMA EdgeEnds ==
    ASSUME TypeOK, NEW n \in Node, NEW e \in incoming(graph, n)
    PROVE  e \in graph.edges /\ e.source \in Node
  BY DEF incoming, TypeOK, Graph, Edge

(* A join waits for both of its branches. *)
THEOREM JoinWaitsCorrect == Spec => []JoinWaits
  <1>1. Init => JoinWaits
    BY DEF Init, JoinWaits, Taken
  <1>2. /\ TypeOK /\ BatchInv /\ LiveEdgesAreThoseNotDead /\ JoinWaits
        /\ [Next]_vars
        => JoinWaits'
    <2> SUFFICES ASSUME TypeOK, BatchInv, LiveEdgesAreThoseNotDead, JoinWaits, [Next]_vars,
                        NEW n \in Taken', NEW e \in incoming(graph, n)
                 PROVE  (e.source \in settled \cup skipped \/ PastFailure(e.source))'
      BY VerdictsAreFinal DEF JoinWaits
    <2>1. n \in Node
      BY TakenByScheduling DEF Taken, TypeOK, Ready
    <2>2. e \in graph.edges /\ e.source \in Node
      BY <2>1, EdgeEnds
    <2>3. e.source \in settled \cup skipped \/ PastFailure(e.source)
      <3>1. CASE n \in Taken
        BY <3>1 DEF JoinWaits
      <3>2. CASE n \in Ready
        <4>1. e \in live => e.source \in settled \cup skipped
          BY <3>2 DEF Ready, DependenciesSettled
        <4>2. e \notin live => PastFailure(e.source) \/ e.source \in settled
          BY <2>2 DEF LiveEdgesAreThoseNotDead, Dead, NotChosen, Succeeded
        <4> QED
          BY <4>1, <4>2
      <3> QED
        BY <3>1, <3>2, TakenByScheduling
    <2> QED
      BY <2>2, <2>3, VerdictsAreFinal, DeadStaysDead
  <1> QED
    BY <1>1, <1>2, TypeCorrectness, BatchCorrectness, LiveEdgesCorrect, PTL DEF Spec

(* Whatever runs, other than an entry node, was chosen by a node that      *)
(* succeeded.                                                              *)
THEOREM RunsOnChosenPathCorrect == Spec => []RunsOnChosenPath
  <1>1. Init => RunsOnChosenPath
    BY DEF Init, RunsOnChosenPath, Taken
  <1>2. /\ TypeOK /\ BatchInv /\ LiveEdgesAreThoseNotDead /\ RunsOnChosenPath
        /\ [Next]_vars
        => RunsOnChosenPath'
    <2> SUFFICES ASSUME TypeOK, BatchInv, LiveEdgesAreThoseNotDead, RunsOnChosenPath,
                        [Next]_vars, NEW n \in Taken', incoming(graph, n) # {}
                 PROVE  \E e \in incoming(graph, n) : Succeeded(e.source)' /\ ~NotChosen(e)'
      BY VerdictsAreFinal DEF RunsOnChosenPath
    <2>1. n \in Node
      BY TakenByScheduling DEF Taken, TypeOK, Ready
    <2>2. \E e \in incoming(graph, n) : Succeeded(e.source) /\ ~NotChosen(e)
      <3>1. CASE n \in Taken
        BY <3>1 DEF RunsOnChosenPath
      <3>2. CASE Schedule /\ n \in Ready \ OffPath
        <4>1. PICK e \in incoming(graph, n) : e \in live /\ e.source \in settled
          BY <3>2 DEF OffPath, OnLivePath
        <4>2. ~Dead(e) /\ e.source \in Node
          BY <2>1, <4>1, EdgeEnds DEF LiveEdgesAreThoseNotDead
        <4>3. ~Failed(e.source)
          BY <4>2, DownstreamFacts DEF Dead, PastFailure
        <4>4. results[e.source].kind # "halt"
          BY <3>2, <4>1 DEF BatchInv, Schedule, Looping
        <4>5. Succeeded(e.source)
          BY <4>1, <4>3, <4>4 DEF Failed, Succeeded, BatchInv, Outcome
        <4> QED
          BY <4>1, <4>2, <4>5 DEF Dead
      <3> QED
        BY <3>1, <3>2, TakenByScheduling
    <2> QED
      BY <2>1, <2>2, EdgeEnds, DeadStaysDead
  <1> QED
    BY <1>1, <1>2, TypeCorrectness, BatchCorrectness, LiveEdgesCorrect, PTL DEF Spec

(* Nothing is skipped that should have run. *)
THEOREM SkippedForCauseCorrect == Spec => []SkippedForCause
  <1>1. Init => SkippedForCause
    BY DEF Init, SkippedForCause
  <1>2. /\ TypeOK /\ BatchInv /\ LiveEdgesAreThoseNotDead /\ SkippedForCause
        /\ [Next]_vars
        => SkippedForCause'
    <2> SUFFICES ASSUME TypeOK, BatchInv, LiveEdgesAreThoseNotDead, SkippedForCause,
                        [Next]_vars, NEW n \in skipped'
                 PROVE  /\ incoming(graph, n) # {}
                        /\ \A e \in incoming(graph, n) : e.source \in skipped' \/ Dead(e)'
      BY VerdictsAreFinal DEF SkippedForCause
    <2>1. /\ incoming(graph, n) # {} /\ n \in Node
          /\ \A e \in incoming(graph, n) : e.source \in skipped \/ Dead(e)
      <3>1. CASE n \in skipped
        BY <3>1 DEF SkippedForCause, TypeOK
      <3>2. CASE n \in OffPath
        <4>1. n \in Node /\ n \in Ready /\ ~OnLivePath(n)
          BY <3>2 DEF OffPath, Ready, TypeOK
        <4>2. ASSUME NEW e \in incoming(graph, n)
              PROVE  e.source \in skipped \/ Dead(e)
          BY <4>1, EdgeEnds
          DEF Ready, DependenciesSettled, OnLivePath, LiveEdgesAreThoseNotDead
        <4> QED
          BY <4>1, <4>2 DEF OnLivePath
      <3>3. n \in skipped \/ n \in OffPath
        BY TakenByScheduling DEF Schedule
      <3> QED
        BY <3>1, <3>2, <3>3
    <2> QED
      BY <2>1, EdgeEnds, DeadStaysDead, VerdictsAreFinal
  <1> QED
    BY <1>1, <1>2, TypeCorrectness, BatchCorrectness, LiveEdgesCorrect, PTL DEF Spec

(* The five together, the invariant the runs check on small workflows.     *)
THEOREM EngineInvariantCorrect == Spec => []EngineInvariant
  BY TypeCorrectness, LiveEdgesCorrect, JoinWaitsCorrect, RunsOnChosenPathCorrect,
     SkippedForCauseCorrect, PTL DEF EngineInvariant
-----------------------------------------------------------------------------
(* What a run leaves behind.                                               *)

(* Where the nodes of the run are: unless a gate halted it, each is        *)
(* pending, in the batch, settled or skipped; and only a graph without a   *)
(* blocking problem is run.                                                *)
PlacesInv ==
    /\ scope \subseteq graph.nodes
    /\ pending \subseteq scope /\ batch \subseteq scope
    /\ settled \subseteq scope /\ skipped \subseteq scope
    /\ skipped \cap pending = {} /\ skipped \cap batch = {} /\ skipped \cap settled = {}
    /\ ~halted => scope = pending \cup batch \cup settled \cup skipped
    /\ halted => batch = {} /\ \E g \in settled : results[g].kind = "halt"
    /\ phase # "loop" => batch = {}
    /\ phase = "loop" => NoBlockingProblem(graph) /\ status = "none"
    /\ phase = "returned" => status = "invalid" \/ NoBlockingProblem(graph)
    /\ phase = "new" => settled = {} /\ skipped = {} /\ status = "none"

(* The nodes are where PlacesInv says. *)
THEOREM PlacesCorrectness == Spec => []PlacesInv
  <1>1. Init => PlacesInv
    <2> SUFFICES ASSUME Init PROVE PlacesInv
      OBVIOUS
    <2>1. scope \subseteq graph.nodes
      BY DEF Init
    <2> QED
      BY <2>1 DEF Init, PlacesInv
  <1>2. TypeOK /\ BatchInv /\ PlacesInv /\ [Next]_vars => PlacesInv'
    <2> SUFFICES ASSUME TypeOK, BatchInv, PlacesInv, [Next]_vars
                 PROVE  PlacesInv'
      OBVIOUS
    <2>1. CASE Validate
      BY <2>1 DEF Validate, PlacesInv
    <2>2. CASE Schedule
      <3>1. Ready \subseteq pending /\ OffPath \subseteq Ready /\ batch = {} /\ ~halted
        BY <2>2 DEF Schedule, Looping, Ready, OffPath
      <3>2. /\ pending' = pending \ Ready /\ skipped' = skipped \cup OffPath
            /\ batch' = Ready \ OffPath
            /\ UNCHANGED <<graph, scope, phase, settled, halted, results, status>>
        BY <2>2 DEF Schedule
      <3>3. phase = "loop"
        BY <2>2 DEF Schedule, Looping
      <3> QED
        BY <3>1, <3>2, <3>3 DEF PlacesInv, BatchInv
    <2>3. CASE NothingReady
      BY <2>3 DEF NothingReady, Looping, PlacesInv
    <2>4. CASE Return
      BY <2>4 DEF Return, PlacesInv
    <2>5. ASSUME NEW n \in Node, Start(n)
          PROVE  PlacesInv'
      <3>1. n \in batch /\ UNCHANGED <<graph, scope, phase, pending, settled, skipped,
                                       halted, batch, status>>
        BY <2>5 DEF Start
      <3>2. \A m \in settled : results'[m] = results[m]
        BY <2>5, VerdictsAreFinal
      <3> QED
        BY <3>1, <3>2 DEF PlacesInv
    <2>6. ASSUME NEW n \in Node, NEW o \in Outcome, Attempt(n, o)
          PROVE  PlacesInv'
      <3>1. UNCHANGED <<graph, scope, phase, pending, settled, skipped, halted, batch, status>>
        BY <2>6 DEF Attempt
      <3>2. \A m \in settled : results'[m] = results[m]
        BY <2>6, VerdictsAreFinal
      <3> QED
        BY <3>1, <3>2 DEF PlacesInv
    <2>7. ASSUME NEW n \in Node, CollectFailed(n) \/ CollectOk(n)
          PROVE  PlacesInv'
      <3>1. /\ n \in batch /\ settled' = settled \cup {n} /\ batch' = batch \ {n}
            /\ UNCHANGED <<graph, scope, phase, pending, skipped, halted, results, status>>
        BY <2>7 DEF CollectFailed, CollectOk, NextToCollect
      <3> QED
        BY <3>1 DEF PlacesInv
    <2>8. ASSUME NEW n \in Node, CollectHalt(n)
          PROVE  PlacesInv'
      <3>1. /\ n \in batch /\ settled' = settled \cup {n} /\ batch' = {} /\ halted'
            /\ results[n].kind = "halt"
            /\ UNCHANGED <<graph, scope, phase, pending, skipped, results, status>>
        BY <2>8 DEF CollectHalt, NextToCollect
      <3> QED
        BY <3>1 DEF PlacesInv
    <2>9. CASE UNCHANGED vars
      BY <2>9 DEF vars, PlacesInv
    <2> QED
      BY <2>1, <2>2, <2>3, <2>4, <2>5, <2>6, <2>7, <2>8, <2>9 DEF Next, Run, Collect, Terminated
  <1> QED
    BY <1>1, <1>2, TypeCorrectness, BatchCorrectness, PTL DEF Spec

-----------------------------------------------------------------------------

(* What a failure cuts off is cut off all the way down.                    *)
LEMMA PastFailureIsClosed ==
    ASSUME TypeOK, NEW e \in graph.edges, PastFailure(e.source)
    PROVE  PastFailure(e.target)
  <1>1. e.target \in Node
    BY DEF TypeOK, Graph, Edge
  <1>2. PICK f \in Node : Failed(f) /\ e.source \in Downstream(graph, f)
    BY DEF PastFailure
  <1>3. ASSUME NEW S \in SUBSET Node, f \in S, ClosedUnder(graph, S)
        PROVE  e.target \in S
    BY <1>2, <1>3 DEF Downstream, ClosedUnder
  <1>4. e.target \in Downstream(graph, f)
    BY <1>1, <1>3 DEF Downstream
  <1> QED
    BY <1>2, <1>4 DEF PastFailure

(* Whatever is decided, settled or skipped, has its sources decided, unless *)
(* it lies past a failure.                                                 *)
LEMMA DecidedInOrder ==
    ASSUME TypeOK, JoinWaits, SkippedForCause,
           NEW e \in graph.edges, e.target \in settled \cup skipped
    PROVE  e.source \in settled \cup skipped \/ PastFailure(e.source)
  <1>1. e.target \in Node /\ e \in incoming(graph, e.target)
    BY DEF TypeOK, Graph, Edge, incoming
  <1>2. CASE e.target \in settled
    BY <1>1, <1>2 DEF JoinWaits, Taken
  <1>3. CASE e.target \in skipped
    BY <1>1, <1>3 DEF SkippedForCause, Dead, NotChosen, Succeeded
  <1> QED
    BY <1>2, <1>3

(* A node that is still to be decided, and a node that lies past a failure, *)
(* lead to no other node that is decided.                                  *)
LEMMA UndecidedIsClosed ==
    ASSUME TypeOK, JoinWaits, SkippedForCause, NEW n \in Node,
           n \notin settled \cup skipped \/ PastFailure(n),
           NEW m \in Downstream(graph, n)
    PROVE  m \notin settled \cup skipped \/ PastFailure(m)
  <1> DEFINE S == {x \in Node : x \notin settled \cup skipped \/ PastFailure(x)}
  <1>1. ASSUME NEW e \in graph.edges, e.source \in S
        PROVE  e.target \in S
    <2>1. e.target \in Node
      BY DEF TypeOK, Graph, Edge
    <2>2. CASE e.target \in settled \cup skipped
      BY <1>1, <2>1, <2>2, DecidedInOrder, PastFailureIsClosed
    <2> QED
      BY <2>1, <2>2
  <1>2. ClosedUnder(graph, S)
    BY <1>1 DEF ClosedUnder
  <1>3. n \in S
    OBVIOUS
  <1>4. m \in S
    <2> HIDE DEF S
    <2>1. S \in SUBSET Node
      BY DEF S
    <2> QED
      BY <1>2, <1>3, <2>1 DEF Downstream
  <1> QED
    BY <1>4

(* Nothing that an edge from a halted gate leads to has been taken, unless *)
(* the gate lay past a failure already.                                    *)
GateHolds ==
    \A g \in settled : results[g].kind = "halt" =>
        \A e \in outgoing(graph, g) : e.target \in Taken => PastFailure(g)

(* A gate that halted holds the nodes next to it. *)
THEOREM GateHoldsAlways == Spec => []GateHolds
  <1>1. Init => GateHolds
    BY DEF Init, GateHolds
  <1>2. TypeOK /\ BatchInv /\ PlacesInv /\ JoinWaits /\ GateHolds /\ [Next]_vars => GateHolds'
    <2> SUFFICES ASSUME TypeOK, BatchInv, PlacesInv, JoinWaits, GateHolds, [Next]_vars,
                        NEW g \in settled', results'[g].kind = "halt",
                        NEW e \in outgoing(graph, g)', e.target \in Taken'
                 PROVE  PastFailure(g)'
      BY DEF GateHolds
    <2>1. e \in graph.edges /\ e.source = g /\ g \in Node /\ e.target \in Node
      BY VerdictsAreFinal DEF outgoing, TypeOK, Graph, Edge
    <2>2. e \in incoming(graph, e.target) /\ e \in outgoing(graph, g)
      BY <2>1 DEF incoming, outgoing
    <2>3. CASE g \in settled
      <3>1. results[g].kind = "halt" /\ halted
        BY <2>3, VerdictsAreFinal DEF BatchInv
      <3>2. e.target \in Taken
        BY <3>1, TakenByScheduling DEF Schedule, Looping
      <3> QED
        BY <2>1, <2>2, <2>3, <3>1, <3>2, DeadStaysDead DEF GateHolds
    <2>4. CASE g \notin settled
      <3>1. g \in batch /\ ~Schedule
        <4>1. ASSUME NEW n \in Node, CollectFailed(n) \/ CollectHalt(n) \/ CollectOk(n)
              PROVE  n \in batch /\ settled' = settled \cup {n} /\ ~Schedule
          BY <4>1 DEF CollectFailed, CollectHalt, CollectOk, NextToCollect, Schedule, Looping
        <4>2. ASSUME NEW n \in Node, Start(n) \/ \E o \in Outcome : Attempt(n, o)
              PROVE  settled' = settled
          BY <4>2 DEF Start, Attempt
        <4>3. CASE Validate \/ Schedule \/ NothingReady \/ Return \/ UNCHANGED vars
          BY <2>4, <4>3 DEF Validate, Schedule, NothingReady, Return, vars
        <4> QED
          BY <2>4, <4>1, <4>2, <4>3 DEF Next, Run, Collect, Terminated
      <3>2. e.target \in Taken
        BY <3>1, TakenByScheduling
      <3>3. g \notin settled \cup skipped
        BY <2>4, <3>1 DEF PlacesInv
      <3>4. PastFailure(g)
        BY <2>1, <2>2, <3>2, <3>3 DEF JoinWaits
      <3> QED
        BY <2>1, <3>4, DeadStaysDead
    <2> QED
      BY <2>3, <2>4
  <1> QED
    BY <1>1, <1>2, TypeCorrectness, BatchCorrectness, PlacesCorrectness, JoinWaitsCorrect,
       PTL DEF Spec

(* A human approval gate is a genuine stop: nothing past it has run, except *)
(* what an earlier failure had cut loose from it.                          *)
THEOREM NothingPastTheGateCorrect == Spec => []NothingPastTheGate
  <1>1. /\ TypeOK /\ BatchInv /\ PlacesInv /\ JoinWaits /\ SkippedForCause /\ GateHolds
        => NothingPastTheGate
    <2> SUFFICES ASSUME TypeOK, BatchInv, PlacesInv, JoinWaits, SkippedForCause, GateHolds,
                        NEW g \in settled, results[g].kind = "halt",
                        NEW n \in Downstream(graph, g) \ {g}, n \in Taken
                 PROVE  \E e \in incoming(graph, n) : PastFailure(e.source)
      BY DEF NothingPastTheGate
    <2> DEFINE Cut(x) == \E e \in incoming(graph, x) : PastFailure(e.source)
               S == {x \in Node : x = g \/ x \notin Taken \cup skipped \/ Cut(x)}
    <2>1. g \in Node /\ n \in Node
      BY DownstreamFacts DEF TypeOK
    <2>2. ASSUME NEW e \in graph.edges, e.source \in S
          PROVE  e.target \in S
      <3>1. e.target \in Node /\ e \in incoming(graph, e.target) /\ e.source \in Node
        BY DEF TypeOK, Graph, Edge, incoming
      <3> SUFFICES ASSUME e.target \in Taken \cup skipped
                   PROVE  PastFailure(e.source)
        BY <3>1
      <3>2. CASE e.source = g
        <4>1. e \in outgoing(graph, g)
          BY <3>2 DEF outgoing
        <4>2. CASE e.target \in Taken
          BY <3>2, <4>1, <4>2 DEF GateHolds
        <4>3. CASE e.target \in skipped
          <5>1. g \in skipped \/ Dead(e)
            BY <3>1, <3>2, <4>3 DEF SkippedForCause
          <5>2. g \notin skipped /\ ~Succeeded(g)
            BY DEF PlacesInv, Succeeded
          <5> QED
            BY <3>2, <5>1, <5>2 DEF Dead, NotChosen
        <4> QED
          BY <4>2, <4>3
      <3>3. CASE Cut(e.source)
        <4>1. PICK d \in incoming(graph, e.source) : PastFailure(d.source)
          BY <3>3
        <4>2. d \in graph.edges /\ d.target = e.source
          BY DEF incoming
        <4> QED
          BY <4>1, <4>2, PastFailureIsClosed
      <3>4. CASE e.source \notin Taken \cup skipped
        <4>1. CASE e.target \in Taken
          BY <3>1, <3>4, <4>1 DEF JoinWaits, Taken
        <4>2. CASE e.target \in skipped
          BY <3>1, <3>4, <4>2 DEF SkippedForCause, Dead, NotChosen, Succeeded, Taken
        <4> QED
          BY <4>1, <4>2
      <3> QED
        BY <2>2, <3>2, <3>3, <3>4
    <2>3. S \in SUBSET Node /\ g \in S /\ ClosedUnder(graph, S)
      BY <2>1, <2>2 DEF ClosedUnder
    <2>4. n \in S
      <3> HIDE DEF S
      <3> QED
        BY <2>1, <2>3 DEF Downstream
    <2> QED
      BY <2>4
  <1> QED
    BY <1>1, TypeCorrectness, BatchCorrectness, PlacesCorrectness, JoinWaitsCorrect,
       SkippedForCauseCorrect, GateHoldsAlways, PTL

-----------------------------------------------------------------------------

(* What the trace says of a node is what became of it.                     *)
TraceInv ==
    /\ \A n \in Node :
          /\ trace[n] = "ok" <=> Succeeded(n)
          /\ trace[n] = "failed" <=> Failed(n)
          /\ trace[n] = "halted" <=> n \in settled /\ results[n].kind = "halt"
          /\ n \in skipped => trace[n] = "skipped"
          /\ trace[n] = "skipped" => n \in skipped \/ (phase = "returned" /\ n \in pending)
    /\ phase = "returned" => \/ status = "invalid" /\ settled = {}
                             \/ /\ status = RunStatus
                                /\ ~halted => \A n \in pending : trace[n] = "skipped"

(* And the results, the calls and the flags agree with it: a result is of  *)
(* a node in the batch or settled, a node that was called and is neither   *)
(* came after the gate that halted the run, and only gates halt.           *)
CallsInv ==
    /\ failed <=> \E n \in Node : Failed(n)
    /\ ~halted => \A n \in Node : results[n] # NoResult => n \in batch \cup settled
    /\ \A n \in Node : results[n].kind = "halt" => n \in graph.gates
    /\ \A n \in Node : attempts[n] > 0 =>
          \/ n \in batch \cup settled
          \/ \E g \in settled : results[g].kind = "halt" /\ Position[g] < Position[n]

(* The trace tells what became of each node. *)
THEOREM TraceCorrectness == Spec => []TraceInv
  <1>1. Init => TraceInv
    BY DEF Init, TraceInv, Succeeded, Failed
  <1>2. TypeOK /\ BatchInv /\ PlacesInv /\ TraceInv /\ [Next]_vars => TraceInv'
    <2> SUFFICES ASSUME TypeOK, BatchInv, PlacesInv, TraceInv, [Next]_vars
                 PROVE  TraceInv'
      OBVIOUS
    <2> USE DEF TraceInv, Succeeded, Failed
    <2>1. CASE Validate
      BY <2>1 DEF Validate, PlacesInv
    <2>2. CASE Schedule
      <3>1. Ready \subseteq pending /\ OffPath \subseteq Ready /\ phase = "loop"
        BY <2>2 DEF Schedule, Looping, Ready, OffPath
      <3>2. \A n \in Node : n \in OffPath => trace[n] = "none"
        BY <3>1 DEF PlacesInv, BatchInv, TypeOK, Outcome
      <3> QED
        BY <2>2, <3>1, <3>2 DEF Schedule, TypeOK, PlacesInv, BatchInv
    <2>3. CASE NothingReady
      <3>1. \A n \in pending : n \notin settled /\ n \notin skipped
        BY DEF BatchInv, PlacesInv
      <3>2. phase = "loop" /\ ~halted /\ phase' = "returned" /\ status' = RunStatus
        BY <2>3 DEF NothingReady, Looping
      <3>3. RunStatus' = RunStatus
        BY <2>3 DEF NothingReady, RunStatus
      <3> QED
        BY <2>3, <3>1, <3>2, <3>3 DEF NothingReady, TypeOK
    <2>4. CASE Return
      BY <2>4 DEF Return, RunStatus
    <2>5. ASSUME NEW n \in Node, Start(n)
          PROVE  TraceInv'
      <3>1. UNCHANGED <<settled, skipped, pending, trace, phase, status, halted, failed>>
        BY <2>5 DEF Start
      <3>2. \A m \in settled : results'[m] = results[m]
        BY <2>5, VerdictsAreFinal
      <3> QED
        BY <3>1, <3>2 DEF RunStatus
    <2>6. ASSUME NEW n \in Node, NEW o \in Outcome, Attempt(n, o)
          PROVE  TraceInv'
      <3>1. UNCHANGED <<settled, skipped, pending, trace, phase, status, halted, failed>>
        BY <2>6 DEF Attempt
      <3>2. \A m \in settled : results'[m] = results[m]
        BY <2>6, VerdictsAreFinal
      <3> QED
        BY <3>1, <3>2 DEF RunStatus
    <2>7. ASSUME NEW n \in Node, CollectFailed(n) \/ CollectOk(n) \/ CollectHalt(n)
          PROVE  TraceInv'
      <3>1. n \in batch /\ n \notin settled /\ n \notin skipped /\ phase = "loop"
        BY <2>7 DEF CollectFailed, CollectOk, CollectHalt, NextToCollect, PlacesInv, BatchInv, TypeOK
      <3>2. /\ settled' = settled \cup {n}
            /\ UNCHANGED <<results, skipped, pending, phase>>
        BY <2>7 DEF CollectFailed, CollectOk, CollectHalt
      <3>3. \/ results[n].kind = "failed" /\ trace' = [trace EXCEPT ![n] = "failed"]
            \/ results[n].kind = "ok" /\ trace' = [trace EXCEPT ![n] = "ok"]
            \/ results[n].kind = "halt" /\ trace' = [trace EXCEPT ![n] = "halted"]
        BY <2>7 DEF CollectFailed, CollectOk, CollectHalt
      <3> QED
        BY <3>1, <3>2, <3>3 DEF TypeOK
    <2>8. CASE UNCHANGED vars
      BY <2>8 DEF vars, RunStatus
    <2> QED
      BY <2>1, <2>2, <2>3, <2>4, <2>5, <2>6, <2>7, <2>8 DEF Next, Run, Collect, Terminated
  <1> QED
    BY <1>1, <1>2, TypeCorrectness, BatchCorrectness, PlacesCorrectness, PTL DEF Spec

(* Calls and results are as CallsInv says. *)
THEOREM CallsCorrectness == Spec => []CallsInv
  <1>1. Init => CallsInv
    BY DEF Init, CallsInv, Failed, NoResult
  <1>2. TypeOK /\ BatchInv /\ PlacesInv /\ CallsInv /\ [Next]_vars => CallsInv'
    <2> SUFFICES ASSUME TypeOK, BatchInv, PlacesInv, CallsInv, [Next]_vars
                 PROVE  CallsInv'
      OBVIOUS
    <2> USE DEF CallsInv, Failed
    <2>1. CASE Validate \/ NothingReady \/ Return \/ UNCHANGED vars
      BY <2>1 DEF Validate, NothingReady, Return, vars
    <2>2. CASE Schedule
      BY <2>2 DEF Schedule, Looping
    <2>3. ASSUME NEW n \in Node, Start(n)
          PROVE  CallsInv'
      <3>1. /\ n \in batch /\ n \notin settled /\ settled \subseteq Node
            /\ UNCHANGED <<graph, settled, batch, halted, failed>>
        BY <2>3 DEF Start, BatchInv, TypeOK
      <3>2. /\ \A m \in Node : m # n => results'[m] = results[m] /\ attempts'[m] = attempts[m]
            /\ results'[n].kind # "halt"
        BY <2>3 DEF Start, TypeOK, EmptyOutcome, NoResult
      <3> QED
        BY <3>1, <3>2
    <2>4. ASSUME NEW n \in Node, NEW o \in Outcome, Attempt(n, o)
          PROVE  CallsInv'
      <3>1. /\ n \in batch /\ n \notin settled /\ settled \subseteq Node
            /\ UNCHANGED <<graph, settled, batch, halted, failed>>
        BY <2>4 DEF Attempt, BatchInv, TypeOK
      <3>2. /\ \A m \in Node : m # n => results'[m] = results[m] /\ attempts'[m] = attempts[m]
            /\ results'[n] \in {results[n], o}
        BY <2>4 DEF Attempt, TypeOK
      <3>3. o.kind = "halt" => n \in graph.gates
        BY <2>4 DEF Attempt, Answers, EmptyOutcome
      <3> QED
        BY <3>1, <3>2, <3>3
    <2>5. ASSUME NEW n \in Node, CollectFailed(n) \/ CollectOk(n)
          PROVE  CallsInv'
      <3>1. /\ n \in batch /\ settled' = settled \cup {n} /\ batch' = batch \ {n}
            /\ UNCHANGED <<graph, results, attempts, halted>>
            /\ failed' = (failed \/ results[n].kind = "failed")
        BY <2>5 DEF CollectFailed, CollectOk, NextToCollect, TypeOK
      <3> QED
        BY <3>1
    <2>6. ASSUME NEW n \in Node, CollectHalt(n)
          PROVE  CallsInv'
      <3>1. /\ n \in batch /\ settled' = settled \cup {n} /\ halted'
            /\ results[n].kind = "halt"
            /\ UNCHANGED <<graph, results, attempts, failed>>
        BY <2>6 DEF CollectHalt, NextToCollect
      <3>2. \A m \in batch : m = n \/ Position[n] < Position[m]
        <4> SUFFICES ASSUME NEW m \in batch, m # n
                     PROVE  Position[n] < Position[m]
          OBVIOUS
        <4>1. m \in Node /\ Position[n] <= Position[m]
          BY <2>6 DEF CollectHalt, NextToCollect, TypeOK
        <4>2. Position[n] \in Int /\ Position[m] \in Int /\ Position[m] # Position[n]
          BY <4>1, PositionAssumption
        <4> QED
          BY <4>1, <4>2
      <3> QED
        BY <3>1, <3>2
    <2> QED
      BY <2>1, <2>2, <2>3, <2>4, <2>5, <2>6 DEF Next, Run, Collect, Terminated
  <1> QED
    BY <1>1, <1>2, TypeCorrectness, BatchCorrectness, PlacesCorrectness, PTL DEF Spec

(* A run that returned after it was validated, with no gate that halted it, *)
(* traced each of its nodes, and a run of the whole graph decided each.    *)
LEMMA ReturnedWhole ==
    ASSUME PlacesInv, TraceInv, phase = "returned", status \in {"completed", "failed"}
    PROVE  /\ ~halted /\ status = RunStatus /\ batch = {}
           /\ scope = pending \cup settled \cup skipped
           /\ \A n \in pending : trace[n] = "skipped"
  <1>1. status = RunStatus /\ ~halted
    BY DEF TraceInv, RunStatus
  <1> QED
    BY <1>1 DEF PlacesInv, TraceInv

(* When a run of the whole graph stops with nodes pending, each waits for  *)
(* another: that is a cycle, and a graph with one is refused.              *)
StopsForCause ==
    (phase = "returned" /\ status # "invalid" /\ ~halted /\ scope = graph.nodes)
        => pending = {}

(* The loop is never left with nodes pending that could have run. *)
THEOREM StopsForCauseAlways == Spec => []StopsForCause
  <1>1. Init => StopsForCause
    BY DEF Init, StopsForCause
  <1>2. TypeOK /\ BatchInv /\ PlacesInv /\ StopsForCause /\ [Next]_vars => StopsForCause'
    <2> SUFFICES ASSUME TypeOK, BatchInv, PlacesInv, StopsForCause, [Next]_vars
                 PROVE  StopsForCause'
      OBVIOUS
    <2>1. CASE NothingReady
      <3> SUFFICES ASSUME scope = graph.nodes PROVE FALSE
        BY <2>1 DEF NothingReady, StopsForCause
      <3>1. /\ pending # {} /\ Ready = {} /\ ~halted /\ batch = {}
            /\ NoBlockingProblem(graph)
        BY <2>1 DEF NothingReady, Looping, PlacesInv
      <3>2. ASSUME NEW n \in pending
            PROVE  \E e \in incoming(graph, n) : e.source \in pending
        <4>1. PICK e \in incoming(graph, n) : e \in live /\ e.source \notin settled \cup skipped
          BY <3>1 DEF Ready, DependenciesSettled
        <4>2. e.source \in graph.nodes
          BY <3>1 DEF NoBlockingProblem, incoming
        <4> QED
          BY <3>1, <4>1, <4>2 DEF PlacesInv
      <3>3. pending \in SUBSET graph.nodes
        BY DEF PlacesInv
      <3>4. HasCycle(graph)
        BY <3>1, <3>2, <3>3 DEF HasCycle
      <3> QED
        BY <3>1, <3>4 DEF NoBlockingProblem
    <2>2. CASE Return
      BY <2>2 DEF Return, StopsForCause
    <2>3. CASE Validate
      BY <2>3 DEF Validate, StopsForCause
    <2>4. CASE Schedule
      BY <2>4 DEF Schedule, Looping, StopsForCause
    <2>5. ASSUME NEW n \in Node, Run(n) \/ Collect(n)
          PROVE  StopsForCause'
      <3>1. phase = "loop" /\ phase' = phase
        BY <2>5 DEF Run, Collect, Start, Attempt, CollectFailed, CollectHalt, CollectOk,
                    NextToCollect, PlacesInv, BatchInv, TypeOK
      <3> QED
        BY <3>1 DEF StopsForCause
    <2>6. CASE UNCHANGED vars
      BY <2>6 DEF vars, StopsForCause
    <2> QED
      BY <2>1, <2>2, <2>3, <2>4, <2>5, <2>6 DEF Next, Terminated
  <1> QED
    BY <1>1, <1>2, TypeCorrectness, BatchCorrectness, PlacesCorrectness, PTL DEF Spec

(* The result accounts for every node, and reports completion exactly when *)
(* nothing that ran failed.                                                *)
THEOREM ResultIsCompleteCorrect == Spec => []ResultIsComplete
  <1>1. /\ TypeOK /\ BatchInv /\ PlacesInv /\ TraceInv /\ CallsInv /\ StopsForCause
        => ResultIsComplete
    <2> SUFFICES ASSUME TypeOK, BatchInv, PlacesInv, TraceInv, CallsInv, StopsForCause,
                        phase = "returned"
                 PROVE  ResultIsComplete
      BY DEF ResultIsComplete
    <2>1. ASSUME status \in {"completed", "failed"}
          PROVE  /\ scope = graph.nodes => scope = settled \cup skipped
                 /\ \A n \in scope : trace[n] # "none"
                 /\ status = "completed" <=> \A n \in Node : results[n].kind # "failed"
      <3>1. /\ ~halted /\ status = RunStatus /\ batch = {}
            /\ scope = pending \cup settled \cup skipped
            /\ \A n \in pending : trace[n] = "skipped"
        BY <2>1, ReturnedWhole
      <3>2. scope = graph.nodes => scope = settled \cup skipped
        BY <2>1, <3>1 DEF StopsForCause
      <3>3. ASSUME NEW n \in settled
            PROVE  trace[n] # "none"
        BY DEF TraceInv, BatchInv, Outcome, TypeOK, Succeeded, Failed
      <3>4. \A n \in skipped : trace[n] # "none"
        BY DEF TraceInv, TypeOK
      <3>5. status = "completed" <=> ~failed
        BY <3>1 DEF RunStatus
      <3>6. failed <=> \E n \in Node : results[n].kind = "failed"
        BY <3>1 DEF CallsInv, Failed, NoResult
      <3> QED
        BY <3>1, <3>2, <3>3, <3>4, <3>5, <3>6
    <2>2. ASSUME NEW n \in Node, attempts[n] > 0, trace[n] = "none"
          PROVE  \E g \in settled : results[g].kind = "halt" /\ Position[g] < Position[n]
      <3>1. n \notin settled
        BY <2>2 DEF TraceInv, BatchInv, Outcome, Succeeded, Failed
      <3>2. n \notin batch
        BY DEF PlacesInv
      <3> QED
        BY <2>2, <3>1, <3>2 DEF CallsInv
    <2> QED
      BY <2>1, <2>2 DEF ResultIsComplete
  <1> QED
    BY <1>1, TypeCorrectness, BatchCorrectness, PlacesCorrectness, TraceCorrectness,
       CallsCorrectness, StopsForCauseAlways, PTL

(* The result can be relied on: nothing ran past a gate that stopped the    *)
(* run, and the status and the trace say all that did run.                 *)
THEOREM ResultIsTrueCorrect == Spec => []ResultIsTrue
  BY NothingPastTheGateCorrect, ResultIsCompleteCorrect, PTL DEF ResultIsTrue

(* The Studio never shows a run as having gone where it did not go.        *)
THEOREM DrawnAsItRanCorrect == Spec => []DrawnAsItRan
  <1>1. /\ TypeOK /\ BatchInv /\ PlacesInv /\ TraceInv /\ CallsInv
        /\ LiveEdgesAreThoseNotDead /\ RunsOnChosenPath /\ ResultIsComplete
        => DrawnAsItRan
    <2> SUFFICES ASSUME TypeOK, BatchInv, PlacesInv, TraceInv, CallsInv,
                        LiveEdgesAreThoseNotDead, RunsOnChosenPath, ResultIsComplete,
                        phase = "returned"
                 PROVE  DrawnAsItRan
      BY DEF DrawnAsItRan
    <2> USE DEF Shown, Rows
    <2>1. \A n \in Node : Shown(n) = "ok" <=> Succeeded(n)
      BY DEF TraceInv
    <2>2. ASSUME NEW e \in graph.edges, Tint(e) # "none"
          PROVE  ~NotChosen(e) /\ (e \in live \/ PastFailure(e.source))
      <3>1. e.source \in Node /\ e.target \in Node /\ e \in incoming(graph, e.target)
        BY DEF TypeOK, Graph, Edge, incoming
      <3>2. /\ Succeeded(e.source) /\ Certain(e)
            /\ Shown(e.target) = "ok" \/ Shown(e.target) = "failed"
        BY <2>1, <2>2, <3>1 DEF Tint
      <3>3. e.target \in Taken
        BY <3>1, <3>2 DEF TraceInv, Succeeded, Failed, Taken
      <3>4. PICK o \in incoming(graph, e.target) : Succeeded(o.source) /\ ~NotChosen(o)
        BY <3>1, <3>3 DEF RunsOnChosenPath
      <3>5. ~NotChosen(e)
        <4> SUFFICES ASSUME NotChosen(e) PROVE FALSE
          OBVIOUS
        <4>1. o \in incoming(graph, e.target) \ {e} /\ o.source \in Node
          BY <3>1, <3>4, EdgeEnds
        <4>2. OtherLiveParent(e)
          BY <2>1, <3>4, <4>1 DEF OtherLiveParent
        <4>3. e.branch = NoBranch /\ e.source \in graph.branching
          BY <3>2, <4>2 DEF Certain, NotChosen
        <4>4. NoBlockingProblem(graph)
          BY <3>2 DEF PlacesInv, TraceInv, RunStatus, Succeeded
        <4>5. e.source \in graph.branching \cap graph.nodes /\ e \in outgoing(graph, e.source)
          BY <4>3, <4>4 DEF NoBlockingProblem, outgoing
        <4> QED
          BY <4>3, <4>4, <4>5 DEF NoBlockingProblem
      <3>6. e \in live \/ PastFailure(e.source)
        BY <3>5 DEF LiveEdgesAreThoseNotDead, Dead
      <3> QED
        BY <3>5, <3>6
    <2>3. ASSUME OutcomeTile = "Completed"
          PROVE  NodesRan \cup NodesSkipped = scope
      <3>1. status = "completed"
        BY <2>3 DEF OutcomeTile
      <3>2. ~halted /\ ~failed /\ \A n \in scope : trace[n] # "none"
        BY <3>1, ReturnedWhole DEF RunStatus, ResultIsComplete
      <3>3. \A n \in scope : trace[n] = "ok" \/ trace[n] = "skipped"
        BY <3>2 DEF TraceInv, CallsInv, BatchInv, TypeOK
      <3>4. \A n \in Node : trace[n] \in {"ok", "skipped"} => n \in scope
        BY DEF TraceInv, PlacesInv, Succeeded
      <3>5. scope \subseteq Node
        BY DEF TypeOK
      <3> QED
        BY <3>2, <3>3, <3>4, <3>5 DEF NodesRan, NodesSkipped
    <2>4. ASSUME OutcomeTile = "Awaiting approval"
          PROVE  \E n \in graph.gates : Shown(n) = "halted"
      <3>1. status = "awaiting_approval"
        BY <2>4 DEF OutcomeTile
      <3>2. halted
        BY <3>1 DEF TraceInv, RunStatus
      <3>3. PICK g \in settled : results[g].kind = "halt"
        BY <3>2 DEF PlacesInv
      <3>4. g \in Node /\ g \in graph.gates
        BY <3>3 DEF CallsInv, TypeOK
      <3>5. trace[g] = "halted"
        BY <3>3, <3>4 DEF TraceInv
      <3> QED
        BY <3>4, <3>5
    <2>5. ASSUME OutcomeTile = "Failed"
          PROVE  \E n \in Node : Shown(n) = "failed"
      <3>1. status \notin {"completed", "awaiting_approval", "invalid"}
        BY <2>5 DEF OutcomeTile
      <3>2. failed
        BY <3>1 DEF TraceInv, RunStatus
      <3> QED
        BY <3>2 DEF CallsInv, TraceInv
    <2> QED
      BY <2>2, <2>3, <2>4, <2>5 DEF DrawnAsItRan
  <1> QED
    BY <1>1, TypeCorrectness, BatchCorrectness, PlacesCorrectness, TraceCorrectness,
       CallsCorrectness, LiveEdgesCorrect, RunsOnChosenPathCorrect,
       ResultIsCompleteCorrect, PTL

-----------------------------------------------------------------------------

(* The nodes of the batch are on a live path and stay on it until they are *)
(* collected: what is decided meanwhile cuts no edge that leads to them.   *)
BatchOnLivePath == \A n \in batch : OnLivePath(n)

(* What the loop decides about a batch it decides before the batch runs.   *)
THEOREM BatchStaysOnLivePath == Spec => []BatchOnLivePath
  <1>1. Init => BatchOnLivePath
    BY DEF Init, BatchOnLivePath
  <1>2. /\ TypeOK /\ BatchInv /\ PlacesInv /\ JoinWaits /\ SkippedForCause
        /\ LiveEdgesAreThoseNotDead /\ BatchOnLivePath /\ [Next]_vars
        => BatchOnLivePath'
    <2> SUFFICES ASSUME TypeOK, BatchInv, PlacesInv, JoinWaits, SkippedForCause,
                        LiveEdgesAreThoseNotDead, BatchOnLivePath, [Next]_vars,
                        NEW n \in batch', incoming(graph, n) # {}
                 PROVE  \E e \in incoming(graph, n) : e \in live' /\ e.source \in settled'
      BY VerdictsAreFinal DEF BatchOnLivePath, OnLivePath
    <2>1. ASSUME live' = live, batch' \subseteq batch
          PROVE  \E e \in incoming(graph, n) : e \in live' /\ e.source \in settled'
      BY <2>1, VerdictsAreFinal DEF BatchOnLivePath, OnLivePath
    <2>2. CASE Validate \/ NothingReady \/ Return \/ UNCHANGED vars
      BY <2>1, <2>2 DEF Validate, NothingReady, Return, vars
    <2>3. CASE Schedule
      BY <2>3 DEF Schedule, OffPath, OnLivePath
    <2>4. ASSUME NEW m \in Node, Start(m) \/ \E o \in Outcome : Attempt(m, o)
          PROVE  \E e \in incoming(graph, n) : e \in live' /\ e.source \in settled'
      BY <2>1, <2>4 DEF Start, Attempt
    <2>5. ASSUME NEW m \in Node, CollectHalt(m)
          PROVE  FALSE
      BY <2>5 DEF CollectHalt
    <2>6. ASSUME NEW m \in Node, CollectFailed(m) \/ CollectOk(m)
          PROVE  \E e \in incoming(graph, n) : e \in live' /\ e.source \in settled'
      <3>1. /\ m \in batch /\ n \in batch /\ settled' = settled \cup {m}
            /\ m \notin settled \cup skipped
        BY <2>6 DEF CollectFailed, CollectOk, NextToCollect, BatchInv, PlacesInv
      <3>2. PICK e \in incoming(graph, n) : e \in live /\ e.source \in settled
        BY <3>1 DEF BatchOnLivePath, OnLivePath
      <3>3. e \in graph.edges /\ ~PastFailure(e.source)
        BY <3>2 DEF incoming, LiveEdgesAreThoseNotDead, Dead
      <3>4. CASE CollectFailed(m)
        <4>1. e.source \notin Downstream(graph, m)
          BY <3>1, <3>2, <3>3, UndecidedIsClosed
        <4> QED
          BY <3>1, <3>2, <3>4, <4>1 DEF CollectFailed
      <3>5. CASE CollectOk(m)
        <4>1. e.source # m
          BY <3>1, <3>2
        <4> QED
          BY <3>1, <3>2, <3>5, <4>1 DEF CollectOk, Unchosen, outgoing
      <3> QED
        BY <2>6, <3>4, <3>5
    <2> QED
      BY <2>2, <2>3, <2>4, <2>5, <2>6 DEF Next, Run, Collect, Terminated
  <1> QED
    BY <1>1, <1>2, TypeCorrectness, BatchCorrectness, PlacesCorrectness, JoinWaitsCorrect,
       SkippedForCauseCorrect, LiveEdgesCorrect, PTL DEF Spec

(* The abstract run reads the same graph the same way. *)
LEMMA AbstractReadsTheGraph ==
    ASSUME TypeOK, BatchInv, PlacesInv
    PROVE  /\ \A n \in Node : Abstract!incoming(graph, n) = incoming(graph, n)
           /\ Abstract!NoBlockingProblem(graph) <=> NoBlockingProblem(graph)
           /\ \A n \in Node : Abstract!Succeeded(n) <=> Succeeded(n)
           /\ \A e \in graph.edges : Abstract!Dead(e) <=> Dead(e)
           /\ \A n \in Node : Verdicts[n] # Abstract!Waiting <=> n \in settled \cup skipped
           /\ Abstract!Halted => halted
           /\ halted => Abstract!Halted
  <1>1. \A n \in Node : Abstract!incoming(graph, n) = incoming(graph, n)
    BY DEF Abstract!incoming, incoming
  <1>2. \A n \in Node : Abstract!Downstream(graph, n) = Downstream(graph, n)
    BY DEF Abstract!Downstream, Downstream, Abstract!ClosedUnder, ClosedUnder
  <1>3. Abstract!NoBlockingProblem(graph) <=> NoBlockingProblem(graph)
    BY DEF Abstract!NoBlockingProblem, NoBlockingProblem, Abstract!HasCycle, HasCycle,
           Abstract!incoming, incoming, Abstract!outgoing, outgoing
  <1>4. ASSUME NEW n \in Node
        PROVE  /\ n \in settled => Verdicts[n] = results[n] /\ results[n] \in Outcome
               /\ n \in skipped => Verdicts[n].kind = "skipped" /\ n \notin settled
               /\ n \notin settled \cup skipped => Verdicts[n] = Abstract!Waiting
    BY DEF Verdicts, Abstract!Waiting, BatchInv, PlacesInv
  <1>5. ASSUME NEW n \in Node
        PROVE  /\ Abstract!Succeeded(n) <=> Succeeded(n)
               /\ Abstract!Failed(n) <=> Failed(n)
               /\ Verdicts[n] # Abstract!Waiting <=> n \in settled \cup skipped
    BY <1>4 DEF Abstract!Succeeded, Succeeded, Abstract!Failed, Failed, Abstract!Waiting,
                Outcome
  <1>6. ASSUME NEW e \in graph.edges
        PROVE  Abstract!Dead(e) <=> Dead(e)
    <2>1. e.source \in Node
      BY DEF TypeOK, Graph, Edge
    <2>2. graph.nodes \subseteq Node /\ settled \subseteq graph.nodes
      BY DEF TypeOK, Graph, PlacesInv
    <2>3. PastFailure(e.source) <=>
            \E f \in graph.nodes : Abstract!Failed(f)
                                   /\ e.source \in Abstract!Downstream(graph, f)
      BY <1>2, <1>5, <2>2 DEF PastFailure, Failed
    <2>4. NotChosen(e) <=> /\ Abstract!Succeeded(e.source)
                           /\ e.source \in graph.branching
                           /\ e.branch # Verdicts[e.source].branch
      BY <1>4, <1>5, <2>1 DEF NotChosen, Succeeded
    <2> QED
      BY <2>3, <2>4 DEF Dead, Abstract!Dead
  <1>7. Abstract!Halted <=> halted
    <2>1. graph.nodes \subseteq Node /\ settled \subseteq graph.nodes
      BY DEF TypeOK, Graph, PlacesInv
    <2>2. \A n \in Node : Verdicts[n].kind = "halt" <=> n \in settled /\ results[n].kind = "halt"
      BY <1>4 DEF Abstract!Waiting
    <2> QED
      BY <2>1, <2>2 DEF Abstract!Halted, BatchInv, PlacesInv
  <1> QED
    BY <1>1, <1>3, <1>5, <1>6, <1>7

(* The engine is a run of the abstract workflow: one by one, in dependency *)
(* order, each node gets its verdict, whatever the batches, the limiter    *)
(* and the retries do.                                                     *)
THEOREM EngineImplementsWorkflowRun == Spec => ImplementsWorkflowRun
  <1>1. Init => Abstract!Init
    <2> SUFFICES ASSUME Init PROVE Abstract!Init
      OBVIOUS
    <2>1. Verdicts = [n \in Node |-> Abstract!Waiting]
      BY DEF Init, Verdicts, Abstract!Waiting
    <2> QED
      BY <2>1 DEF Init, Abstract!Init
  <1>2. /\ TypeOK /\ BatchInv /\ PlacesInv /\ JoinWaits /\ LiveEdgesAreThoseNotDead
        /\ BatchOnLivePath /\ [Next]_vars
        => [Abstract!Next]_<<graph, scope, Verdicts, phase = "returned">>
    <2> SUFFICES ASSUME TypeOK, BatchInv, PlacesInv, JoinWaits, LiveEdgesAreThoseNotDead,
                        BatchOnLivePath, [Next]_vars
                 PROVE  Abstract!Next \/ UNCHANGED <<graph, scope, Verdicts, phase = "returned">>
      OBVIOUS
    <2>1. CASE UNCHANGED vars
      BY <2>1 DEF vars, Verdicts
    <2>2. ASSUME NEW n \in Node, Start(n) \/ \E o \in Outcome : Attempt(n, o)
          PROVE  UNCHANGED <<graph, scope, Verdicts, phase = "returned">>
      <3>1. UNCHANGED <<graph, scope, phase, settled, skipped>>
        BY <2>2 DEF Start, Attempt
      <3>2. \A m \in settled : results'[m] = results[m]
        BY <2>2, VerdictsAreFinal
      <3> QED
        BY <3>1, <3>2 DEF Verdicts
    <2>3. CASE Validate
      <3>1. UNCHANGED <<graph, scope, Verdicts>> /\ phase = "new"
        BY <2>3 DEF Validate, Verdicts
      <3>2. CASE NoBlockingProblem(graph)
        BY <2>3, <3>1, <3>2 DEF Validate
      <3>3. CASE ~NoBlockingProblem(graph)
        <4>1. ~(phase = "returned") /\ (phase = "returned")' = TRUE
          BY <2>3, <3>1, <3>3 DEF Validate
        <4> QED
          BY <3>1, <3>3, <4>1, AbstractReadsTheGraph DEF Abstract!Next, Abstract!Return
      <3> QED
        BY <3>2, <3>3
    <2>4. CASE NothingReady \/ Return
      <3>1. /\ UNCHANGED <<graph, scope, Verdicts>> /\ phase = "loop"
            /\ phase' = "returned" /\ batch = {}
        BY <2>4 DEF NothingReady, Return, Looping, Verdicts
      <3>2. CASE halted
        BY <3>1, <3>2, AbstractReadsTheGraph DEF Abstract!Next, Abstract!Return
      <3>3. CASE ~halted
        <4>1. ASSUME NEW n \in scope, Abstract!Due(n)
              PROVE  FALSE
          <5>1. n \in Node /\ n \notin settled \cup skipped
            BY <4>1, AbstractReadsTheGraph DEF Abstract!Due, TypeOK
          <5>2. n \in pending
            BY <3>1, <3>3, <5>1 DEF PlacesInv
          <5>3. Ready = {}
            BY <2>4, <3>3, <5>2 DEF NothingReady, Return
          <5>4. ASSUME NEW e \in incoming(graph, n), e \in live
                PROVE  e.source \in settled \cup skipped
            <6>1. e \in graph.edges /\ e.source \in Node /\ ~Dead(e)
              BY <5>1, <5>4, EdgeEnds DEF LiveEdgesAreThoseNotDead
            <6> QED
              BY <4>1, <5>1, <6>1, AbstractReadsTheGraph DEF Abstract!Due
          <5> QED
            BY <5>2, <5>3, <5>4 DEF Ready, DependenciesSettled
        <4> QED
          BY <3>1, <4>1 DEF Abstract!Next, Abstract!Return
      <3> QED
        BY <3>2, <3>3
    <2>5. CASE Schedule
      <3>1. /\ phase = "loop" /\ phase' = phase /\ ~halted /\ OffPath \subseteq pending
            /\ skipped' = skipped \cup OffPath
            /\ UNCHANGED <<graph, scope, settled, results>>
        BY <2>5 DEF Schedule, Looping, OffPath, Ready
      <3>2. CASE OffPath = {}
        BY <3>1, <3>2 DEF Verdicts
      <3>3. CASE OffPath # {}
        <4>1. OffPath \in SUBSET scope /\ OffPath \subseteq Node
              /\ OffPath \cap (settled \cup skipped) = {}
          BY <3>1 DEF PlacesInv, BatchInv, TypeOK
        <4>2. Verdicts' = [n \in Node |-> IF n \in OffPath THEN Abstract!Skipped ELSE Verdicts[n]]
          BY <3>1, <4>1 DEF Verdicts, Abstract!Skipped
        <4>3. ASSUME NEW n \in OffPath
              PROVE  Abstract!Due(n) /\ ~Abstract!Arrived(n)
          <5>1. n \in Node /\ n \in scope /\ Verdicts[n] = Abstract!Waiting
            BY <4>1, AbstractReadsTheGraph
          <5>2. /\ incoming(graph, n) # {}
                /\ \A e \in incoming(graph, n) :
                      e \in live => e.source \in skipped /\ e.source \notin settled
            BY DEF OffPath, Ready, DependenciesSettled, OnLivePath
          <5>3. ASSUME NEW e \in incoming(graph, n)
                PROVE  /\ Abstract!Dead(e) \/ Verdicts[e.source] # Abstract!Waiting
                       /\ Abstract!Dead(e) \/ ~Abstract!Succeeded(e.source)
            <6>1. e \in graph.edges /\ e.source \in Node
              BY <5>1, EdgeEnds
            <6>2. Dead(e) \/ (e.source \in skipped /\ ~Succeeded(e.source))
              BY <5>2, <6>1 DEF LiveEdgesAreThoseNotDead, Succeeded
            <6> QED
              BY <6>1, <6>2, AbstractReadsTheGraph
          <5> QED
            BY <5>1, <5>2, <5>3, AbstractReadsTheGraph DEF Abstract!Due, Abstract!Arrived
        <4>4. Abstract!Skip(OffPath)
          BY <3>1, <3>3, <4>2, <4>3, AbstractReadsTheGraph DEF Abstract!Skip
        <4> QED
          BY <4>1, <4>4 DEF Abstract!Next
      <3> QED
        BY <3>2, <3>3
    <2>6. ASSUME NEW n \in Node, Collect(n)
          PROVE  Abstract!Next
      <3>1. /\ n \in batch /\ settled' = settled \cup {n} /\ results[n] \in Outcome
            /\ UNCHANGED <<graph, scope, phase, skipped, results>>
        BY <2>6 DEF Collect, CollectFailed, CollectHalt, CollectOk, NextToCollect, TypeOK
      <3>2. n \notin settled \cup skipped /\ phase = "loop" /\ ~halted /\ n \in scope
        BY <3>1 DEF BatchInv, PlacesInv, TypeOK
      <3>3. Verdicts' = [Verdicts EXCEPT ![n] = results[n]]
        BY <3>1, <3>2 DEF Verdicts
      <3>4. ASSUME NEW e \in incoming(graph, n)
            PROVE  Abstract!Dead(e) \/ Verdicts[e.source] # Abstract!Waiting
        <4>1. e \in graph.edges /\ e.source \in Node
          BY EdgeEnds
        <4>2. e.source \in settled \cup skipped \/ Dead(e)
          BY <3>1 DEF JoinWaits, Taken, Dead
        <4> QED
          BY <4>1, <4>2, AbstractReadsTheGraph
      <3>5. Abstract!Due(n)
        BY <3>2, <3>4, AbstractReadsTheGraph DEF Abstract!Due
      <3>6. Abstract!Arrived(n)
        <4>1. CASE incoming(graph, n) = {}
          BY <4>1, AbstractReadsTheGraph DEF Abstract!Arrived
        <4>2. CASE incoming(graph, n) # {}
          <5>1. PICK e \in incoming(graph, n) : e \in live /\ e.source \in settled
            BY <3>1, <4>2 DEF BatchOnLivePath, OnLivePath
          <5>2. e \in graph.edges /\ e.source \in Node /\ ~Dead(e)
            BY <5>1, EdgeEnds DEF LiveEdgesAreThoseNotDead
          <5>3. ~Failed(e.source)
            BY <5>2, DownstreamFacts DEF Dead, PastFailure
          <5>4. Succeeded(e.source)
            BY <3>2, <5>1, <5>3 DEF BatchInv, Failed, Succeeded, Outcome
          <5> QED
            BY <5>2, <5>4, AbstractReadsTheGraph DEF Abstract!Arrived
        <4> QED
          BY <4>1, <4>2
      <3>7. Abstract!Settle(n, results[n])
        BY <3>1, <3>2, <3>3, <3>5, <3>6, AbstractReadsTheGraph DEF Abstract!Settle
      <3>8. results[n] \in Abstract!Outcome
        BY <3>1 DEF Outcome, Abstract!Outcome
      <3> QED
        BY <3>7, <3>8 DEF Abstract!Next
    <2> QED
      BY <2>1, <2>2, <2>3, <2>4, <2>5, <2>6 DEF Next, Run, Terminated
  <1> QED
    BY <1>1, <1>2, TypeCorrectness, BatchCorrectness, PlacesCorrectness, JoinWaitsCorrect,
       LiveEdgesCorrect, BatchStaysOnLivePath, PTL
    DEF Spec, ImplementsWorkflowRun, Abstract!Spec, Abstract!vars

-----------------------------------------------------------------------------
(* The Studio. *)

Status == {"draft", "deployed", "retired"}

Contents == Name \cup Definition \cup Workflow \cup BOOLEAN \cup Nat \cup Status

Writes == UNION {[cells -> Contents] : cells \in SUBSET Cell}

Ops == {"none", "create", "duplicate", "update", "delete", "restore", "compile",
        "edit", "deploy", "retire", "run", "test"}

Places == {"idle", "claim", "version", "incumbents", "live", "number", "flush",
           "tail", "append", "commit"}

Requests == [op : Ops, pc : Places, w : Workflow \cup {Null}, v : Version \cup {Null},
             n : Name \cup {Null}, d : Definition \cup {Null}, writes : Writes]

(* What a column may hold. *)
Fits(c, x) ==
    /\ c[2] = "name" => x \in Name
    /\ c[2] = "deleted" => x \in BOOLEAN
    /\ c[2] \in {"draft", "definition"} => x \in Definition
    /\ c[2] = "of" => x \in Workflow /\ Exists(x)
    /\ c[2] = "number" => x \in Nat
    /\ c[2] = "status" => x \in Status

Present(v) == db[<<v, "of">>] # Null

DeployEntry(v) == \E i \in 1..Len(trail) : trail[i].op = "deploy" /\ trail[i].v = v

(* What a request is going to write: columns typed, *)
Typed(r) ==
    /\ r \in Requests
    /\ \A c \in DOMAIN r.writes : Fits(c, r.writes[c])

(* of a workflow that is there or of a whole new row, *)
OfWorkflows(r) ==
    LET D == DOMAIN r.writes
    IN \A w \in Workflow :
          /\ <<w, "name">> \in D \/ <<w, "deleted">> \in D \/ <<w, "draft">> \in D =>
                Exists(w) \/ {w} \X {"name", "deleted", "draft"} \subseteq D
          /\ <<w, "name">> \in D => RowsOf(D) = {w}

(* of a new version, numbered at most by how many there are, *)
OfNewVersion(r) ==
    LET f == r.writes
    IN \A v \in Version :
          <<v, "of">> \in DOMAIN f \/ <<v, "number">> \in DOMAIN f =>
              /\ DOMAIN f = {v} \X {"of", "number", "status", "definition"}
              /\ ~Present(v) /\ r.v = v /\ r.op = "compile"
              /\ f[<<v, "status">>] = "draft"
              /\ f[<<v, "number">>] <= Cardinality(VersionsOf(f[<<v, "of">>]))

(* and of versions that are there. *)
OfVersions(r) ==
    LET f == r.writes
        D == DOMAIN r.writes
    IN \A v \in Version :
          /\ <<v, "status">> \in D \/ <<v, "definition">> \in D =>
                Present(v) \/ <<v, "of">> \in D
          /\ <<v, "status">> \in D =>
                /\ r.op \in {"deploy", "retire"} \/ <<v, "of">> \in D
                /\ f[<<v, "status">>] = "deployed" => r.op = "deploy" /\ r.v = v
                /\ r.op = "deploy" => db[<<v, "of">>] = r.w
                /\ r.op = "retire" => r.v = v

Sound(r) == Typed(r) /\ OfWorkflows(r) /\ OfNewVersion(r) /\ OfVersions(r)

(* Where a request is, and what it has found by then. *)
Placed(r) ==
    /\ r.pc \in {"idle", "version", "incumbents", "live", "number"} => DOMAIN r.writes = {}
    /\ r.pc = "idle" => r.op = "none"
    /\ r.pc = "claim" =>
          /\ r.op \in {"create", "duplicate", "update"} /\ r.n \in Name
          /\ r.op # "update" => r.d \in Definition
    /\ r.pc = "version" => r.op \in {"edit", "deploy", "retire"}
    /\ r.pc = "incumbents" => r.op = "deploy"
    /\ r.pc = "live" => r.op \in {"delete", "run"}
    /\ r.pc = "number" => r.op = "compile" /\ r.d \in Definition
    /\ r.pc = "flush" => r.op # "run"
    /\ r.pc \in {"tail", "append"} => Audited(r.op)
    /\ r.op \in {"update", "delete", "restore", "compile", "edit", "deploy", "retire", "run", "test"}
          => r.w \in Workflow /\ Exists(r.w)
    /\ r.op \in {"edit", "deploy", "retire"} => r.v \in Version /\ db[<<r.v, "of">>] = r.w
    /\ r.op = "edit" => r.d \in Definition
    /\ r.op = "deploy" /\ DOMAIN r.writes # {} =>
          <<r.v, "status">> \in DOMAIN r.writes /\ r.writes[<<r.v, "status">>] = "deployed"
    /\ r.op = "run" /\ r.pc = "commit" => r.v \in Version /\ DeployEntry(r.v)
    /\ r.op = "test" => r.v = Null

(* Entries are appended last, one by each request that is audited. *)
Counted(r, n) ==
    /\ n \in {0, 1}
    /\ r.pc # "commit" => n = 0
    /\ r.pc = "commit" /\ Audited(r.op) => n = 1

RequestInv ==
    /\ req \in [Req -> Requests] /\ appended \in [Req -> Nat]
    /\ \A t \in Req : Sound(req[t]) /\ Placed(req[t]) /\ Counted(req[t], appended[t])

(* The id of a version not yet there is one request's only. *)
Drawn(r, s) == \A v \in Version : <<v, "of">> \in DOMAIN r.writes => s.v # v

Written(r) == r.pc \in {"tail", "append", "commit"}

(* The keys a request has written are free of what is committed. *)
KeysFree(r) ==
    LET f == r.writes
        D == DOMAIN r.writes
    IN Written(r) =>
       /\ \A w, x \in Workflow : <<w, "name">> \in D /\ x # w => NameOf(x) # f[<<w, "name">>]
       /\ \A v, x \in Version :
             <<v, "number">> \in D /\ db[<<x, "of">>] = f[<<v, "of">>]
                 => db[<<x, "number">>] # f[<<v, "number">>]

(* And of what another has written. *)
KeysApart(r, s) ==
    Written(r) /\ Written(s) =>
       /\ \A w, x \in Workflow :
             <<w, "name">> \in DOMAIN r.writes /\ <<x, "name">> \in DOMAIN s.writes
                 => r.writes[<<w, "name">>] # s.writes[<<x, "name">>]
       /\ \A v, x \in Version :
             /\ <<v, "number">> \in DOMAIN r.writes /\ <<x, "number">> \in DOMAIN s.writes
             /\ r.writes[<<v, "of">>] = s.writes[<<x, "of">>]
             => r.writes[<<v, "number">>] # s.writes[<<x, "number">>]

ClaimInv ==
    /\ \A t \in Req : KeysFree(req[t])
    /\ \A t, u \in Req : t # u => Drawn(req[t], req[u]) /\ KeysApart(req[t], req[u])

TrailInv ==
    /\ trail \in Seq([op : Ops, v : Version \cup {Null}])
    /\ \A v \in Version : StatusOf(v) = "deployed" => DeployEntry(v)

(* The inductive invariant: committed rows, requests, and the keys they hold. *)
StudioInv == StudioTypeOK /\ RequestInv /\ ClaimInv /\ TrailInv
             /\ NamesAreAddresses /\ NumbersAreASequence /\ LiveRunsWereDeployed

-----------------------------------------------------------------------------
(* A step of one request that commits nothing. *)
Private(t, r) ==
    /\ req' = [req EXCEPT ![t] = r]
    /\ UNCHANGED <<db, runs, trail, entries>>
    /\ appended' \in [Req -> Nat] /\ \A u \in Req \ {t} : appended'[u] = appended[u]
    /\ Sound(r) /\ Placed(r) /\ Counted(r, appended'[t]) /\ KeysFree(r)
    /\ \A u \in Req \ {t} : Drawn(r, req[u]) /\ Drawn(req[u], r) /\ KeysApart(r, req[u])

(* Such a step leaves everything in order. *)
LEMMA PrivateStep ==
    ASSUME StudioInv, NEW t \in Req, NEW r, Private(t, r)
    PROVE  StudioInv'
  <1>1. /\ req'[t] = r /\ \A u \in Req \ {t} : req'[u] = req[u]
        /\ r \in Requests /\ req' \in [Req -> Requests]
    BY DEF Private, StudioInv, RequestInv, Sound, Typed
  <1>2. /\ db' = db /\ runs' = runs /\ trail' = trail /\ entries' = entries
        /\ StudioTypeOK' /\ TrailInv' /\ NamesAreAddresses' /\ NumbersAreASequence'
        /\ LiveRunsWereDeployed'
    <2>1. db' = db /\ runs' = runs /\ trail' = trail /\ entries' = entries
      BY DEF Private
    <2>2. StudioTypeOK'
      BY <2>1 DEF StudioInv, StudioTypeOK, NameOf, Draft, Exists, StatusOf, DefinitionOf
    <2>3. TrailInv'
      BY <2>1 DEF StudioInv, TrailInv, StatusOf, DeployEntry
    <2>4. NamesAreAddresses'
      BY <2>1 DEF StudioInv, NamesAreAddresses, NameOf, Exists
    <2>5. NumbersAreASequence'
      BY <2>1 DEF StudioInv, NumbersAreASequence, VersionsOf
    <2>6. LiveRunsWereDeployed'
      BY <2>1 DEF StudioInv, LiveRunsWereDeployed
    <2> QED
      BY <2>1, <2>2, <2>3, <2>4, <2>5, <2>6
  <1>3. \A u \in Req : Sound(req'[u]) /\ Placed(req'[u]) /\ Counted(req'[u], appended'[u])
    BY <1>1 DEF Private, StudioInv, RequestInv
  <1>4. \A u \in Req : Sound(req[u])' /\ Placed(req[u])' /\ Counted(req[u], appended[u])'
    <2>1. ASSUME NEW u \in Req
          PROVE  Sound(req[u])'
      <3>1. Sound(req'[u])
        BY <1>3
      <3>2. Typed(req[u])'
        BY <1>2, <3>1 DEF Sound, Typed, Fits, Exists
      <3>3. OfWorkflows(req[u])'
        BY <1>2, <3>1 DEF Sound, OfWorkflows, Exists
      <3>4. OfNewVersion(req[u])'
        BY <1>2, <3>1 DEF Sound, OfNewVersion, Present, VersionsOf
      <3>5. OfVersions(req[u])'
        BY <1>2, <3>1 DEF Sound, OfVersions, Present
      <3> QED
        BY <3>2, <3>3, <3>4, <3>5 DEF Sound
    <2>2. ASSUME NEW u \in Req
          PROVE  Placed(req[u])'
      BY <1>2, <1>3 DEF Placed, Exists, DeployEntry
    <2>3. ASSUME NEW u \in Req
          PROVE  Counted(req[u], appended[u])'
      BY <1>3 DEF Counted
    <2> QED
      BY <2>1, <2>2, <2>3
  <1>5. RequestInv'
    BY <1>1, <1>4 DEF RequestInv, Private
  <1>6. ASSUME NEW u \in Req
        PROVE  KeysFree(req[u])'
    <2>1. KeysFree(req'[u])
      BY <1>1 DEF Private, StudioInv, ClaimInv
    <2> QED
      BY <1>2, <2>1 DEF KeysFree, Written, NameOf
  <1>7. ASSUME NEW u \in Req, NEW x \in Req, u # x
        PROVE  (Drawn(req[u], req[x]) /\ KeysApart(req[u], req[x]))'
    <2>1. Drawn(req'[u], req'[x]) /\ KeysApart(req'[u], req'[x])
      <3>1. CASE u # t /\ x # t
        BY <1>1, <1>7, <3>1 DEF StudioInv, ClaimInv
      <3>2. CASE u = t
        BY <1>1, <1>7, <3>2 DEF Private
      <3>3. CASE x = t
        <4>1. Drawn(req'[u], req'[x]) /\ KeysApart(req'[x], req'[u])
          BY <1>1, <1>7, <3>3 DEF Private
        <4> QED
          BY <4>1 DEF KeysApart
      <3> QED
        BY <3>1, <3>2, <3>3
    <2> QED
      BY <2>1 DEF Drawn, KeysApart, Written
  <1> QED
    BY <1>2, <1>5, <1>6, <1>7 DEF StudioInv, ClaimInv

-----------------------------------------------------------------------------
(* Nothing is in order. *)
LEMMA NothingIsSound ==
    ASSUME NEW r \in Requests, DOMAIN r.writes = {}
    PROVE  Sound(r)
  BY DEF Sound, Typed, OfWorkflows, OfNewVersion, OfVersions

(* A request that has asked for nothing yet. *)
LEMMA IdleFields ==
    /\ Idle \in Requests /\ DOMAIN Idle.writes = {}
    /\ Idle.op = "none" /\ Idle.pc = "idle" /\ Idle.v = Null
  <1>1. [c \in {} |-> Null] \in Writes
    <2>1. [c \in {} |-> Null] \in [{} -> Contents]
      OBVIOUS
    <2> QED
      BY <2>1 DEF Writes
  <1> QED
    BY <1>1 DEF Idle, Requests, Ops, Places

(* A request goes on, and has flushed nothing. *)
GoesOn(t, r) ==
    /\ req[t].pc # "commit" /\ req' = [req EXCEPT ![t] = r]
    /\ UNCHANGED <<db, runs, trail, appendVars>>
    /\ Sound(r) /\ Placed(r)
    /\ r.pc = "commit" => ~Audited(r.op)
    /\ Written(r) => DOMAIN r.writes = {}
    /\ \A u \in Req \ {t} : Drawn(r, req[u])
    /\ \/ r.v = req[t].v \/ r.v = Null
       \/ r.v \in Version /\ (\/ Present(r.v)
                              \/ \A u \in Req \ {t} : <<r.v, "of">> \notin DOMAIN req[u].writes)

(* Then everything stays in order. *)
LEMMA Onward ==
    ASSUME StudioInv, NEW t \in Req, NEW r, GoesOn(t, r)
    PROVE  StudioInv'
  <1> USE DEF GoesOn
  <1>1. /\ appended' = appended /\ entries' = entries /\ appended \in [Req -> Nat]
        /\ appended[t] = 0
    BY DEF appendVars, StudioInv, RequestInv, Counted
  <1>2. Counted(r, appended'[t])
    BY <1>1 DEF Counted
  <1>3. KeysFree(r) /\ \A u \in Req : KeysApart(r, req[u])
    BY DEF KeysFree, KeysApart
  <1>4. ASSUME NEW u \in Req \ {t}
        PROVE  Drawn(req[u], r)
    <2> SUFFICES ASSUME NEW v \in Version, <<v, "of">> \in DOMAIN req[u].writes
                 PROVE  r.v # v
      BY DEF Drawn
    <2>1. req[t].v # v
      BY DEF StudioInv, ClaimInv, Drawn
    <2>2. ~Present(v)
      BY DEF StudioInv, RequestInv, Sound, OfNewVersion
    <2>3. v # Null
      BY StudioAssumption
    <2> QED
      BY <2>1, <2>2, <2>3
  <1>5. Private(t, r)
    BY <1>1, <1>2, <1>3, <1>4 DEF Private
  <1> QED
    BY <1>5, PrivateStep

(* A request arrives and has nothing to write yet. *)
Arriving(t, r) ==
    /\ Begin(t, r) /\ r \in Requests /\ DOMAIN r.writes = {} /\ Placed(r)
    /\ r.pc = "commit" => ~Audited(r.op)
    /\ r.v # Null => r.v \in Version /\ Present(r.v)

(* Then everything stays in order. *)
LEMMA Arrives ==
    ASSUME StudioInv, NEW t \in Req, NEW r, Arriving(t, r)
    PROVE  StudioInv'
  <1> USE DEF Arriving
  <1>1. /\ req[t].pc # "commit" /\ req' = [req EXCEPT ![t] = r]
        /\ UNCHANGED <<db, runs, trail, appendVars>>
    BY DEF Begin
  <1>2. Sound(r) /\ \A u \in Req \ {t} : Drawn(r, req[u])
    BY NothingIsSound DEF Drawn
  <1> QED
    BY <1>1, <1>2, Onward DEF GoesOn

(* Each operation arrives in order. *)
LEMMA Arrivals ==
    ASSUME StudioInv, NEW t \in Req, Arrive(t)
    PROVE  StudioInv'
  <1> USE IdleFields
  <1>1. \A w \in Workflow : Exists(w) => Draft(w) \in Definition /\ NameOf(w) \in Name
    BY DEF StudioInv, StudioTypeOK, Exists
  <1>2. ASSUME NEW n \in Name, NEW d \in Definition, CreateWorkflow(t, n, d)
        PROVE  StudioInv'
    <2> DEFINE r == [Asks("create", "claim") EXCEPT !.n = n, !.d = d]
    <2>1. /\ r \in Requests /\ DOMAIN r.writes = {} /\ r.v = Null
          /\ r.op = "create" /\ r.pc = "claim" /\ r.n = n /\ r.d = d
      BY DEF Asks, Requests, Ops, Places
    <2>2. Begin(t, r)
      BY <1>2 DEF CreateWorkflow
    <2> HIDE DEF r
    <2>3. Placed(r)
      BY <2>1 DEF Placed
    <2> QED
      BY <2>1, <2>2, <2>3, Arrives DEF Arriving
  <1>3. ASSUME NEW w \in Workflow, NEW n \in Name, DuplicateWorkflow(t, w, n)
        PROVE  StudioInv'
    <2> DEFINE r == [Asks("duplicate", "claim") EXCEPT !.n = n, !.d = Draft(w)]
    <2>1. /\ r \in Requests /\ DOMAIN r.writes = {} /\ r.v = Null
          /\ r.op = "duplicate" /\ r.pc = "claim" /\ r.n = n /\ r.d \in Definition
      BY <1>1, <1>3 DEF DuplicateWorkflow, Visible, Asks, Requests, Ops, Places
    <2>2. Begin(t, r)
      BY <1>3 DEF DuplicateWorkflow
    <2> HIDE DEF r
    <2>3. Placed(r)
      BY <2>1 DEF Placed
    <2> QED
      BY <2>1, <2>2, <2>3, Arrives DEF Arriving
  <1>4. ASSUME NEW w \in Workflow, DeleteWorkflow(t, w)
        PROVE  StudioInv'
    <2> DEFINE r == [Asks("delete", "live") EXCEPT !.w = w]
    <2>1. /\ r \in Requests /\ DOMAIN r.writes = {} /\ r.v = Null
          /\ r.op = "delete" /\ r.pc = "live" /\ r.w = w
      BY DEF Asks, Requests, Ops, Places
    <2>2. Begin(t, r) /\ Exists(w)
      BY <1>4 DEF DeleteWorkflow, Visible
    <2> HIDE DEF r
    <2>3. Placed(r)
      BY <2>1, <2>2 DEF Placed
    <2> QED
      BY <2>1, <2>2, <2>3, Arrives DEF Arriving
  <1>5. ASSUME NEW w \in Workflow, CompileWorkflow(t, w)
        PROVE  StudioInv'
    <2> DEFINE r == [Asks("compile", "number") EXCEPT !.w = w, !.d = Draft(w)]
    <2>1. Begin(t, r) /\ Exists(w)
      BY <1>5 DEF CompileWorkflow, Visible
    <2>2. /\ r \in Requests /\ DOMAIN r.writes = {} /\ r.v = Null
          /\ r.op = "compile" /\ r.pc = "number" /\ r.w = w /\ r.d \in Definition
      BY <1>1, <2>1 DEF Asks, Requests, Ops, Places
    <2> HIDE DEF r
    <2>3. Placed(r)
      BY <2>1, <2>2 DEF Placed
    <2> QED
      BY <2>1, <2>2, <2>3, Arrives DEF Arriving
  <1>6. ASSUME NEW w \in Workflow, RunDraft(t, w)
        PROVE  StudioInv'
    <2> DEFINE r == [Asks("test", "commit") EXCEPT !.w = w, !.d = Draft(w)]
    <2>1. Begin(t, r) /\ Exists(w)
      BY <1>6 DEF RunDraft, Visible
    <2>2. /\ r \in Requests /\ DOMAIN r.writes = {} /\ r.v = Null
          /\ r.op = "test" /\ r.pc = "commit" /\ r.w = w
      BY <1>1, <2>1 DEF Asks, Requests, Ops, Places
    <2> HIDE DEF r
    <2>3. Placed(r) /\ ~Audited(r.op)
      BY <2>1, <2>2 DEF Placed, Audited
    <2> QED
      BY <2>1, <2>2, <2>3, Arrives DEF Arriving
  <1>7. ASSUME NEW n \in Name, RunDeployed(t, n)
        PROVE  StudioInv'
    <2>1. PICK w \in Workflow : Visible(w) /\ Begin(t, [Asks("run", "live") EXCEPT !.w = w])
      BY <1>7 DEF RunDeployed
    <2> DEFINE r == [Asks("run", "live") EXCEPT !.w = w]
    <2>2. /\ r \in Requests /\ DOMAIN r.writes = {} /\ r.v = Null
          /\ r.op = "run" /\ r.pc = "live" /\ r.w = w /\ Begin(t, r) /\ Exists(w)
      BY <2>1 DEF Asks, Requests, Ops, Places, Visible
    <2> HIDE DEF r
    <2>3. Placed(r)
      BY <2>1, <2>2 DEF Placed
    <2> QED
      BY <2>2, <2>3, Arrives DEF Arriving
  <1>8. ASSUME NEW v \in Version, NEW op \in {"edit", "deploy", "retire"},
               NEW d \in Definition \cup {Null}, op = "edit" => d \in Definition,
               AskVersion(t, op, v, d)
        PROVE  StudioInv'
    <2> DEFINE r == [Asks(op, "version") EXCEPT !.w = db[<<v, "of">>], !.v = v, !.d = d]
    <2>1. PICK w \in Workflow : Visible(w) /\ db[<<v, "of">>] = w
      BY <1>8 DEF AskVersion, VersionsOf
    <2>2. /\ r \in Requests /\ DOMAIN r.writes = {} /\ r.v = v
          /\ r.op = op /\ r.pc = "version" /\ r.w = w /\ r.d = d
      BY <2>1 DEF Asks, Requests, Ops, Places
    <2>3. Begin(t, r) /\ Exists(w)
      BY <1>8, <2>1 DEF AskVersion, Visible
    <2> HIDE DEF r
    <2>4. Placed(r)
      BY <1>8, <2>1, <2>2, <2>3 DEF Placed
    <2>5. Present(r.v)
      BY <2>1, <2>2, StudioAssumption DEF Present
    <2> QED
      BY <2>2, <2>3, <2>4, <2>5, Arrives DEF Arriving
  <1>9. ASSUME NEW w \in Workflow, RestoreWorkflow(t, w)
        PROVE  StudioInv'
    <2> DEFINE f == [c \in {<<w, "deleted">>} |-> FALSE]
               r == [Asks("restore", "flush") EXCEPT !.w = w, !.writes = f]
    <2>1. f \in Writes /\ DOMAIN f = {<<w, "deleted">>} /\ f[<<w, "deleted">>] = FALSE
      <3>1. {<<w, "deleted">>} \in SUBSET Cell
        BY DEF Cell
      <3>2. f \in Writes
        <4>1. f \in [{<<w, "deleted">>} -> Contents]
          BY DEF Contents
        <4> QED
          BY <3>1, <4>1 DEF Writes
      <3> QED
        BY <3>1, <3>2
    <2> HIDE DEF f
    <2>2. /\ r \in Requests /\ r.writes = f /\ r.v = Null
          /\ r.op = "restore" /\ r.pc = "flush" /\ r.w = w
      BY <2>1 DEF Asks, Requests, Ops, Places
    <2>3. Begin(t, r) /\ Exists(w)
      BY <1>9 DEF RestoreWorkflow, f
    <2> HIDE DEF r
    <2>4. Placed(r)
      BY <2>1, <2>2, <2>3 DEF Placed
    <2>5. Sound(r)
      <3>1. Typed(r)
        <4>1. Fits(<<w, "deleted">>, FALSE)
          BY DEF Fits
        <4> QED
          BY <2>1, <2>2, <4>1 DEF Typed
      <3>2. OfWorkflows(r)
        BY <2>1, <2>2, <2>3 DEF OfWorkflows
      <3>3. OfNewVersion(r) /\ OfVersions(r)
        BY <2>1, <2>2 DEF OfNewVersion, OfVersions
      <3> QED
        BY <3>1, <3>2, <3>3 DEF Sound
    <2>6. \A u \in Req \ {t} : Drawn(r, req[u])
      BY <2>1, <2>2 DEF Drawn
    <2> QED
      BY <2>2, <2>3, <2>4, <2>5, <2>6, Onward DEF GoesOn, Begin, Written
  <1>10. ASSUME NEW w \in Workflow, NEW n \in Name \cup {Null}, NEW d \in Definition \cup {Null},
                UpdateWorkflow(t, w, n, d)
         PROVE  StudioInv'
    <2> DEFINE renamed == n \notin {Null, NameOf(w)}
               named == IF renamed THEN {<<w, "name">>} ELSE {}
               drawn == IF d # Null THEN {<<w, "draft">>} ELSE {}
               f == [c \in named \cup drawn |-> IF c[2] = "name" THEN n ELSE d]
               pc == IF renamed THEN "claim" ELSE "flush"
               q == Asks("update", pc)
               r == [q EXCEPT !.w = w, !.n = n, !.d = d, !.writes = f]
    <2>1. /\ f \in Writes /\ DOMAIN f \subseteq {<<w, "name">>, <<w, "draft">>}
          /\ <<w, "name">> \in DOMAIN f => f[<<w, "name">>] \in Name
          /\ <<w, "draft">> \in DOMAIN f => f[<<w, "draft">>] \in Definition
      <3>1. named \cup drawn \in SUBSET Cell /\ named \cup drawn \subseteq {<<w, "name">>, <<w, "draft">>}
        BY DEF Cell
      <3>2. \A c \in named \cup drawn : \/ c = <<w, "name">> /\ n \in Name
                                        \/ c = <<w, "draft">> /\ d \in Definition
        OBVIOUS
      <3>3. f \in [named \cup drawn -> Contents] /\ DOMAIN f = named \cup drawn
        BY <3>2 DEF Contents
      <3>4. f \in Writes
        BY <3>1, <3>3 DEF Writes
      <3>5. /\ <<w, "name">> \in DOMAIN f => f[<<w, "name">>] \in Name
            /\ <<w, "draft">> \in DOMAIN f => f[<<w, "draft">>] \in Definition
        BY <3>2, <3>3
      <3> QED
        BY <3>1, <3>3, <3>4, <3>5
    <2>2. Begin(t, r) /\ Exists(w)
      BY <1>10 DEF UpdateWorkflow, Visible
    <2>9. pc \in {"claim", "flush"} /\ (pc = "claim" => n \in Name)
      OBVIOUS
    <2> HIDE DEF f, pc
    <2>3. /\ r \in Requests /\ r.writes = f /\ r.v = Null /\ r.op = "update" /\ r.w = w
          /\ r.pc = pc /\ r.n = n
      <3>1. q \in Requests /\ q.op = "update" /\ q.pc = pc /\ q.v = Null
        BY <2>9 DEF Asks, Requests, Ops, Places
      <3> HIDE DEF q
      <3> QED
        BY <2>1, <3>1 DEF Requests
    <2> HIDE DEF r
    <2>4. Placed(r)
      BY <2>2, <2>3, <2>9 DEF Placed
    <2>5. Typed(r)
      BY <2>1, <2>3 DEF Typed, Fits
    <2>6. OfWorkflows(r)
      BY <2>1, <2>2, <2>3 DEF OfWorkflows, RowsOf
    <2>7. OfNewVersion(r) /\ OfVersions(r)
      BY <2>1, <2>3 DEF OfNewVersion, OfVersions
    <2>8. \A u \in Req \ {t} : Drawn(r, req[u])
      BY <2>1, <2>3 DEF Drawn
    <2> QED
      BY <2>2, <2>3, <2>4, <2>5, <2>6, <2>7, <2>8, <2>9, Onward DEF GoesOn, Begin, Written, Sound
  <1> QED
    BY <1>2, <1>3, <1>4, <1>5, <1>6, <1>7, <1>8, <1>9, <1>10
       DEF Arrive, DeployVersion, RetireVersion, EditVersion

-----------------------------------------------------------------------------
(* A request that is refused has changed nothing. *)
LEMMA Refusals ==
    ASSUME StudioInv, NEW t \in Req, Refuse(t)
    PROVE  StudioInv'
  <1> USE IdleFields
  <1>1. /\ req' = [req EXCEPT ![t] = Idle] /\ appended' = [appended EXCEPT ![t] = 0]
        /\ UNCHANGED <<db, runs, trail, entries>> /\ appended \in [Req -> Nat]
    BY DEF Refuse, EntriesRolledBack, StudioInv, RequestInv
  <1>2. /\ appended' \in [Req -> Nat] /\ appended'[t] = 0
        /\ \A u \in Req \ {t} : appended'[u] = appended[u]
    BY <1>1
  <1>3. Sound(Idle) /\ Placed(Idle) /\ Counted(Idle, appended'[t]) /\ KeysFree(Idle)
    BY <1>2, NothingIsSound DEF Placed, Counted, KeysFree, Written
  <1>4. ASSUME NEW u \in Req \ {t}
        PROVE  Drawn(Idle, req[u]) /\ Drawn(req[u], Idle) /\ KeysApart(Idle, req[u])
    BY StudioAssumption DEF Drawn, KeysApart, Written
  <1>5. Private(t, Idle)
    BY <1>1, <1>2, <1>3, <1>4 DEF Private
  <1> QED
    BY <1>5, PrivateStep

(* A name is looked up, and a workflow's id drawn. *)
LEMMA Claims ==
    ASSUME StudioInv, NEW t \in Req, ClaimName(t)
    PROVE  StudioInv'
  <1> DEFINE q == req[t]
  <1>1. /\ q \in Requests /\ Sound(q) /\ Placed(q) /\ q.pc = "claim"
        /\ \A u \in Req \ {t} : Drawn(q, req[u])
    BY DEF ClaimName, StudioInv, RequestInv, ClaimInv
  <1>2. CASE Held(t) /\ Refuse(t)
    BY <1>2, Refusals
  <1>3. CASE q.op = "update" /\ Proceed(t, [q EXCEPT !.pc = "flush"])
    <2> DEFINE r == [q EXCEPT !.pc = "flush"]
    <2>1. /\ r \in Requests /\ r.pc = "flush" /\ r.op = q.op /\ r.w = q.w /\ r.v = q.v
          /\ r.writes = q.writes
      BY <1>1 DEF Requests, Places
    <2>2. Proceed(t, r)
      BY <1>3
    <2> HIDE DEF r
    <2>3. Placed(r)
      BY <1>1, <1>3, <2>1 DEF Placed
    <2>4. Sound(r)
      BY <1>1, <2>1 DEF Sound, Typed, OfWorkflows, OfNewVersion, OfVersions
    <2>5. \A u \in Req \ {t} : Drawn(r, req[u])
      BY <1>1, <2>1 DEF Drawn
    <2> QED
      BY <1>1, <2>1, <2>2, <2>3, <2>4, <2>5, Onward DEF GoesOn, Proceed, Written
  <1>4. ASSUME q.op # "update", NEW w \in FreshIds(Workflow),
               Proceed(t, [q EXCEPT !.pc = "flush", !.w = w,
                    !.writes = [c \in {w} \X {"name", "deleted", "draft"} |->
                                   CASE c[2] = "name" -> q.n
                                     [] c[2] = "deleted" -> FALSE
                                     [] c[2] = "draft" -> q.d]])
        PROVE  StudioInv'
    <2> DEFINE cells == {w} \X {"name", "deleted", "draft"}
               f == [c \in cells |-> CASE c[2] = "name" -> q.n
                                       [] c[2] = "deleted" -> FALSE
                                       [] c[2] = "draft" -> q.d]
               r == [q EXCEPT !.pc = "flush", !.w = w, !.writes = f]
    <2>1. w \in Workflow /\ q.n \in Name /\ q.d \in Definition /\ q.op \in {"create", "duplicate"}
      BY <1>1, <1>4 DEF FreshIds, Placed
    <2>2. /\ DOMAIN f = cells
          /\ f[<<w, "name">>] = q.n /\ f[<<w, "deleted">>] = FALSE /\ f[<<w, "draft">>] = q.d
      OBVIOUS
    <2>3. f \in Writes
      <3>1. cells \in SUBSET Cell
        BY <2>1 DEF Cell
      <3>2. f \in [cells -> Contents]
        BY <2>1 DEF Contents
      <3> QED
        BY <3>1, <3>2 DEF Writes
    <2>4. Proceed(t, r)
      BY <1>4
    <2> HIDE DEF f
    <2>5. /\ r \in Requests /\ r.pc = "flush" /\ r.op = q.op /\ r.v = q.v /\ r.writes = f
      BY <1>1, <2>1, <2>3 DEF Requests, Places
    <2> HIDE DEF r
    <2>6. Placed(r)
      BY <2>1, <2>5 DEF Placed
    <2>7. Typed(r)
      <3>1. \A c \in cells : c = <<w, "name">> \/ c = <<w, "deleted">> \/ c = <<w, "draft">>
        OBVIOUS
      <3>2. /\ Fits(<<w, "name">>, q.n) /\ Fits(<<w, "deleted">>, FALSE)
            /\ Fits(<<w, "draft">>, q.d)
        BY <2>1 DEF Fits
      <3> QED
        BY <2>2, <2>5, <3>1, <3>2 DEF Typed
    <2>8. OfWorkflows(r)
      BY <2>2, <2>5 DEF OfWorkflows, RowsOf
    <2>9. OfNewVersion(r) /\ OfVersions(r)
      BY <2>2, <2>5 DEF OfNewVersion, OfVersions
    <2>10. \A u \in Req \ {t} : Drawn(r, req[u])
      BY <2>2, <2>5 DEF Drawn
    <2> QED
      BY <1>1, <2>4, <2>5, <2>6, <2>7, <2>8, <2>9, <2>10, Onward
         DEF GoesOn, Proceed, Written, Sound
  <1> QED
    BY <1>2, <1>3, <1>4 DEF ClaimName

(* A version is read: what is written next is its own row's. *)
LEMMA Reads ==
    ASSUME StudioInv, NEW t \in Req, ReadVersion(t)
    PROVE  StudioInv'
  <1> DEFINE q == req[t]
  <1>1. /\ q \in Requests /\ Sound(q) /\ Placed(q) /\ q.pc = "version"
        /\ q.v \in Version /\ db[<<q.v, "of">>] = q.w /\ q.w \in Workflow
        /\ Present(q.v) /\ DOMAIN q.writes \subseteq Cell
    <2>1. q \in Requests /\ Sound(q) /\ Placed(q) /\ q.pc = "version"
      BY DEF ReadVersion, StudioInv, RequestInv
    <2>2. q.v \in Version /\ db[<<q.v, "of">>] = q.w /\ q.w \in Workflow
      BY <2>1 DEF Placed
    <2>3. Present(q.v)
      BY <2>2, StudioAssumption DEF Present
    <2>4. q.writes \in Writes
      BY <2>1 DEF Requests
    <2> QED
      BY <2>1, <2>2, <2>3, <2>4 DEF Writes
  <1>2. ASSUME NEW f, f \in Writes, NEW r, r = [q EXCEPT !.pc = "flush", !.writes = f],
               Proceed(t, r), \A c \in DOMAIN f : Fits(c, f[c]),
               \/ q.op = "edit" /\ DOMAIN f = {<<q.v, "definition">>}
               \/ q.op = "retire" /\ DOMAIN f = {<<q.v, "status">>} /\ f[<<q.v, "status">>] = "retired"
        PROVE  StudioInv'
    <2>1. /\ r \in Requests /\ r.pc = "flush" /\ r.op = q.op /\ r.v = q.v /\ r.w = q.w
          /\ r.d = q.d /\ r.writes = f
      BY <1>1, <1>2 DEF Requests, Places
    <2>2. Placed(r)
      BY <1>1, <1>2, <2>1 DEF Placed
    <2>3. Typed(r) /\ OfWorkflows(r)
      BY <1>2, <2>1 DEF Typed, OfWorkflows
    <2>4. OfNewVersion(r) /\ OfVersions(r)
      BY <1>1, <1>2, <2>1 DEF OfNewVersion, OfVersions
    <2>5. \A u \in Req \ {t} : Drawn(r, req[u])
      BY <1>2, <2>1 DEF Drawn
    <2> QED
      BY <1>1, <1>2, <2>1, <2>2, <2>3, <2>4, <2>5, Onward DEF GoesOn, Proceed, Written, Sound
  <1>3. CASE q.op = "edit" /\ Proceed(t, [q EXCEPT !.pc = "flush",
                               !.writes = [c \in {<<q.v, "definition">>} |-> q.d]])
    <2> DEFINE f == [c \in {<<q.v, "definition">>} |-> q.d]
    <2>1. q.d \in Definition
      BY <1>1, <1>3 DEF Placed
    <2>2. {<<q.v, "definition">>} \in SUBSET Cell /\ f \in [{<<q.v, "definition">>} -> Contents]
      BY <1>1, <2>1 DEF Cell, Contents
    <2>3. f \in Writes /\ DOMAIN f = {<<q.v, "definition">>} /\ \A c \in DOMAIN f : Fits(c, f[c])
      BY <2>1, <2>2 DEF Writes, Fits
    <2> HIDE DEF f
    <2> QED
      BY <1>2, <1>3, <2>3 DEF f
  <1>4. CASE q.op = "retire" /\ Proceed(t, [q EXCEPT !.pc = "flush",
                               !.writes = SetStatus({q.v}, "retired")])
    <2> DEFINE f == [c \in {<<q.v, "status">>} |-> "retired"]
    <2>1. {<<q.v, "status">>} \in SUBSET Cell /\ f \in [{<<q.v, "status">>} -> Contents]
      BY <1>1 DEF Cell, Contents, Status
    <2>2. f \in Writes /\ DOMAIN f = {<<q.v, "status">>} /\ f[<<q.v, "status">>] = "retired"
          /\ \A c \in DOMAIN f : Fits(c, f[c])
      BY <2>1 DEF Writes, Fits, Status
    <2>3. SetStatus({q.v}, "retired") = f
      <3>1. {q.v} \X {"status"} = {<<q.v, "status">>}
        OBVIOUS
      <3> QED
        BY <3>1 DEF SetStatus
    <2> HIDE DEF f
    <2> QED
      BY <1>2, <1>4, <2>2, <2>3
  <1>5. ASSUME q.op = "deploy", NEW pc \in {"incumbents", "tail"},
               Proceed(t, [q EXCEPT !.pc = pc])
        PROVE  StudioInv'
    <2> DEFINE r == [q EXCEPT !.pc = pc]
    <2>1. /\ r \in Requests /\ r.pc = pc /\ r.op = q.op /\ r.v = q.v /\ r.w = q.w
          /\ r.writes = q.writes /\ Proceed(t, r)
      BY <1>1, <1>5 DEF Requests, Places
    <2> HIDE DEF r
    <2>2. DOMAIN r.writes = {}
      BY <1>1, <2>1 DEF Placed
    <2>3. Placed(r)
      BY <1>1, <1>5, <2>1 DEF Placed, Audited
    <2>4. Sound(r) /\ \A u \in Req \ {t} : Drawn(r, req[u])
      BY <2>1, <2>2, NothingIsSound DEF Drawn
    <2> QED
      BY <1>1, <1>5, <2>1, <2>2, <2>3, <2>4, Onward DEF GoesOn, Proceed, Written
  <1> QED
    BY <1>3, <1>4, <1>5, Refusals DEF ReadVersion

-----------------------------------------------------------------------------
(* The version promoted and the incumbents are the workflow's. *)
LEMMA Incumbents ==
    ASSUME StudioInv, NEW t \in Req, ReadIncumbents(t)
    PROVE  StudioInv'
  <1> DEFINE q == req[t]
             rows == Deployed(q.w) \cup {q.v}
             f == [c \in rows \X {"status"} |-> IF c[1] = q.v THEN "deployed" ELSE "retired"]
             r == [q EXCEPT !.pc = "flush", !.writes = f]
  <1>1. /\ q \in Requests /\ Placed(q) /\ q.pc = "incumbents" /\ Proceed(t, r)
        /\ q.op = "deploy" /\ q.v \in Version /\ db[<<q.v, "of">>] = q.w /\ q.w \in Workflow
    BY DEF ReadIncumbents, StudioInv, RequestInv, Placed
  <1>2. /\ rows \subseteq Version /\ q.v \in rows
        /\ \A v \in rows : db[<<v, "of">>] = q.w /\ Present(v)
    BY <1>1, StudioAssumption DEF Deployed, VersionsOf, Present
  <1>3. /\ f \in Writes /\ DOMAIN f = rows \X {"status"}
        /\ \A v \in rows : f[<<v, "status">>] = IF v = q.v THEN "deployed" ELSE "retired"
        /\ \A c \in DOMAIN f : c[1] \in rows /\ c[2] = "status" /\ f[c] \in Status
    <2>1. rows \X {"status"} \in SUBSET Cell
      BY <1>2 DEF Cell
    <2>2. f \in [rows \X {"status"} -> Contents]
      BY DEF Contents, Status
    <2>3. f \in Writes
      BY <2>1, <2>2 DEF Writes
    <2> QED
      BY <2>3 DEF Status
  <1> HIDE DEF f, rows
  <1>4. /\ r \in Requests /\ r.pc = "flush" /\ r.op = q.op /\ r.v = q.v /\ r.w = q.w
        /\ r.writes = f
    BY <1>1, <1>3 DEF Requests, Places
  <1> HIDE DEF r
  <1>5. Placed(r)
    BY <1>1, <1>2, <1>3, <1>4 DEF Placed
  <1>6. Typed(r) /\ OfWorkflows(r)
    BY <1>3, <1>4 DEF Typed, OfWorkflows, Fits
  <1>7. OfNewVersion(r) /\ OfVersions(r)
    BY <1>1, <1>2, <1>3, <1>4 DEF OfNewVersion, OfVersions
  <1>8. \A u \in Req \ {t} : Drawn(r, req[u])
    BY <1>3, <1>4 DEF Drawn
  <1> QED
    BY <1>1, <1>4, <1>5, <1>6, <1>7, <1>8, Onward DEF GoesOn, Proceed, Written, Sound

(* What runs was deployed; a workflow is marked deleted. *)
LEMMA Lives ==
    ASSUME StudioInv, NEW t \in Req, ReadLive(t)
    PROVE  StudioInv'
  <1> DEFINE q == req[t]
             deployed == Deployed(q.w)
  <1>1. /\ q \in Requests /\ Placed(q) /\ q.pc = "live" /\ DOMAIN q.writes = {}
        /\ q.w \in Workflow /\ Exists(q.w)
    BY DEF ReadLive, StudioInv, RequestInv, Placed
  <1>2. CASE q.op = "delete" /\ Proceed(t, [q EXCEPT !.pc = "flush",
                               !.writes = [c \in {<<q.w, "deleted">>} |-> TRUE]])
    <2> DEFINE f == [c \in {<<q.w, "deleted">>} |-> TRUE]
               r == [q EXCEPT !.pc = "flush", !.writes = f]
    <2>1. {<<q.w, "deleted">>} \in SUBSET Cell /\ f \in [{<<q.w, "deleted">>} -> Contents]
      BY <1>1 DEF Cell, Contents
    <2>2. f \in Writes /\ DOMAIN f = {<<q.w, "deleted">>} /\ \A c \in DOMAIN f : Fits(c, f[c])
      <3>1. f \in Writes /\ DOMAIN f = {<<q.w, "deleted">>} /\ f[<<q.w, "deleted">>] = TRUE
        BY <2>1 DEF Writes
      <3>2. Fits(<<q.w, "deleted">>, TRUE)
        BY DEF Fits
      <3> HIDE DEF f
      <3> QED
        BY <3>1, <3>2
    <2>3. Proceed(t, r)
      BY <1>2
    <2> HIDE DEF f
    <2>4. /\ r \in Requests /\ r.pc = "flush" /\ r.op = q.op /\ r.v = q.v /\ r.w = q.w
          /\ r.writes = f
      BY <1>1, <2>2 DEF Requests, Places
    <2> HIDE DEF r
    <2>5. Placed(r)
      BY <1>1, <1>2, <2>4 DEF Placed
    <2>6. Typed(r) /\ OfWorkflows(r)
      BY <1>1, <2>2, <2>4 DEF Typed, OfWorkflows
    <2>7. OfNewVersion(r) /\ OfVersions(r) /\ \A u \in Req \ {t} : Drawn(r, req[u])
      BY <2>2, <2>4 DEF OfNewVersion, OfVersions, Drawn
    <2> QED
      BY <1>1, <2>3, <2>4, <2>5, <2>6, <2>7, Onward DEF GoesOn, Proceed, Written, Sound
  <1>3. ASSUME q.op = "run", NEW v \in deployed,
               Proceed(t, [q EXCEPT !.pc = "commit", !.v = v, !.d = DefinitionOf(v)])
        PROVE  StudioInv'
    <2> DEFINE r == [q EXCEPT !.pc = "commit", !.v = v, !.d = DefinitionOf(v)]
    <2>1. v \in Version /\ StatusOf(v) = "deployed" /\ db[<<v, "of">>] \in Workflow
      BY <1>1, <1>3 DEF Deployed, VersionsOf
    <2>2. Present(v) /\ DeployEntry(v)
      BY <2>1, StudioAssumption DEF Present, StudioInv, TrailInv
    <2>3. DefinitionOf(v) \in Definition
      BY <2>1, <2>2 DEF StudioInv, StudioTypeOK, Present
    <2>4. /\ r \in Requests /\ r.pc = "commit" /\ r.op = q.op /\ r.v = v /\ r.w = q.w
          /\ r.writes = q.writes /\ Proceed(t, r)
      BY <1>1, <1>3, <2>1, <2>3 DEF Requests, Places
    <2> HIDE DEF r
    <2>5. Placed(r) /\ ~Audited(r.op)
      BY <1>1, <1>3, <2>1, <2>2, <2>4 DEF Placed, Audited
    <2>6. Sound(r) /\ \A u \in Req \ {t} : Drawn(r, req[u])
      BY <1>1, <2>4, NothingIsSound DEF Drawn
    <2> QED
      BY <1>1, <2>1, <2>2, <2>4, <2>5, <2>6, Onward DEF GoesOn, Proceed
  <1> QED
    BY <1>2, <1>3, Refusals DEF ReadLive

(* The next number of a workflow is how many versions it has. *)
LEMMA NextIsCount ==
    ASSUME StudioInv, NEW w \in Workflow
    PROVE  NextVersion(w) = Cardinality(VersionsOf(w)) /\ NextVersion(w) \in Nat
  <1> DEFINE n == Cardinality(VersionsOf(w))
             minors == {db[<<v, "number">>] : v \in VersionsOf(w)}
             highest == CHOOSE k \in minors \cup {-1} : \A j \in minors : j <= k
  <1>1. n \in Nat
    <2>1. IsFiniteSet(VersionsOf(w))
      BY StudioAssumption, FS_Subset DEF VersionsOf
    <2> QED
      BY <2>1, FS_CardinalityType
  <1>2. minors = 0..(n - 1)
    BY DEF StudioInv, NumbersAreASequence
  <1> HIDE DEF n, minors
  <1>3. n - 1 \in minors \cup {-1} /\ \A j \in minors : j <= n - 1
    BY <1>1, <1>2
  <1>4. highest \in minors \cup {-1} /\ \A j \in minors : j <= highest
    BY <1>3
  <1> HIDE DEF highest
  <1>5. highest = n - 1
    BY <1>1, <1>2, <1>3, <1>4
  <1>6. NextVersion(w) = highest + 1
    BY DEF NextVersion, highest, minors
  <1> QED
    BY <1>1, <1>5, <1>6 DEF n

(* A new version gets an id of its own and the next number. *)
LEMMA NumbersAreDrawn ==
    ASSUME StudioInv, NEW t \in Req, NumberVersion(t)
    PROVE  StudioInv'
  <1> DEFINE q == req[t]
             k == NextVersion(q.w)
  <1>1. /\ q \in Requests /\ Placed(q) /\ q.pc = "number" /\ q.op = "compile"
        /\ q.w \in Workflow /\ Exists(q.w) /\ q.d \in Definition
    BY DEF NumberVersion, StudioInv, RequestInv, Placed
  <1>2. k = Cardinality(VersionsOf(q.w)) /\ k \in Nat
    BY <1>1, NextIsCount
  <1> HIDE DEF k
  <1>3. PICK v \in FreshIds(Version) :
             Proceed(t, [q EXCEPT !.pc = "flush", !.v = v,
                !.writes = [c \in {v} \X {"of", "number", "status", "definition"} |->
                               CASE c[2] = "of" -> q.w
                                 [] c[2] = "number" -> k
                                 [] c[2] = "status" -> "draft"
                                 [] c[2] = "definition" -> q.d]])
    BY DEF NumberVersion, k
  <1>4. /\ v \in Version /\ ~Present(v) /\ v # Null
        /\ \A u \in Req : req[u].v # v
    <2>1. v \in Version /\ <<v, "of">> \in Cell
      BY <1>3 DEF FreshIds, Cell
    <2> QED
      BY <1>3, <2>1, StudioAssumption DEF FreshIds, Present
  <1> DEFINE cells == {v} \X {"of", "number", "status", "definition"}
             f == [c \in cells |-> CASE c[2] = "of" -> q.w
                                     [] c[2] = "number" -> k
                                     [] c[2] = "status" -> "draft"
                                     [] c[2] = "definition" -> q.d]
             r == [q EXCEPT !.pc = "flush", !.v = v, !.writes = f]
  <1>5. /\ DOMAIN f = cells
        /\ f[<<v, "of">>] = q.w /\ f[<<v, "number">>] = k
        /\ f[<<v, "status">>] = "draft" /\ f[<<v, "definition">>] = q.d
    OBVIOUS
  <1>6. f \in Writes
    <2>1. cells \in SUBSET Cell
      BY <1>4 DEF Cell
    <2>2. f \in [cells -> Contents]
      BY <1>1, <1>2 DEF Contents, Status
    <2> QED
      BY <2>1, <2>2 DEF Writes
  <1>7. Proceed(t, r)
    BY <1>3
  <1>8. \A c \in cells : \/ c = <<v, "of">> \/ c = <<v, "number">>
                         \/ c = <<v, "status">> \/ c = <<v, "definition">>
    OBVIOUS
  <1> HIDE DEF f
  <1>9. /\ r \in Requests /\ r.pc = "flush" /\ r.op = q.op /\ r.v = v /\ r.w = q.w
        /\ r.writes = f
    BY <1>1, <1>4, <1>6 DEF Requests, Places
  <1> HIDE DEF r
  <1>10. Placed(r)
    BY <1>1, <1>9 DEF Placed
  <1>11. Typed(r)
    <2>1. /\ Fits(<<v, "of">>, q.w) /\ Fits(<<v, "number">>, k)
          /\ Fits(<<v, "status">>, "draft") /\ Fits(<<v, "definition">>, q.d)
      BY <1>1, <1>2 DEF Fits, Status
    <2> QED
      BY <1>5, <1>8, <1>9, <2>1 DEF Typed
  <1>12. OfWorkflows(r)
    BY <1>5, <1>9 DEF OfWorkflows
  <1>13. OfNewVersion(r)
    BY <1>1, <1>2, <1>4, <1>5, <1>9 DEF OfNewVersion
  <1>14. OfVersions(r)
    BY <1>1, <1>5, <1>9 DEF OfVersions
  <1>15. \A u \in Req \ {t} : Drawn(r, req[u]) /\ <<v, "of">> \notin DOMAIN req[u].writes
    <2>1. \A u \in Req : OfNewVersion(req[u])
      BY DEF StudioInv, RequestInv, Sound
    <2>2. \A x \in Version : <<x, "of">> \in DOMAIN r.writes => x = v
      BY <1>5, <1>9
    <2>3. \A u \in Req : <<v, "of">> \notin DOMAIN req[u].writes
      BY <1>4, <2>1 DEF OfNewVersion
    <2> QED
      BY <1>4, <2>2, <2>3 DEF Drawn
  <1> QED
    BY <1>1, <1>4, <1>7, <1>9, <1>10, <1>11, <1>12, <1>13, <1>14, <1>15, Onward
       DEF GoesOn, Proceed, Written, Sound

(* The keys that stand for a name and for a number. *)
LEMMA KeysOf ==
    ASSUME NEW f, NEW x
    PROVE  /\ <<x, "name">> \in DOMAIN f /\ f[<<x, "name">>] # Null
                => <<"name", f[<<x, "name">>]>> \in Keys(f)
           /\ <<x, "number">> \in DOMAIN f /\ f[<<x, "number">>] # Null
                => <<"version", f[<<x, "of">>], f[<<x, "number">>]>> \in Keys(f)
  BY DEF Keys

(* A flush meets the unique keys, committed and in flight. *)
LEMMA Flushes ==
    ASSUME StudioInv, NEW t \in Req, Flush(t)
    PROVE  StudioInv'
  <1> DEFINE q == req[t]
             f == q.writes
             pc == IF Audited(q.op) THEN "tail" ELSE "commit"
             r == [q EXCEPT !.pc = pc]
  <1>1. /\ q \in Requests /\ Sound(q) /\ Placed(q) /\ q.pc = "flush" /\ ~Waits(t)
        /\ appended \in [Req -> Nat] /\ appended[t] = 0
    BY DEF Flush, StudioInv, RequestInv, Counted
  <1>2. CASE Violates(t) /\ Refuse(t)
    BY <1>2, Refusals
  <1>3. CASE ~Violates(t) /\ Proceed(t, r)
    <2>1. pc \in {"tail", "commit"} /\ (pc = "tail" <=> Audited(q.op))
      OBVIOUS
    <2> HIDE DEF pc
    <2>2. /\ r \in Requests /\ r.pc = pc /\ r.op = q.op /\ r.v = q.v /\ r.w = q.w
          /\ r.writes = f /\ r.n = q.n /\ r.d = q.d
      BY <1>1, <2>1 DEF Requests, Places
    <2>3. Proceed(t, r)
      BY <1>3
    <2> HIDE DEF r
    <2>4. Placed(r) /\ Counted(r, appended[t])
      <3>1. Counted(r, appended[t])
        BY <1>1, <2>1, <2>2 DEF Counted
      <3>2. r.pc \notin {"idle", "claim", "version", "incumbents", "live", "number", "append"}
            /\ (r.pc = "tail" => Audited(r.op))
        BY <2>1, <2>2
      <3> QED
        BY <1>1, <2>2, <3>1, <3>2 DEF Placed
    <2>5. Sound(r)
      BY <1>1, <2>2 DEF Sound, Typed, OfWorkflows, OfNewVersion, OfVersions
    <2>6. \A u \in Req \ {t} : Drawn(r, req[u]) /\ Drawn(req[u], r)
      BY <2>2 DEF Drawn, StudioInv, ClaimInv
    <2>7. /\ \A w \in Workflow : <<w, "name">> \in DOMAIN f =>
                f[<<w, "name">>] \in Name /\ RowsOf(DOMAIN f) = {w}
          /\ \A v \in Version : <<v, "number">> \in DOMAIN f =>
                /\ f[<<v, "of">>] \in Workflow /\ f[<<v, "number">>] \in Nat
                /\ RowsOf(DOMAIN f) = {v} /\ ~Present(v)
      <3>1. ASSUME NEW w \in Workflow, <<w, "name">> \in DOMAIN f
            PROVE  f[<<w, "name">>] \in Name /\ RowsOf(DOMAIN f) = {w}
        BY <1>1, <3>1 DEF Sound, Typed, Fits, OfWorkflows
      <3>2. ASSUME NEW v \in Version, <<v, "number">> \in DOMAIN f
            PROVE  /\ f[<<v, "of">>] \in Workflow /\ f[<<v, "number">>] \in Nat
                   /\ RowsOf(DOMAIN f) = {v} /\ ~Present(v)
        <4>1. DOMAIN f = {v} \X {"of", "number", "status", "definition"} /\ ~Present(v)
          BY <1>1, <3>2 DEF Sound, OfNewVersion
        <4>2. RowsOf(DOMAIN f) = {v}
          <5>1. <<v, "of">> \in DOMAIN f /\ \A c \in DOMAIN f : c[1] = v
            BY <4>1
          <5> QED
            BY <5>1 DEF RowsOf
        <4>3. <<v, "of">> \in DOMAIN f
          BY <4>1
        <4>4. Fits(<<v, "of">>, f[<<v, "of">>]) /\ Fits(<<v, "number">>, f[<<v, "number">>])
          BY <1>1, <3>2, <4>3 DEF Sound, Typed
        <4> QED
          BY <4>1, <4>2, <4>4 DEF Fits
      <3> QED
        BY <3>1, <3>2
    <2>8. KeysFree(r)
      <3> DEFINE o == Others(t)
      <3>1. /\ DOMAIN o = {x \in Cell : x[1] \notin RowsOf(DOMAIN f)}
            /\ \A c \in DOMAIN o : o[c] = db[c]
        BY DEF Others
      <3>2. Keys(f) \cap Keys(o) = {}
        BY <1>3 DEF Violates
      <3> HIDE DEF o
      <3>3. ASSUME NEW w \in Workflow, NEW x \in Workflow, <<w, "name">> \in DOMAIN f, x # w,
                   NameOf(x) = f[<<w, "name">>]
            PROVE  FALSE
        <4>1. f[<<w, "name">>] # Null /\ <<x, "name">> \in DOMAIN o
          BY <2>7, <3>1, <3>3, StudioAssumption DEF Cell
        <4>2. o[<<x, "name">>] = f[<<w, "name">>]
          BY <3>1, <3>3, <4>1 DEF NameOf
        <4>3. /\ <<"name", f[<<w, "name">>]>> \in Keys(f)
              /\ <<"name", f[<<w, "name">>]>> \in Keys(o)
          BY <3>3, <4>1, <4>2, KeysOf
        <4> QED
          BY <3>2, <4>3
      <3>4. ASSUME NEW v \in Version, NEW x \in Version, <<v, "number">> \in DOMAIN f,
                   db[<<x, "of">>] = f[<<v, "of">>], db[<<x, "number">>] = f[<<v, "number">>]
            PROVE  FALSE
        <4>1. f[<<v, "number">>] # Null /\ x # v
          BY <2>7, <3>4, StudioAssumption DEF Present
        <4>2. <<x, "number">> \in DOMAIN o /\ <<x, "of">> \in DOMAIN o
          BY <2>7, <3>1, <3>4, <4>1 DEF Cell
        <4>3. o[<<x, "number">>] = f[<<v, "number">>] /\ o[<<x, "of">>] = f[<<v, "of">>]
          BY <3>1, <3>4, <4>2
        <4>4. /\ <<"version", f[<<v, "of">>], f[<<v, "number">>]>> \in Keys(f)
              /\ <<"version", f[<<v, "of">>], f[<<v, "number">>]>> \in Keys(o)
          BY <3>4, <4>1, <4>2, <4>3, KeysOf
        <4> QED
          BY <3>2, <4>4
      <3> QED
        BY <2>2, <3>3, <3>4 DEF KeysFree
    <2>9. ASSUME NEW u \in Req \ {t}
          PROVE  KeysApart(r, req[u])
      <3> DEFINE g == req[u].writes
      <3> SUFFICES ASSUME Written(req[u])
                   PROVE  KeysApart(r, req[u])
        BY DEF KeysApart
      <3>1. DOMAIN g # {} => Keys(f) \cap Keys(g) = {}
        BY <1>1 DEF Waits, Pending, Flushed, Written
      <3>2. ASSUME NEW w \in Workflow, NEW x \in Workflow,
                   <<w, "name">> \in DOMAIN f, <<x, "name">> \in DOMAIN g,
                   f[<<w, "name">>] = g[<<x, "name">>]
            PROVE  FALSE
        <4>1. f[<<w, "name">>] # Null
          BY <2>7, <3>2, StudioAssumption
        <4>2. /\ <<"name", f[<<w, "name">>]>> \in Keys(f)
              /\ <<"name", g[<<x, "name">>]>> \in Keys(g)
          BY <3>2, <4>1, KeysOf
        <4> QED
          BY <3>1, <3>2, <4>2
      <3>3. ASSUME NEW v \in Version, NEW x \in Version,
                   <<v, "number">> \in DOMAIN f, <<x, "number">> \in DOMAIN g,
                   f[<<v, "of">>] = g[<<x, "of">>], f[<<v, "number">>] = g[<<x, "number">>]
            PROVE  FALSE
        <4>1. f[<<v, "number">>] # Null
          BY <2>7, <3>3, StudioAssumption
        <4>2. /\ <<"version", f[<<v, "of">>], f[<<v, "number">>]>> \in Keys(f)
              /\ <<"version", g[<<x, "of">>], g[<<x, "number">>]>> \in Keys(g)
          BY <3>3, <4>1, KeysOf
        <4> QED
          BY <3>1, <3>3, <4>2
      <3> QED
        BY <2>2, <3>2, <3>3 DEF KeysApart
    <2>10. Private(t, r)
      BY <1>1, <2>3, <2>4, <2>5, <2>6, <2>8, <2>9 DEF Private, Proceed, appendVars
    <2> QED
      BY <2>10, PrivateStep
  <1> QED
    BY <1>2, <1>3 DEF Flush

(* The tail is read and the entry added: what is written stays. *)
LEMMA Entries ==
    ASSUME StudioInv, NEW t \in Req, ReadTail(t) \/ AppendEntry(t)
    PROVE  StudioInv'
  <1> DEFINE q == req[t]
  <1>1. /\ q \in Requests /\ Sound(q) /\ Placed(q) /\ KeysFree(q)
        /\ appended \in [Req -> Nat] /\ appended[t] = 0 /\ Written(q)
        /\ q.pc \in {"tail", "append"} /\ Audited(q.op)
        /\ \A u \in Req \ {t} : Drawn(q, req[u]) /\ Drawn(req[u], q) /\ KeysApart(q, req[u])
    BY DEF ReadTail, AppendEntry, StudioInv, RequestInv, ClaimInv, Counted, Placed, Written
  <1>2. ASSUME NEW pc \in {"append", "commit"}, req' = [req EXCEPT ![t].pc = pc],
               UNCHANGED <<db, runs, trail, entries>>,
               appended' = [appended EXCEPT ![t] = IF pc = "commit" THEN @ + 1 ELSE @]
        PROVE  StudioInv'
    <2> DEFINE r == [q EXCEPT !.pc = pc]
    <2>1. /\ r \in Requests /\ r.pc = pc /\ r.op = q.op /\ r.v = q.v /\ r.w = q.w
          /\ r.writes = q.writes /\ r.n = q.n /\ r.d = q.d
      BY <1>1 DEF Requests, Places
    <2>2. req' = [req EXCEPT ![t] = r]
      BY <1>2
    <2> HIDE DEF r
    <2>3. /\ appended' \in [Req -> Nat] /\ \A u \in Req \ {t} : appended'[u] = appended[u]
          /\ appended'[t] = IF pc = "commit" THEN 1 ELSE 0
      BY <1>1, <1>2
    <2>4. Placed(r) /\ Counted(r, appended'[t])
      BY <1>1, <2>1, <2>3 DEF Placed, Counted, Audited
    <2>5. Sound(r)
      BY <1>1, <2>1 DEF Sound, Typed, OfWorkflows, OfNewVersion, OfVersions
    <2>6. KeysFree(r) /\ \A u \in Req \ {t} : /\ Drawn(r, req[u]) /\ Drawn(req[u], r)
                                              /\ KeysApart(r, req[u])
      BY <1>1, <2>1 DEF KeysFree, KeysApart, Drawn, Written
    <2>7. Private(t, r)
      BY <1>2, <2>2, <2>3, <2>4, <2>5, <2>6 DEF Private
    <2> QED
      BY <2>7, PrivateStep
  <1>3. CASE ReadTail(t)
    <2>1. /\ req' = [req EXCEPT ![t].pc = "append"] /\ UNCHANGED <<db, runs, trail, entries>>
          /\ appended' = appended
      BY <1>3 DEF ReadTail, TailRead
    <2>2. appended' = [appended EXCEPT ![t] = IF "append" = "commit" THEN @ + 1 ELSE @]
      BY <1>1, <2>1
    <2> QED
      BY <1>2, <2>1, <2>2
  <1>4. CASE AppendEntry(t)
    <2>1. /\ req' = [req EXCEPT ![t].pc = "commit"] /\ UNCHANGED <<db, runs, trail, entries>>
          /\ appended' = [appended EXCEPT ![t] = IF "commit" = "commit" THEN @ + 1 ELSE @]
      BY <1>4 DEF AppendEntry, EntryAdded
    <2> QED
      BY <1>2, <2>1
  <1> QED
    BY <1>3, <1>4

-----------------------------------------------------------------------------
(* What a commit changes, as the next lemmas use it. *)
Committing(t) ==
    /\ StudioInv /\ Commit(t) /\ t \in Req
    /\ \A c \in Cell : db'[c] = IF c \in DOMAIN req[t].writes THEN req[t].writes[c] ELSE db[c]
    /\ req'[t] = Idle /\ \A u \in Req \ {t} : req'[u] = req[u] /\ appended'[u] = appended[u]
    /\ req' \in [Req -> Requests] /\ appended' \in [Req -> Nat] /\ appended'[t] = 0
    /\ entries' = entries + appended[t]

(* A commit is that. *)
LEMMA CommitIs ==
    ASSUME StudioInv, NEW t \in Req, Commit(t)
    PROVE  Committing(t)
  <1>1. /\ req \in [Req -> Requests] /\ appended \in [Req -> Nat]
        /\ req' = [req EXCEPT ![t] = Idle] /\ appended' = [appended EXCEPT ![t] = 0]
        /\ entries' = entries + appended[t]
        /\ db' = [c \in Cell |-> IF c \in DOMAIN req[t].writes THEN req[t].writes[c] ELSE db[c]]
    BY DEF Commit, EntriesCommitted, StudioInv, RequestInv
  <1> QED
    BY <1>1, IdleFields DEF Committing

(* What the request had written, and that it is in place. *)
LEMMA CommitterIs ==
    ASSUME NEW t, Committing(t)
    PROVE  /\ Sound(req[t]) /\ Placed(req[t]) /\ KeysFree(req[t]) /\ Written(req[t])
           /\ req[t].pc = "commit" /\ Counted(req[t], appended[t])
           /\ DOMAIN req[t].writes \subseteq Cell
           /\ \A u \in Req \ {t} : Drawn(req[u], req[t]) /\ KeysApart(req[u], req[t])
  <1>1. /\ t \in Req /\ Sound(req[t]) /\ Placed(req[t]) /\ KeysFree(req[t])
        /\ req[t].pc = "commit" /\ Counted(req[t], appended[t])
        /\ \A u \in Req \ {t} : Drawn(req[u], req[t]) /\ KeysApart(req[u], req[t])
    BY DEF Committing, StudioInv, RequestInv, ClaimInv, Commit
  <1>2. req[t].writes \in Writes
    BY <1>1 DEF Sound, Typed, Requests
  <1> QED
    BY <1>1, <1>2 DEF Written, Writes

(* Rows stay, versions keep their workflow and number, and none is lost. *)
LEMMA RowsStay ==
    ASSUME NEW t, Committing(t)
    PROVE  /\ \A w \in Workflow : Exists(w) => Exists(w)'
           /\ \A v \in Version : Present(v) =>
                 /\ <<v, "of">> \notin DOMAIN req[t].writes
                 /\ <<v, "number">> \notin DOMAIN req[t].writes
                 /\ db'[<<v, "of">>] = db[<<v, "of">>]
                 /\ db'[<<v, "number">>] = db[<<v, "number">>]
           /\ \A w \in Workflow : VersionsOf(w) \subseteq VersionsOf(w)'
           /\ \A w \in Workflow : /\ Cardinality(VersionsOf(w)) \in Nat
                                  /\ Cardinality(VersionsOf(w)') \in Nat
                                  /\ Cardinality(VersionsOf(w)) <= Cardinality(VersionsOf(w)')
  <1> DEFINE f == req[t].writes
  <1>1. Sound(req[t])
    BY CommitterIs
  <1>2. ASSUME NEW w \in Workflow, Exists(w)
        PROVE  Exists(w)'
    <2>1. <<w, "name">> \in Cell
      BY DEF Cell
    <2>2. <<w, "name">> \in DOMAIN f => f[<<w, "name">>] \in Name
      BY <1>1 DEF Sound, Typed, Fits
    <2> QED
      BY <1>2, <2>1, <2>2, StudioAssumption DEF Committing, Exists
  <1>3. ASSUME NEW v \in Version, Present(v)
        PROVE  /\ <<v, "of">> \notin DOMAIN f /\ <<v, "number">> \notin DOMAIN f
               /\ db'[<<v, "of">>] = db[<<v, "of">>]
               /\ db'[<<v, "number">>] = db[<<v, "number">>]
    <2>1. <<v, "of">> \in Cell /\ <<v, "number">> \in Cell
      BY DEF Cell
    <2>2. <<v, "of">> \notin DOMAIN f /\ <<v, "number">> \notin DOMAIN f
      BY <1>1, <1>3 DEF Sound, OfNewVersion
    <2> QED
      BY <2>1, <2>2 DEF Committing
  <1>4. ASSUME NEW w \in Workflow
        PROVE  VersionsOf(w) \subseteq VersionsOf(w)'
    BY <1>3, StudioAssumption DEF VersionsOf, Present
  <1>5. ASSUME NEW w \in Workflow
        PROVE  /\ Cardinality(VersionsOf(w)) \in Nat
               /\ Cardinality(VersionsOf(w)') \in Nat
               /\ Cardinality(VersionsOf(w)) <= Cardinality(VersionsOf(w)')
    <2>1. IsFiniteSet(VersionsOf(w)) /\ IsFiniteSet(VersionsOf(w)')
      <3>1. VersionsOf(w) \subseteq Version /\ VersionsOf(w)' \subseteq Version
        BY DEF VersionsOf
      <3> QED
        BY <3>1, StudioAssumption, FS_Subset
    <2> QED
      BY <1>4, <2>1, FS_CardinalityType, FS_Subset
  <1> QED
    BY <1>2, <1>3, <1>4, <1>5

(* The rows a commit leaves are whole. *)
LEMMA CommitKeepsRows ==
    ASSUME NEW t, Committing(t)
    PROVE  /\ \A w \in Workflow :
                 \/ \A c \in {"name", "deleted", "draft"} : db'[<<w, c>>] = Null
                 \/ /\ db'[<<w, "name">>] \in Name /\ db'[<<w, "draft">>] \in Definition
                    /\ db'[<<w, "deleted">>] \in BOOLEAN
           /\ \A v \in Version :
                 \/ \A c \in {"of", "number", "status", "definition"} : db'[<<v, c>>] = Null
                 \/ /\ db'[<<v, "of">>] \in Workflow /\ Exists(db[<<v, "of">>])'
                    /\ db'[<<v, "number">>] \in Nat /\ db'[<<v, "status">>] \in Status
                    /\ db'[<<v, "definition">>] \in Definition
  <1> DEFINE f == req[t].writes
  <1>1. Sound(req[t]) /\ \A c \in DOMAIN f : Fits(c, f[c])
    BY CommitterIs DEF Sound, Typed
  <1>2. ASSUME NEW w \in Workflow
        PROVE  \/ \A c \in {"name", "deleted", "draft"} : db'[<<w, c>>] = Null
               \/ /\ db'[<<w, "name">>] \in Name /\ db'[<<w, "draft">>] \in Definition
                  /\ db'[<<w, "deleted">>] \in BOOLEAN
    <2>1. <<w, "name">> \in Cell /\ <<w, "deleted">> \in Cell /\ <<w, "draft">> \in Cell
      BY DEF Cell
    <2>2. /\ <<w, "name">> \in DOMAIN f => f[<<w, "name">>] \in Name
          /\ <<w, "deleted">> \in DOMAIN f => f[<<w, "deleted">>] \in BOOLEAN
          /\ <<w, "draft">> \in DOMAIN f => f[<<w, "draft">>] \in Definition
      BY <1>1 DEF Fits
    <2>3. /\ db'[<<w, "name">>] = IF <<w, "name">> \in DOMAIN f THEN f[<<w, "name">>]
                                                                ELSE db[<<w, "name">>]
          /\ db'[<<w, "deleted">>] = IF <<w, "deleted">> \in DOMAIN f THEN f[<<w, "deleted">>]
                                                                      ELSE db[<<w, "deleted">>]
          /\ db'[<<w, "draft">>] = IF <<w, "draft">> \in DOMAIN f THEN f[<<w, "draft">>]
                                                                  ELSE db[<<w, "draft">>]
      BY <2>1 DEF Committing
    <2>4. \/ /\ db[<<w, "name">>] = Null /\ db[<<w, "deleted">>] = Null
             /\ db[<<w, "draft">>] = Null
          \/ /\ db[<<w, "name">>] \in Name /\ db[<<w, "draft">>] \in Definition
             /\ db[<<w, "deleted">>] \in BOOLEAN
      BY DEF Committing, StudioInv, StudioTypeOK, NameOf, Draft
    <2>5. CASE Exists(w)
      BY <2>2, <2>3, <2>4, <2>5 DEF Exists
    <2>6. CASE ~Exists(w)
      <3>1. /\ db[<<w, "name">>] = Null /\ db[<<w, "deleted">>] = Null
            /\ db[<<w, "draft">>] = Null
        BY <2>4, <2>6, StudioAssumption DEF Exists
      <3>2. \/ /\ <<w, "name">> \notin DOMAIN f /\ <<w, "deleted">> \notin DOMAIN f
               /\ <<w, "draft">> \notin DOMAIN f
            \/ /\ <<w, "name">> \in DOMAIN f /\ <<w, "deleted">> \in DOMAIN f
               /\ <<w, "draft">> \in DOMAIN f
        BY <1>1, <2>6 DEF Sound, OfWorkflows
      <3> QED
        BY <2>2, <2>3, <3>1, <3>2
    <2> QED
      BY <2>5, <2>6
  <1>3. ASSUME NEW v \in Version
        PROVE  \/ \A c \in {"of", "number", "status", "definition"} : db'[<<v, c>>] = Null
               \/ /\ db'[<<v, "of">>] \in Workflow /\ Exists(db[<<v, "of">>])'
                  /\ db'[<<v, "number">>] \in Nat /\ db'[<<v, "status">>] \in Status
                  /\ db'[<<v, "definition">>] \in Definition
    <2> DEFINE o == <<v, "of">>
               n == <<v, "number">>
               s == <<v, "status">>
               d == <<v, "definition">>
    <2>1. o \in Cell /\ n \in Cell /\ s \in Cell /\ d \in Cell
      BY DEF Cell
    <2>2. /\ o \in DOMAIN f => f[o] \in Workflow /\ Exists(f[o])
          /\ n \in DOMAIN f => f[n] \in Nat
          /\ s \in DOMAIN f => f[s] \in Status
          /\ d \in DOMAIN f => f[d] \in Definition
      BY <1>1 DEF Fits
    <2>3. /\ o \in DOMAIN f \/ n \in DOMAIN f =>
                o \in DOMAIN f /\ n \in DOMAIN f /\ s \in DOMAIN f /\ d \in DOMAIN f
          /\ s \in DOMAIN f \/ d \in DOMAIN f => Present(v) \/ o \in DOMAIN f
      BY <1>1 DEF Sound, OfNewVersion, OfVersions
    <2>4. \/ db[o] = Null /\ db[n] = Null /\ db[s] = Null /\ db[d] = Null
          \/ /\ db[o] \in Workflow /\ Exists(db[o]) /\ db[n] \in Nat
             /\ db[s] \in Status /\ db[d] \in Definition
      BY DEF Committing, StudioInv, StudioTypeOK, StatusOf, DefinitionOf, Status
    <2>5. /\ db'[o] = IF o \in DOMAIN f THEN f[o] ELSE db[o]
          /\ db'[n] = IF n \in DOMAIN f THEN f[n] ELSE db[n]
          /\ db'[s] = IF s \in DOMAIN f THEN f[s] ELSE db[s]
          /\ db'[d] = IF d \in DOMAIN f THEN f[d] ELSE db[d]
      BY <2>1 DEF Committing
    <2>6. \A w \in Workflow : Exists(w) => db'[<<w, "name">>] # Null
      BY RowsStay DEF Exists
    <2>7. (db'[o] \in Workflow /\ db'[<<db'[o], "name">>] # Null) => Exists(db[o])'
      BY DEF Exists
    <2>8. CASE o \in DOMAIN f
      BY <2>2, <2>3, <2>5, <2>6, <2>7, <2>8
    <2>9. CASE o \notin DOMAIN f /\ Present(v)
      BY <2>2, <2>3, <2>4, <2>5, <2>6, <2>7, <2>9 DEF Present
    <2>10. CASE o \notin DOMAIN f /\ ~Present(v)
      <3>1. db[o] = Null /\ db[n] = Null /\ db[s] = Null /\ db[d] = Null
        BY <2>4, <2>10, StudioAssumption DEF Present
      <3>2. db'[o] = Null /\ db'[n] = Null /\ db'[s] = Null /\ db'[d] = Null
        BY <2>3, <2>5, <2>10, <3>1
      <3> QED
        BY <3>2
    <2> QED
      BY <2>8, <2>9, <2>10
  <1> QED
    BY <1>2, <1>3

(* The trail grows by what was appended, and says more than before. *)
LEMMA CommitKeepsTrail ==
    ASSUME NEW t, Committing(t)
    PROVE  /\ trail' \in Seq([op : Ops, v : Version \cup {Null}]) /\ Len(trail') = entries'
           /\ \A v : DeployEntry(v) => DeployEntry(v)'
           /\ \A v \in Version : StatusOf(v)' = "deployed" => DeployEntry(v)'
  <1> DEFINE q == req[t]
             e == [op |-> q.op, v |-> q.v]
  <1>1. /\ t \in Req /\ Sound(q) /\ q \in Requests /\ Counted(q, appended[t]) /\ q.pc = "commit"
        /\ entries' = entries + appended[t]
        /\ trail \in Seq([op : Ops, v : Version \cup {Null}]) /\ Len(trail) = entries
    BY CommitterIs DEF Committing, Sound, Typed, StudioInv, StudioTypeOK, TrailInv
  <1>2. trail' = IF appended[t] > 0 THEN trail \o <<e>> ELSE trail
    BY DEF Committing, Commit
  <1>3. e \in [op : Ops, v : Version \cup {Null}] /\ e.op = q.op /\ e.v = q.v
    BY <1>1 DEF Requests
  <1> HIDE DEF e
  <1>4. Len(trail) \in Nat
    BY <1>1, LenProperties
  <1>5. CASE appended[t] = 0
    <2>1. trail' = trail /\ entries' = entries
      BY <1>1, <1>2, <1>4, <1>5
    <2>2. ~Audited(q.op)
      BY <1>1, <1>5 DEF Counted
    <2>3. ASSUME NEW v \in Version, StatusOf(v)' = "deployed"
          PROVE  DeployEntry(v)'
      <3>1. <<v, "status">> \in Cell
        BY DEF Cell
      <3>2. <<v, "status">> \in DOMAIN q.writes => q.writes[<<v, "status">>] # "deployed"
        BY <1>1, <2>2 DEF Sound, OfVersions, Audited
      <3>3. StatusOf(v) = "deployed"
        BY <2>3, <3>1, <3>2 DEF Committing, StatusOf
      <3> QED
        BY <2>1, <3>3 DEF Committing, StudioInv, TrailInv, DeployEntry
    <2> QED
      BY <1>1, <2>1, <2>3 DEF DeployEntry
  <1>6. CASE appended[t] = 1
    <2>1. /\ trail' = Append(trail, e) /\ Len(trail') = Len(trail) + 1
          /\ trail' \in Seq([op : Ops, v : Version \cup {Null}])
          /\ \A i \in 1..Len(trail) : trail'[i] = trail[i]
          /\ trail'[Len(trail) + 1] = e
      BY <1>1, <1>2, <1>3, <1>4, <1>6, AppendProperties
    <2>2. \A i \in 1..Len(trail) : i \in 1..Len(trail')
      BY <1>4, <2>1
    <2>3. \A v : DeployEntry(v) => DeployEntry(v)'
      BY <2>1, <2>2 DEF DeployEntry
    <2>4. ASSUME NEW v \in Version, StatusOf(v)' = "deployed"
          PROVE  DeployEntry(v)'
      <3>1. <<v, "status">> \in Cell
        BY DEF Cell
      <3>2. CASE <<v, "status">> \in DOMAIN q.writes /\ q.writes[<<v, "status">>] = "deployed"
        <4>1. e.op = "deploy" /\ e.v = v
          BY <1>1, <1>3, <3>2 DEF Sound, OfVersions
        <4>2. Len(trail) + 1 \in 1..Len(trail')
          BY <1>4, <2>1
        <4> QED
          BY <2>1, <4>1, <4>2 DEF DeployEntry
      <3>3. CASE ~(<<v, "status">> \in DOMAIN q.writes /\ q.writes[<<v, "status">>] = "deployed")
        <4>1. StatusOf(v) = "deployed"
          BY <2>4, <3>1, <3>3 DEF Committing, StatusOf
        <4> QED
          BY <2>3, <4>1 DEF Committing, StudioInv, TrailInv
      <3> QED
        BY <3>2, <3>3
    <2> QED
      BY <1>1, <1>4, <1>6, <2>1, <2>3, <2>4
  <1> QED
    BY <1>1, <1>5, <1>6 DEF Counted

(* The other requests stay in order. *)
LEMMA CommitKeepsRequests ==
    ASSUME NEW t, Committing(t)
    PROVE  RequestInv'
  <1>1. /\ req' \in [Req -> Requests] /\ appended' \in [Req -> Nat] /\ t \in Req
        /\ req'[t] = Idle /\ appended'[t] = 0
        /\ \A u \in Req \ {t} : req'[u] = req[u] /\ appended'[u] = appended[u]
    BY DEF Committing
  <1>2. (Sound(req[t]) /\ Placed(req[t]) /\ Counted(req[t], appended[t]))'
    BY <1>1, IdleFields DEF Sound, Typed, OfWorkflows, OfNewVersion, OfVersions, Placed, Counted
  <1>3. ASSUME NEW u \in Req \ {t}
        PROVE  (Sound(req[u]) /\ Placed(req[u]) /\ Counted(req[u], appended[u]))'
    <2> DEFINE g == req[u].writes
    <2>1. /\ req'[u] = req[u] /\ appended'[u] = appended[u] /\ Sound(req[u]) /\ Placed(req[u])
          /\ Counted(req[u], appended[u]) /\ Drawn(req[u], req[t])
      BY <1>1, CommitterIs DEF Committing, StudioInv, RequestInv
    <2>2. Typed(req[u])'
      BY <2>1, RowsStay DEF Sound, Typed, Fits
    <2>3. OfWorkflows(req[u])'
      BY <2>1, RowsStay DEF Sound, OfWorkflows
    <2>4. OfNewVersion(req[u])'
      <3> SUFFICES ASSUME NEW v \in Version, <<v, "of">> \in DOMAIN g \/ <<v, "number">> \in DOMAIN g
                   PROVE  /\ DOMAIN g = {v} \X {"of", "number", "status", "definition"}
                          /\ ~Present(v)' /\ req[u].v = v /\ req[u].op = "compile"
                          /\ g[<<v, "status">>] = "draft"
                          /\ g[<<v, "number">>] <= Cardinality(VersionsOf(g[<<v, "of">>])')
        <4>1. req[u].writes' = req[u].writes /\ req[u].v' = req[u].v /\ req[u].op' = req[u].op
          BY <2>1
        <4> QED
          BY <2>1, <4>1 DEF OfNewVersion, VersionsOf
      <3>1. /\ DOMAIN g = {v} \X {"of", "number", "status", "definition"}
            /\ ~Present(v) /\ req[u].v = v /\ req[u].op = "compile"
            /\ g[<<v, "status">>] = "draft"
            /\ g[<<v, "number">>] <= Cardinality(VersionsOf(g[<<v, "of">>]))
        BY <2>1 DEF Sound, OfNewVersion
      <3>2. <<v, "of">> \in DOMAIN g /\ <<v, "number">> \in DOMAIN g
        BY <3>1
      <3>3. g[<<v, "of">>] \in Workflow /\ g[<<v, "number">>] \in Nat
        BY <2>1, <3>2 DEF Sound, Typed, Fits
      <3>4. <<v, "of">> \notin DOMAIN req[t].writes /\ <<v, "of">> \in Cell
        BY <2>1, <3>2, CommitterIs DEF Drawn, Sound, OfNewVersion, Cell
      <3>5. ~Present(v)'
        BY <3>1, <3>4 DEF Committing, Present
      <3>6. g[<<v, "number">>] <= Cardinality(VersionsOf(g[<<v, "of">>])')
        <4>1. PICK w \in Workflow : w = g[<<v, "of">>]
          BY <3>3
        <4>2. /\ Cardinality(VersionsOf(w)) \in Nat /\ Cardinality(VersionsOf(w)') \in Nat
              /\ Cardinality(VersionsOf(w)) <= Cardinality(VersionsOf(w)')
          BY RowsStay
        <4>3. VersionsOf(g[<<v, "of">>])' = VersionsOf(w)'
          BY <2>1, <4>1 DEF VersionsOf
        <4> QED
          BY <3>1, <3>3, <4>1, <4>2, <4>3
      <3> QED
        BY <3>1, <3>5, <3>6
    <2>5. OfVersions(req[u])'
      <3>1. OfVersions(req[u]) /\ req'[u] = req[u]
        BY <2>1 DEF Sound
      <3>2. \A v \in Version : Present(v) => db'[<<v, "of">>] = db[<<v, "of">>]
        BY RowsStay
      <3>3. \A v \in Version : Present(v) => Present(v)'
        BY <3>2 DEF Present
      <3>4. req[u].op = "deploy" => req[u].w \in Workflow
        BY <2>1 DEF Placed
      <3>5. req[u].op = "deploy" => \A v \in Version : db[<<v, "of">>] = req[u].w => Present(v)
        BY <3>4, StudioAssumption DEF Present
      <3> QED
        BY <3>1, <3>2, <3>3, <3>5 DEF OfVersions
    <2>6. Placed(req[u])'
      BY <2>1, RowsStay, CommitKeepsTrail, StudioAssumption DEF Placed, Present
    <2>7. Counted(req[u], appended[u])'
      BY <2>1 DEF Counted
    <2> QED
      BY <2>2, <2>3, <2>4, <2>5, <2>6, <2>7 DEF Sound
  <1> QED
    BY <1>1, <1>2, <1>3 DEF RequestInv

-----------------------------------------------------------------------------
(* The keys the others hold are free of what this one committed. *)
LEMMA CommitKeepsClaims ==
    ASSUME NEW t, Committing(t)
    PROVE  ClaimInv'
  <1> DEFINE f == req[t].writes
  <1>1. /\ t \in Req /\ req'[t] = Idle /\ \A u \in Req \ {t} : req'[u] = req[u]
        /\ \A c \in Cell : db'[c] = IF c \in DOMAIN f THEN f[c] ELSE db[c]
    BY DEF Committing
  <1>2. /\ Sound(req[t]) /\ Written(req[t])
        /\ \A u \in Req \ {t} : KeysApart(req[u], req[t])
    BY CommitterIs
  <1>3. KeysFree(req[t])'
    BY <1>1, IdleFields DEF KeysFree, Written
  <1>4. ASSUME NEW u \in Req \ {t}
        PROVE  KeysFree(req[u])'
    <2> DEFINE g == req[u].writes
    <2>1. req'[u] = req[u] /\ KeysFree(req[u]) /\ KeysApart(req[u], req[t])
      BY <1>1, <1>2 DEF Committing, StudioInv, ClaimInv
    <2> SUFFICES ASSUME Written(req[u])
                 PROVE  /\ \A w, x \in Workflow : <<w, "name">> \in DOMAIN g /\ x # w
                                => db'[<<x, "name">>] # g[<<w, "name">>]
                        /\ \A v, x \in Version :
                              <<v, "number">> \in DOMAIN g /\ db'[<<x, "of">>] = g[<<v, "of">>]
                                => db'[<<x, "number">>] # g[<<v, "number">>]
      BY <2>1 DEF KeysFree, Written, NameOf
    <2>2. ASSUME NEW w \in Workflow, NEW x \in Workflow, <<w, "name">> \in DOMAIN g, x # w
          PROVE  db'[<<x, "name">>] # g[<<w, "name">>]
      <3>1. <<x, "name">> \in Cell
        BY DEF Cell
      <3>2. <<x, "name">> \in DOMAIN f => f[<<x, "name">>] # g[<<w, "name">>]
        BY <1>2, <2>1, <2>2 DEF KeysApart
      <3>3. db[<<x, "name">>] # g[<<w, "name">>]
        BY <2>1, <2>2 DEF KeysFree, NameOf
      <3> QED
        BY <1>1, <3>1, <3>2, <3>3
    <2>3. ASSUME NEW v \in Version, NEW x \in Version, <<v, "number">> \in DOMAIN g,
                 db'[<<x, "of">>] = g[<<v, "of">>]
          PROVE  db'[<<x, "number">>] # g[<<v, "number">>]
      <3>1. <<x, "number">> \in Cell /\ <<x, "of">> \in Cell
        BY DEF Cell
      <3>2. <<x, "of">> \in DOMAIN f <=> <<x, "number">> \in DOMAIN f
        BY <1>2 DEF Sound, OfNewVersion
      <3>3. CASE <<x, "of">> \in DOMAIN f
        <4>1. f[<<x, "of">>] = g[<<v, "of">>]
          BY <1>1, <2>3, <3>1, <3>3
        <4>2. f[<<x, "number">>] # g[<<v, "number">>]
          BY <1>2, <2>1, <2>3, <3>2, <3>3, <4>1 DEF KeysApart
        <4> QED
          BY <1>1, <3>1, <3>2, <3>3, <4>2
      <3>4. CASE <<x, "of">> \notin DOMAIN f
        <4>1. db[<<x, "of">>] = g[<<v, "of">>]
          BY <1>1, <2>3, <3>1, <3>4
        <4>2. db[<<x, "number">>] # g[<<v, "number">>]
          BY <2>1, <2>3, <4>1 DEF KeysFree
        <4> QED
          BY <1>1, <3>1, <3>2, <3>4, <4>2
      <3> QED
        BY <3>3, <3>4
    <2> QED
      BY <2>2, <2>3
  <1>5. ASSUME NEW u \in Req, NEW x \in Req, u # x
        PROVE  (Drawn(req[u], req[x]) /\ KeysApart(req[u], req[x]))'
    <2>1. CASE u # t /\ x # t
      <3>1. req'[u] = req[u] /\ req'[x] = req[x]
        BY <1>1, <2>1
      <3>2. Drawn(req[u], req[x]) /\ KeysApart(req[u], req[x])
        BY <1>5 DEF Committing, StudioInv, ClaimInv
      <3> QED
        BY <3>1, <3>2 DEF Drawn, KeysApart, Written
    <2>2. CASE u = t
      BY <1>1, <2>2, IdleFields DEF Drawn, KeysApart, Written
    <2>3. CASE x = t
      BY <1>1, <2>3, IdleFields, StudioAssumption DEF Drawn, KeysApart, Written
    <2> QED
      BY <2>1, <2>2, <2>3
  <1> QED
    BY <1>1, <1>3, <1>4, <1>5 DEF ClaimInv

(* Names still address one workflow each. *)
LEMMA CommitKeepsNames ==
    ASSUME NEW t, Committing(t)
    PROVE  NamesAreAddresses'
  <1> DEFINE f == req[t].writes
  <1>1. Sound(req[t]) /\ KeysFree(req[t]) /\ Written(req[t])
    BY CommitterIs
  <1> SUFFICES ASSUME NEW w \in Workflow, NEW x \in Workflow, w # x,
                      db'[<<w, "name">>] # Null, db'[<<w, "name">>] = db'[<<x, "name">>]
               PROVE  FALSE
    BY DEF NamesAreAddresses, NameOf, Exists
  <1>2. /\ <<w, "name">> \in Cell /\ <<x, "name">> \in Cell
        /\ \A c \in Cell : db'[c] = IF c \in DOMAIN f THEN f[c] ELSE db[c]
    BY DEF Cell, Committing
  <1>3. ~(<<w, "name">> \in DOMAIN f /\ <<x, "name">> \in DOMAIN f)
    BY <1>1 DEF Sound, OfWorkflows
  <1>4. CASE <<w, "name">> \in DOMAIN f
    BY <1>1, <1>2, <1>3, <1>4 DEF KeysFree, NameOf
  <1>5. CASE <<x, "name">> \in DOMAIN f
    BY <1>1, <1>2, <1>3, <1>5 DEF KeysFree, NameOf
  <1>6. CASE <<w, "name">> \notin DOMAIN f /\ <<x, "name">> \notin DOMAIN f
    BY <1>2, <1>6 DEF Committing, StudioInv, NamesAreAddresses, NameOf, Exists
  <1> QED
    BY <1>4, <1>5, <1>6

(* A new version is the next of its workflow, the others are as they were. *)
LEMMA CommitKeepsNumbers ==
    ASSUME NEW t, Committing(t)
    PROVE  NumbersAreASequence'
  <1> DEFINE f == req[t].writes
             Numbers(w) == {db[<<v, "number">>] : v \in VersionsOf(w)}
  <1>1. /\ Sound(req[t]) /\ KeysFree(req[t]) /\ Written(req[t])
        /\ \A c \in Cell : db'[c] = IF c \in DOMAIN f THEN f[c] ELSE db[c]
    BY CommitterIs DEF Committing
  <1>2. \A v \in Version : <<v, "of">> \in Cell /\ <<v, "number">> \in Cell
    BY DEF Cell
  <1> SUFFICES ASSUME NEW w \in Workflow
               PROVE  {db'[<<v, "number">>] : v \in VersionsOf(w)'}
                         = 0..(Cardinality(VersionsOf(w)') - 1)
    BY DEF NumbersAreASequence
  <1>3. \A v \in VersionsOf(w) : /\ <<v, "of">> \notin DOMAIN f /\ <<v, "number">> \notin DOMAIN f
                                 /\ v \in VersionsOf(w)'
                                 /\ db'[<<v, "number">>] = db[<<v, "number">>]
    BY RowsStay, StudioAssumption DEF VersionsOf, Present
  <1>4. /\ {db[<<v, "number">>] : v \in VersionsOf(w)} = 0..(Cardinality(VersionsOf(w)) - 1)
        /\ Cardinality(VersionsOf(w)) \in Nat
    BY RowsStay DEF Committing, StudioInv, NumbersAreASequence
  <1>5. ASSUME NEW v \in VersionsOf(w)', v \notin VersionsOf(w)
        PROVE  /\ <<v, "of">> \in DOMAIN f /\ f[<<v, "of">>] = w
               /\ <<v, "number">> \in DOMAIN f
               /\ DOMAIN f = {v} \X {"of", "number", "status", "definition"}
    <2>1. v \in Version /\ db'[<<v, "of">>] = w /\ db[<<v, "of">>] # w
      BY <1>5 DEF VersionsOf
    <2>2. <<v, "of">> \in DOMAIN f /\ f[<<v, "of">>] = w
      BY <1>1, <1>2, <2>1
    <2>3. DOMAIN f = {v} \X {"of", "number", "status", "definition"}
      BY <1>1, <2>1, <2>2 DEF Sound, OfNewVersion
    <2> QED
      BY <2>2, <2>3
  <1>6. CASE VersionsOf(w)' = VersionsOf(w)
    BY <1>3, <1>4, <1>6
  <1>7. CASE VersionsOf(w)' # VersionsOf(w)
    <2>1. PICK v \in VersionsOf(w)' : v \notin VersionsOf(w)
      BY <1>3, <1>7
    <2>2. VersionsOf(w)' = VersionsOf(w) \cup {v}
      <3>1. ASSUME NEW x \in VersionsOf(w)', x \notin VersionsOf(w)
            PROVE  x = v
        <4>1. <<x, "of">> \in DOMAIN f
          BY <1>5, <3>1
        <4>2. DOMAIN f = {v} \X {"of", "number", "status", "definition"}
          BY <1>5, <2>1
        <4> QED
          BY <4>1, <4>2
      <3> QED
        BY <1>3, <2>1, <3>1
    <2> DEFINE n == Cardinality(VersionsOf(w))
               k == f[<<v, "number">>]
    <2>3. Cardinality(VersionsOf(w)') = n + 1
      <3>1. IsFiniteSet(VersionsOf(w))
        BY StudioAssumption, FS_Subset DEF VersionsOf
      <3> QED
        BY <2>1, <2>2, <3>1, FS_AddElement
    <2>4. v \in Version /\ <<v, "of">> \in DOMAIN f /\ <<v, "number">> \in DOMAIN f
          /\ f[<<v, "of">>] = w /\ db'[<<v, "number">>] = k
      BY <1>1, <1>2, <1>5, <2>1 DEF VersionsOf
    <2>5. k \in Nat /\ k <= n
      BY <1>1, <2>4 DEF Sound, Typed, Fits, OfNewVersion
    <2>6. k \notin {db[<<x, "number">>] : x \in VersionsOf(w)}
      BY <1>1, <2>4 DEF KeysFree, VersionsOf
    <2>7. k = n
      <3>1. k \notin 0..(n - 1) /\ n \in Nat
        BY <1>4, <2>6
      <3> HIDE DEF k, n
      <3> QED
        BY <2>5, <3>1
    <2>8. {db'[<<x, "number">>] : x \in VersionsOf(w)'} = 0..(n - 1) \cup {n}
      <3>1. {db'[<<x, "number">>] : x \in VersionsOf(w)}
               = {db[<<x, "number">>] : x \in VersionsOf(w)}
        BY <1>3
      <3>2. {db'[<<x, "number">>] : x \in VersionsOf(w)'}
               = {db'[<<x, "number">>] : x \in VersionsOf(w)} \cup {db'[<<v, "number">>]}
        BY <2>2
      <3> QED
        BY <1>4, <2>4, <2>7, <3>1, <3>2
    <2>9. n \in Nat
      BY <1>4
    <2> HIDE DEF n
    <2>10. 0..(n - 1) \cup {n} = 0..(n + 1 - 1)
      BY <2>9
    <2>11. {db'[<<x, "number">>] : x \in VersionsOf(w)'} = 0..(n + 1 - 1)
      BY <2>8, <2>10, Zenon
    <2>12. 0..(n + 1 - 1) = 0..(Cardinality(VersionsOf(w)') - 1)
      BY <2>3, <2>9
    <2> QED
      BY <2>11, <2>12, Zenon
  <1> QED
    BY <1>6, <1>7

(* A commit leaves everything in order. *)
LEMMA Commits ==
    ASSUME StudioInv, NEW t \in Req, Commit(t)
    PROVE  StudioInv'
  <1>1. Committing(t)
    BY CommitIs
  <1>2. StudioTypeOK'
    <2>1. Len(trail') = entries'
      BY <1>1, CommitKeepsTrail
    <2> QED
      BY <1>1, <2>1, CommitKeepsRows
         DEF StudioTypeOK, NameOf, Draft, StatusOf, DefinitionOf, Status
  <1>3. TrailInv'
    BY <1>1, CommitKeepsTrail DEF TrailInv
  <1>4. LiveRunsWereDeployed'
    <2> DEFINE q == req[t]
    <2> SUFFICES ASSUME NEW r \in runs', r.version # Null
                 PROVE  DeployEntry(r.version)'
      BY DEF LiveRunsWereDeployed, DeployEntry
    <2>1. DeployEntry(r.version)
      <3>1. CASE r \in runs
        BY <3>1 DEF StudioInv, LiveRunsWereDeployed, DeployEntry
      <3>2. CASE r \notin runs
        <4>1. q.op \in {"run", "test"} /\ r.version = q.v
          BY <3>2 DEF Commit
        <4> QED
          BY <1>1, <4>1, CommitterIs DEF Placed
      <3> QED
        BY <3>1, <3>2
    <2> QED
      BY <1>1, <2>1, CommitKeepsTrail
  <1> QED
    BY <1>1, <1>2, <1>3, <1>4, CommitKeepsRequests, CommitKeepsClaims, CommitKeepsNames,
       CommitKeepsNumbers DEF StudioInv

(* No step of any request disturbs the order. *)
LEMMA StudioStep ==
    ASSUME StudioInv, [StudioNext]_studioVars
    PROVE  StudioInv'
  <1>1. CASE UNCHANGED studioVars
    <2>1. /\ db' = db /\ req' = req /\ runs' = runs /\ trail' = trail /\ entries' = entries
          /\ appended' = appended
      BY <1>1 DEF studioVars
    <2>2. StudioTypeOK' /\ TrailInv'
      BY <2>1 DEF StudioInv, StudioTypeOK, NameOf, Draft, Exists, StatusOf, DefinitionOf,
                  TrailInv, DeployEntry
    <2>3. NamesAreAddresses' /\ NumbersAreASequence' /\ LiveRunsWereDeployed'
      <3>1. NamesAreAddresses'
        BY <2>1 DEF StudioInv, NamesAreAddresses, NameOf, Exists
      <3>2. NumbersAreASequence'
        BY <2>1 DEF StudioInv, NumbersAreASequence, VersionsOf
      <3>3. LiveRunsWereDeployed'
        BY <2>1 DEF StudioInv, LiveRunsWereDeployed
      <3> QED
        BY <3>1, <3>2, <3>3
    <2>4. ClaimInv'
      BY <2>1 DEF StudioInv, ClaimInv, KeysFree, Drawn, KeysApart, Written, NameOf
    <2>5. RequestInv'
      <3> SUFFICES ASSUME NEW t \in Req
                   PROVE  (Sound(req[t]) /\ Placed(req[t]) /\ Counted(req[t], appended[t]))'
        BY <2>1 DEF StudioInv, RequestInv
      <3>1. Sound(req[t]) /\ Placed(req[t]) /\ Counted(req[t], appended[t])
        BY DEF StudioInv, RequestInv
      <3>2. Typed(req[t])' /\ OfWorkflows(req[t])'
        BY <2>1, <3>1 DEF Sound, Typed, Fits, OfWorkflows, Exists
      <3>3. OfNewVersion(req[t])'
        BY <2>1, <3>1 DEF Sound, OfNewVersion, Present, VersionsOf
      <3>4. OfVersions(req[t])'
        BY <2>1, <3>1 DEF Sound, OfVersions, Present
      <3>5. Placed(req[t])' /\ Counted(req[t], appended[t])'
        BY <2>1, <3>1 DEF Placed, Counted, Exists, DeployEntry
      <3> QED
        BY <3>2, <3>3, <3>4, <3>5 DEF Sound
    <2> QED
      BY <2>2, <2>3, <2>4, <2>5 DEF StudioInv
  <1>2. ASSUME NEW t \in Req, Step(t)
        PROVE  StudioInv'
    BY <1>2, Claims, Reads, Incumbents, Lives, NumbersAreDrawn, Flushes, Entries, Refusals, Commits
       DEF Step, AppendRefused
  <1>3. ASSUME NEW t \in Req, Abort(t)
        PROVE  StudioInv'
    BY <1>3, Refusals DEF Abort
  <1> QED
    BY <1>1, <1>2, <1>3, Arrivals DEF StudioNext

(* An empty Studio is in order. *)
LEMMA StudioInitial ==
    ASSUME StudioInit
    PROVE  StudioInv
  <1>1. /\ \A c \in Cell : db[c] = Null
        /\ \A t \in Req : req[t] = Idle /\ appended[t] = 0
        /\ req \in [Req -> Requests] /\ appended \in [Req -> Nat]
        /\ runs = {} /\ trail = <<>> /\ entries = 0
    BY IdleFields DEF StudioInit, AppendInit
  <1>2. /\ \A w \in Workflow : <<w, "name">> \in Cell /\ <<w, "deleted">> \in Cell
                               /\ <<w, "draft">> \in Cell
        /\ \A v \in Version : <<v, "of">> \in Cell /\ <<v, "number">> \in Cell
                              /\ <<v, "status">> \in Cell /\ <<v, "definition">> \in Cell
    BY DEF Cell
  <1>3. StudioTypeOK /\ NamesAreAddresses /\ LiveRunsWereDeployed
    BY <1>1, <1>2 DEF StudioTypeOK, NamesAreAddresses, LiveRunsWereDeployed, Exists
  <1>4. TrailInv
    <2>1. \A v \in Version : StatusOf(v) = Null
      BY <1>1, <1>2 DEF StatusOf
    <2>2. Null # "deployed"
      BY StudioAssumption
    <2> QED
      BY <1>1, <2>1, <2>2 DEF TrailInv
  <1>5. NumbersAreASequence
    <2> SUFFICES ASSUME NEW w \in Workflow
                 PROVE  {db[<<v, "number">>] : v \in VersionsOf(w)}
                           = 0..(Cardinality(VersionsOf(w)) - 1)
      BY DEF NumbersAreASequence
    <2>1. VersionsOf(w) = {}
      BY <1>1, <1>2, StudioAssumption DEF VersionsOf
    <2>2. Cardinality(VersionsOf(w)) = 0
      BY <2>1, FS_EmptySet
    <2> QED
      BY <2>1, <2>2
  <1>6. RequestInv
    <2>1. Sound(Idle)
      BY IdleFields, NothingIsSound
    <2>2. Placed(Idle) /\ Counted(Idle, 0)
      BY IdleFields DEF Placed, Counted
    <2> QED
      BY <1>1, <2>1, <2>2 DEF RequestInv
  <1>7. ClaimInv
    BY <1>1, IdleFields DEF ClaimInv, KeysFree, KeysApart, Drawn, Written
  <1> QED
    BY <1>3, <1>4, <1>5, <1>6, <1>7 DEF StudioInv

(* The inductive invariant holds in every state of the Studio. *)
THEOREM StudioInvAlways == StudioSpec => []StudioInv
  BY StudioInitial, StudioStep, PTL DEF StudioSpec

(* Names, numbers and runs hold however requests race. *)
THEOREM StudioInvariantAlways == StudioSpec => []StudioInvariant
  <1>1. StudioInv => StudioInvariant
    BY DEF StudioInv, StudioInvariant
  <1> QED
    BY <1>1, StudioInvAlways, PTL

(***************************************************************************)
(* The requests in flight never all wait for each other, though they hold  *)
(* rows and keys while they wait for others' and then for the end of the   *)
(* audit log: whoever has an entry there has only its commit before it,    *)
(* and whoever still waits for a row has written none (the handlers of     *)
(* studio.py flush once, and append after it).                             *)
(***************************************************************************)
THEOREM SomebodyGoesOnAlways == StudioSpec => []SomebodyGoesOn
  <1>1. ASSUME StudioInv
        PROVE  SomebodyGoesOn
    <2> SUFFICES ASSUME \A t \in InFlight : HeldUp(t), InFlight # {}
                 PROVE  FALSE
      BY DEF SomebodyGoesOn
    <2>1. \A u \in Req : appended[u] # 0 => u \in InFlight /\ req[u].pc = "commit"
      BY <1>1 DEF StudioInv, RequestInv, Counted, InFlight
    <2>2. \A u \in Req : appended[u] = 0
      BY <2>1 DEF HeldUp
    <2>3. \A t \in InFlight : req[t].pc = "flush" /\ Waits(t)
      BY <2>2 DEF HeldUp, InFlight
    <2>4. \A u \in Req : Pending(u) = {} /\ RowsOf(Pending(u)) = {}
      BY <2>3 DEF Pending, Flushed, RowsOf, InFlight
    <2> QED
      BY <2>3, <2>4 DEF Waits, InFlight
  <1> QED
    BY <1>1, StudioInvAlways, PTL

-----------------------------------------------------------------------------
(* Entries are about versions that are there. *)
TrailRows ==
    \A i \in 1..Len(trail) : trail[i].op \in {"deploy", "retire"} =>
        trail[i].v \in Version /\ Present(trail[i].v)

(* What a request that is alone has read is still so. *)
Current(r) ==
    LET f == r.writes
        D == DOMAIN r.writes
        read == r.pc \in {"flush", "tail", "append", "commit"}
    IN /\ r.op \in {"compile", "edit", "deploy", "retire"} => Visible(r.w)
       /\ \A w \in Workflow : <<w, "deleted">> \in D /\ f[<<w, "deleted">>] = TRUE => Deployed(w) = {}
       /\ \A v \in Version : <<v, "definition">> \in D => StatusOf(v) \notin {"deployed", "retired"}
       /\ r.op = "deploy" /\ read =>
             /\ D \subseteq Version \X {"status"}
             /\ D = {} => StatusOf(r.v) = "deployed"
             /\ D # {} => \A v \in Deployed(r.w) : <<v, "status">> \in D
       /\ r.op = "retire" /\ read =>
             /\ D = {<<r.v, "status">>} /\ f[<<r.v, "status">>] = "retired"
             /\ StatusOf(r.v) = "deployed"

Alone == \A t, u \in Req : req[t].pc # "idle" /\ req[u].pc # "idle" => t = u

(* The invariant of requests that follow one another. *)
TurnInv ==
    /\ TrailRows
    /\ inTurn => Alone /\ LiveIsOnRecord /\ \A t \in Req : Current(req[t])

(* A step of one request that commits nothing, and finds what it is to find. *)
TurnStep(t, r) ==
    /\ req' = [req EXCEPT ![t] = r] /\ UNCHANGED <<db, trail, inTurn>>
    /\ req[t].pc # "idle" \/ (inTurn => InFlight = {})
    /\ inTurn => Current(r)

(* Such a step keeps turns. *)
LEMMA TurnKept ==
    ASSUME StudioInv, TurnInv, NEW t \in Req, NEW r, TurnStep(t, r)
    PROVE  TurnInv'
  <1>1. /\ req'[t] = r /\ \A u \in Req \ {t} : req'[u] = req[u]
        /\ db' = db /\ trail' = trail /\ inTurn' = inTurn
    BY DEF TurnStep, StudioInv, RequestInv
  <1>2. TrailRows'
    BY <1>1 DEF TurnInv, TrailRows, Present
  <1>3. ASSUME inTurn
        PROVE  Alone' /\ LiveIsOnRecord' /\ \A u \in Req : Current(req[u])'
    <2>1. Alone'
      BY <1>1, <1>3 DEF TurnInv, Alone, TurnStep, InFlight
    <2>2. AtMostOneDeployed' /\ DeletedIsNotDeployed'
      BY <1>1, <1>3 DEF TurnInv, LiveIsOnRecord, AtMostOneDeployed, DeletedIsNotDeployed,
                        Deployed, VersionsOf, StatusOf, Exists, Visible
    <2>3. TrailTellsWhatIsLive'
      <3>1. ASSUME NEW w \in Workflow
            PROVE  Deployed(w)' = Deployed(w) /\ LastChange(w)' = LastChange(w)
        BY <1>1 DEF LastChange, Deployed, VersionsOf, StatusOf
      <3>2. \A w \in Workflow :
               Deployed(w) = {e.v : e \in {x \in LastChange(w) : x.op = "deploy"}}
        BY <1>3 DEF TurnInv, LiveIsOnRecord, TrailTellsWhatIsLive
      <3> QED
        BY <3>1, <3>2 DEF TrailTellsWhatIsLive
    <2>4. ASSUME NEW u \in Req
          PROVE  Current(req[u])'
      <3>1. Current(req'[u])
        BY <1>1, <1>3 DEF TurnInv, TurnStep
      <3> QED
        BY <1>1, <3>1 DEF Current, Visible, Exists, Deployed, VersionsOf, StatusOf
    <2> QED
      BY <2>1, <2>2, <2>3, <2>4 DEF LiveIsOnRecord
  <1> QED
    BY <1>1, <1>2, <1>3 DEF TurnInv

(* A request refused leaves the next its turn. *)
LEMMA TurnRefused ==
    ASSUME StudioInv, TurnInv, NEW t \in Req, req[t].pc # "idle", Refuse(t), UNCHANGED inTurn
    PROVE  TurnInv'
  <1>1. Current(Idle)
    BY IdleFields DEF Current
  <1> QED
    BY <1>1, TurnKept DEF TurnStep, Refuse

(* A request that has nothing to write is current, its workflow being there. *)
LEMMA NothingIsCurrent ==
    ASSUME NEW r, DOMAIN r.writes = {},
           r.pc \notin {"flush", "tail", "append", "commit"} \/ r.op \notin {"deploy", "retire"},
           r.op \in {"compile", "edit", "deploy", "retire"} => Visible(r.w)
    PROVE  Current(r)
  BY DEF Current

(* Requests arrive in turn. *)
LEMMA TurnArrivals ==
    ASSUME StudioInv, TurnInv, NEW t \in Req, Arrive(t), UNCHANGED inTurn
    PROVE  TurnInv'
  <1> USE IdleFields
  <1>1. ASSUME NEW r, Begin(t, r), Current(r)
        PROVE  TurnInv'
    BY <1>1, TurnKept DEF TurnStep, Begin
  <1>2. ASSUME NEW r, Begin(t, r), DOMAIN r.writes = {},
               r.pc \notin {"flush", "tail", "append", "commit"} \/ r.op \notin {"deploy", "retire"},
               r.op \in {"compile", "edit", "deploy", "retire"} => Visible(r.w)
        PROVE  TurnInv'
    BY <1>1, <1>2, NothingIsCurrent
  <1>3. ASSUME NEW n \in Name, NEW d \in Definition, CreateWorkflow(t, n, d)
        PROVE  TurnInv'
    <2> DEFINE r == [Asks("create", "claim") EXCEPT !.n = n, !.d = d]
    <2>1. DOMAIN r.writes = {} /\ r.op = "create" /\ r.pc = "claim"
      BY DEF Asks, Requests, Ops, Places
    <2>2. Begin(t, r)
      BY <1>3 DEF CreateWorkflow
    <2> HIDE DEF r
    <2> QED
      BY <1>2, <2>1, <2>2
  <1>4. ASSUME NEW w \in Workflow, NEW n \in Name, DuplicateWorkflow(t, w, n)
        PROVE  TurnInv'
    <2> DEFINE r == [Asks("duplicate", "claim") EXCEPT !.n = n, !.d = Draft(w)]
    <2>1. DOMAIN r.writes = {} /\ r.op = "duplicate" /\ r.pc = "claim"
      BY DEF Asks, Requests, Ops, Places
    <2>2. Begin(t, r)
      BY <1>4 DEF DuplicateWorkflow
    <2> HIDE DEF r
    <2> QED
      BY <1>2, <2>1, <2>2
  <1>5. ASSUME NEW w \in Workflow, DeleteWorkflow(t, w)
        PROVE  TurnInv'
    <2> DEFINE r == [Asks("delete", "live") EXCEPT !.w = w]
    <2>1. DOMAIN r.writes = {} /\ r.op = "delete" /\ r.pc = "live"
      BY DEF Asks, Requests, Ops, Places
    <2>2. Begin(t, r)
      BY <1>5 DEF DeleteWorkflow
    <2> HIDE DEF r
    <2> QED
      BY <1>2, <2>1, <2>2
  <1>6. ASSUME NEW w \in Workflow, CompileWorkflow(t, w)
        PROVE  TurnInv'
    <2> DEFINE r == [Asks("compile", "number") EXCEPT !.w = w, !.d = Draft(w)]
    <2>1. DOMAIN r.writes = {} /\ r.op = "compile" /\ r.pc = "number" /\ r.w = w
      BY DEF Asks, Requests, Ops, Places
    <2>2. Begin(t, r) /\ Visible(w)
      BY <1>6 DEF CompileWorkflow
    <2> HIDE DEF r
    <2> QED
      BY <1>2, <2>1, <2>2
  <1>7. ASSUME NEW w \in Workflow, RunDraft(t, w)
        PROVE  TurnInv'
    <2> DEFINE r == [Asks("test", "commit") EXCEPT !.w = w, !.d = Draft(w)]
    <2>1. DOMAIN r.writes = {} /\ r.op = "test" /\ r.pc = "commit"
      BY DEF Asks, Requests, Ops, Places
    <2>2. Begin(t, r)
      BY <1>7 DEF RunDraft
    <2> HIDE DEF r
    <2> QED
      BY <1>2, <2>1, <2>2
  <1>8. ASSUME NEW n \in Name, RunDeployed(t, n)
        PROVE  TurnInv'
    <2>1. PICK w \in Workflow : Begin(t, [Asks("run", "live") EXCEPT !.w = w])
      BY <1>8 DEF RunDeployed
    <2> DEFINE r == [Asks("run", "live") EXCEPT !.w = w]
    <2>2. DOMAIN r.writes = {} /\ r.op = "run" /\ r.pc = "live" /\ Begin(t, r)
      BY <2>1 DEF Asks, Requests, Ops, Places
    <2> HIDE DEF r
    <2> QED
      BY <1>2, <2>2
  <1>9. ASSUME NEW v \in Version, NEW op \in {"edit", "deploy", "retire"},
               NEW d \in Definition \cup {Null}, AskVersion(t, op, v, d)
        PROVE  TurnInv'
    <2> DEFINE r == [Asks(op, "version") EXCEPT !.w = db[<<v, "of">>], !.v = v, !.d = d]
    <2>1. DOMAIN r.writes = {} /\ r.op = op /\ r.pc = "version" /\ r.w = db[<<v, "of">>]
      BY DEF Asks, Requests, Ops, Places
    <2>2. Begin(t, r) /\ Visible(db[<<v, "of">>])
      BY <1>9 DEF AskVersion, VersionsOf
    <2> HIDE DEF r
    <2> QED
      BY <1>2, <2>1, <2>2
  <1>10. ASSUME NEW w \in Workflow, RestoreWorkflow(t, w)
         PROVE  TurnInv'
    <2> DEFINE f == [c \in {<<w, "deleted">>} |-> FALSE]
               q == Asks("restore", "flush")
               r == [q EXCEPT !.w = w, !.writes = f]
    <2>1. DOMAIN f = {<<w, "deleted">>} /\ f[<<w, "deleted">>] = FALSE
      OBVIOUS
    <2>2. q \in Requests /\ q.op = "restore" /\ q.pc = "flush"
      BY DEF Asks, Requests, Ops, Places
    <2>3. Begin(t, r)
      BY <1>10 DEF RestoreWorkflow
    <2> HIDE DEF f, q
    <2>4. r.writes = f /\ r.op = "restore"
      BY <2>2 DEF Requests
    <2> HIDE DEF r
    <2>5. Current(r)
      BY <2>1, <2>4 DEF Current
    <2> QED
      BY <1>1, <2>3, <2>5
  <1>11. ASSUME NEW w \in Workflow, NEW n \in Name \cup {Null}, NEW d \in Definition \cup {Null},
                UpdateWorkflow(t, w, n, d)
         PROVE  TurnInv'
    <2> DEFINE renamed == n \notin {Null, NameOf(w)}
               named == IF renamed THEN {<<w, "name">>} ELSE {}
               drawn == IF d # Null THEN {<<w, "draft">>} ELSE {}
               f == [c \in named \cup drawn |-> IF c[2] = "name" THEN n ELSE d]
               pc == IF renamed THEN "claim" ELSE "flush"
               q == Asks("update", pc)
               r == [q EXCEPT !.w = w, !.n = n, !.d = d, !.writes = f]
    <2>1. DOMAIN f \subseteq {<<w, "name">>, <<w, "draft">>}
      OBVIOUS
    <2>2. q \in Requests /\ q.op = "update"
      <3>1. pc \in Places
        BY DEF Places
      <3> HIDE DEF pc
      <3> QED
        BY <3>1 DEF Asks, Requests, Ops
    <2>3. Begin(t, r)
      BY <1>11 DEF UpdateWorkflow
    <2> HIDE DEF f, q
    <2>4. r.writes = f /\ r.op = "update"
      BY <2>2 DEF Requests
    <2> HIDE DEF r
    <2>5. Current(r)
      BY <2>1, <2>4 DEF Current
    <2> QED
      BY <1>1, <2>3, <2>5
  <1> QED
    BY <1>3, <1>4, <1>5, <1>6, <1>7, <1>8, <1>9, <1>10, <1>11
       DEF Arrive, DeployVersion, RetireVersion, EditVersion

(* A request moves on with what it is going to write. *)
LEMMA TurnGoesOn ==
    ASSUME StudioInv, TurnInv, NEW t \in Req, UNCHANGED <<db, trail, inTurn>>,
           req[t].pc \in {"flush", "tail", "append"},
           NEW pc \in {"tail", "append", "commit"}, req' = [req EXCEPT ![t].pc = pc]
    PROVE  TurnInv'
  <1> DEFINE q == req[t]
             r == [q EXCEPT !.pc = pc]
  <1>1. q \in Requests
    BY DEF StudioInv, RequestInv
  <1>2. r.pc = pc /\ r.op = q.op /\ r.w = q.w /\ r.v = q.v /\ r.writes = q.writes
    BY <1>1 DEF Requests
  <1>3. req' = [req EXCEPT ![t] = r]
    OBVIOUS
  <1> HIDE DEF r
  <1>4. inTurn => Current(r)
    BY <1>2 DEF TurnInv, Current
  <1> QED
    BY <1>3, <1>4, TurnKept DEF TurnStep

(* Every other step finds what is so. *)
LEMMA TurnSteps ==
    ASSUME StudioInv, TurnInv, NEW t \in Req, UNCHANGED inTurn,
           \/ ClaimName(t) \/ ReadVersion(t) \/ ReadIncumbents(t) \/ ReadLive(t)
           \/ NumberVersion(t) \/ Flush(t) \/ ReadTail(t) \/ AppendEntry(t) \/ AppendRefused(t)
    PROVE  TurnInv'
  <1> DEFINE q == req[t]
  <1>1. q \in Requests /\ Placed(q) /\ Sound(q) /\ (inTurn => Current(q))
    BY DEF StudioInv, RequestInv, TurnInv
  <1>2. ASSUME NEW r, Proceed(t, r), q.pc # "idle", inTurn => Current(r)
        PROVE  TurnInv'
    BY <1>2, TurnKept DEF TurnStep, Proceed
  <1>3. CASE ClaimName(t)
    <2>1. q.pc = "claim" /\ q.op \in {"create", "duplicate", "update"}
      BY <1>1, <1>3 DEF ClaimName, Placed
    <2>2. CASE Refuse(t)
      BY <2>1, <2>2, TurnRefused
    <2>3. CASE Proceed(t, [q EXCEPT !.pc = "flush"])
      <3> DEFINE r == [q EXCEPT !.pc = "flush"]
      <3>1. r.op = q.op /\ r.writes = q.writes
        BY <1>1 DEF Requests
      <3> HIDE DEF r
      <3>2. inTurn => Current(r)
        BY <1>1, <2>1, <3>1 DEF Current
      <3> QED
        BY <1>2, <2>1, <2>3, <3>2 DEF r
    <2>4. ASSUME NEW w \in FreshIds(Workflow),
                 Proceed(t, [q EXCEPT !.pc = "flush", !.w = w,
                    !.writes = [c \in {w} \X {"name", "deleted", "draft"} |->
                                   CASE c[2] = "name" -> q.n
                                     [] c[2] = "deleted" -> FALSE
                                     [] c[2] = "draft" -> q.d]])
          PROVE  TurnInv'
      <3> DEFINE cells == {w} \X {"name", "deleted", "draft"}
                 f == [c \in cells |-> CASE c[2] = "name" -> q.n
                                         [] c[2] = "deleted" -> FALSE
                                         [] c[2] = "draft" -> q.d]
                 r == [q EXCEPT !.pc = "flush", !.w = w, !.writes = f]
      <3>1. DOMAIN f = cells /\ f[<<w, "deleted">>] = FALSE
        OBVIOUS
      <3>2. Proceed(t, r)
        BY <2>4
      <3> HIDE DEF f
      <3>3. r.op = q.op /\ r.writes = f
        BY <1>1 DEF Requests
      <3> HIDE DEF r
      <3>4. Current(r)
        BY <2>1, <3>1, <3>3 DEF Current
      <3> QED
        BY <1>2, <2>1, <3>2, <3>4
    <2> QED
      BY <1>3, <2>2, <2>3, <2>4 DEF ClaimName
  <1>4. CASE ReadVersion(t)
    <2>1. q.pc = "version" /\ q.op \in {"edit", "deploy", "retire"} /\ DOMAIN q.writes = {}
          /\ (inTurn => Visible(q.w))
      BY <1>1, <1>4 DEF ReadVersion, Placed, Current
    <2>2. CASE Refuse(t)
      BY <2>1, <2>2, TurnRefused
    <2>3. ASSUME NEW f, NEW r, r = [q EXCEPT !.pc = "flush", !.writes = f],
                 Proceed(t, r),
                 \/ /\ q.op = "edit" /\ StatusOf(q.v) = "draft"
                    /\ DOMAIN f = {<<q.v, "definition">>}
                 \/ /\ q.op = "retire" /\ StatusOf(q.v) = "deployed"
                    /\ DOMAIN f = {<<q.v, "status">>} /\ f[<<q.v, "status">>] = "retired"
          PROVE  TurnInv'
      <3>1. r.op = q.op /\ r.writes = f /\ r.w = q.w /\ r.v = q.v
        BY <1>1, <2>3 DEF Requests
      <3>2. inTurn => Current(r)
        BY <2>1, <2>3, <3>1 DEF Current
      <3> QED
        BY <1>2, <2>1, <2>3, <3>2
    <2>4. CASE /\ q.op = "edit" /\ StatusOf(q.v) = "draft"
               /\ Proceed(t, [q EXCEPT !.pc = "flush",
                                  !.writes = [c \in {<<q.v, "definition">>} |-> q.d]])
      <3> DEFINE f == [c \in {<<q.v, "definition">>} |-> q.d]
      <3>1. DOMAIN f = {<<q.v, "definition">>}
        OBVIOUS
      <3> HIDE DEF f
      <3> QED
        BY <2>3, <2>4, <3>1 DEF f
    <2>5. CASE /\ q.op = "retire" /\ StatusOf(q.v) = "deployed"
               /\ Proceed(t, [q EXCEPT !.pc = "flush", !.writes = SetStatus({q.v}, "retired")])
      <3>1. /\ DOMAIN SetStatus({q.v}, "retired") = {<<q.v, "status">>}
            /\ SetStatus({q.v}, "retired")[<<q.v, "status">>] = "retired"
        <4>1. {q.v} \X {"status"} = {<<q.v, "status">>}
          OBVIOUS
        <4> QED
          BY <4>1 DEF SetStatus
      <3> QED
        BY <2>3, <2>5, <3>1
    <2>6. ASSUME q.op = "deploy", NEW pc \in {"incumbents", "tail"}, Proceed(t, [q EXCEPT !.pc = pc]),
                 pc = "tail" => StatusOf(q.v) = "deployed"
          PROVE  TurnInv'
      <3> DEFINE r == [q EXCEPT !.pc = pc]
      <3>1. r.op = q.op /\ r.writes = q.writes /\ r.w = q.w /\ r.v = q.v /\ r.pc = pc
        BY <1>1 DEF Requests
      <3> HIDE DEF r
      <3>2. inTurn => Current(r)
        BY <2>1, <2>6, <3>1 DEF Current
      <3> QED
        BY <1>2, <2>1, <2>6, <3>2 DEF r
    <2> QED
      BY <1>4, <2>2, <2>4, <2>5, <2>6 DEF ReadVersion
  <1>5. CASE ReadIncumbents(t)
    <2> DEFINE rows == Deployed(q.w) \cup {q.v}
               f == [c \in rows \X {"status"} |-> IF c[1] = q.v THEN "deployed" ELSE "retired"]
               r == [q EXCEPT !.pc = "flush", !.writes = f]
    <2>1. /\ q.pc = "incumbents" /\ q.op = "deploy" /\ q.v \in Version /\ Proceed(t, r)
          /\ rows \subseteq Version /\ q.v \in rows
      BY <1>1, <1>5 DEF ReadIncumbents, Placed, Deployed, VersionsOf
    <2>2. DOMAIN f = rows \X {"status"}
      OBVIOUS
    <2> HIDE DEF f
    <2>3. r.op = q.op /\ r.writes = f /\ r.w = q.w /\ r.v = q.v
      BY <1>1 DEF Requests
    <2> HIDE DEF r
    <2>4. inTurn => Current(r)
      <3>1. /\ DOMAIN f \subseteq Version \X {"status"} /\ <<q.v, "status">> \in DOMAIN f
            /\ \A v \in Deployed(q.w) : <<v, "status">> \in DOMAIN f
            /\ \A c \in DOMAIN f : c[2] = "status"
        BY <2>1, <2>2
      <3>2. inTurn => Visible(q.w)
        BY <1>1, <2>1 DEF Current
      <3> QED
        BY <2>1, <2>3, <3>1, <3>2 DEF Current
    <2> QED
      BY <1>2, <2>1, <2>4
  <1>6. CASE ReadLive(t)
    <2>1. q.pc = "live" /\ DOMAIN q.writes = {}
      BY <1>1, <1>6 DEF ReadLive, Placed
    <2>2. CASE Refuse(t)
      BY <2>1, <2>2, TurnRefused
    <2>3. CASE /\ q.op = "delete" /\ Deployed(q.w) = {}
               /\ Proceed(t, [q EXCEPT !.pc = "flush",
                                  !.writes = [c \in {<<q.w, "deleted">>} |-> TRUE]])
      <3> DEFINE f == [c \in {<<q.w, "deleted">>} |-> TRUE]
                 r == [q EXCEPT !.pc = "flush", !.writes = f]
      <3>1. DOMAIN f = {<<q.w, "deleted">>} /\ Proceed(t, r)
        BY <2>3
      <3> HIDE DEF f
      <3>2. r.op = q.op /\ r.writes = f
        BY <1>1 DEF Requests
      <3> HIDE DEF r
      <3>3. Current(r)
        BY <2>3, <3>1, <3>2 DEF Current
      <3> QED
        BY <1>2, <2>1, <3>1, <3>3
    <2>4. ASSUME q.op = "run", NEW v \in Deployed(q.w),
                 Proceed(t, [q EXCEPT !.pc = "commit", !.v = v, !.d = DefinitionOf(v)])
          PROVE  TurnInv'
      <3> DEFINE r == [q EXCEPT !.pc = "commit", !.v = v, !.d = DefinitionOf(v)]
      <3>1. r.op = "run" /\ r.writes = q.writes /\ Proceed(t, r)
        BY <1>1, <2>4 DEF Requests
      <3> HIDE DEF r
      <3>2. Current(r)
        BY <2>1, <3>1, NothingIsCurrent
      <3> QED
        BY <1>2, <2>1, <3>1, <3>2
    <2> QED
      BY <1>6, <2>2, <2>3, <2>4 DEF ReadLive
  <1>7. CASE NumberVersion(t)
    <2> DEFINE k == NextVersion(q.w)
    <2>1. q.pc = "number" /\ q.op = "compile" /\ (inTurn => Visible(q.w))
      BY <1>1, <1>7 DEF NumberVersion, Placed, Current
    <2>2. PICK v \in FreshIds(Version) :
             Proceed(t, [q EXCEPT !.pc = "flush", !.v = v,
                !.writes = [c \in {v} \X {"of", "number", "status", "definition"} |->
                               CASE c[2] = "of" -> q.w
                                 [] c[2] = "number" -> k
                                 [] c[2] = "status" -> "draft"
                                 [] c[2] = "definition" -> q.d]])
      BY <1>7 DEF NumberVersion
    <2> DEFINE cells == {v} \X {"of", "number", "status", "definition"}
               f == [c \in cells |-> CASE c[2] = "of" -> q.w
                                       [] c[2] = "number" -> k
                                       [] c[2] = "status" -> "draft"
                                       [] c[2] = "definition" -> q.d]
               r == [q EXCEPT !.pc = "flush", !.v = v, !.writes = f]
    <2>3. StatusOf(v) = Null /\ StatusOf(v) \notin {"deployed", "retired"}
      <3>1. v \in Version /\ <<v, "status">> \in Cell
        BY <2>2 DEF FreshIds, Cell
      <3> QED
        BY <2>2, <3>1, StudioAssumption DEF FreshIds, StatusOf
    <2>4. DOMAIN f = cells /\ Proceed(t, r)
      BY <2>2
    <2> HIDE DEF f
    <2>5. r.op = q.op /\ r.writes = f /\ r.w = q.w
      BY <1>1 DEF Requests
    <2> HIDE DEF r
    <2>6. inTurn => Current(r)
      BY <2>1, <2>3, <2>4, <2>5 DEF Current
    <2> QED
      BY <1>2, <2>1, <2>4, <2>6
  <1>8. CASE Flush(t)
    <2>1. CASE Refuse(t)
      BY <1>8, <2>1, TurnRefused DEF Flush
    <2>2. CASE Proceed(t, [q EXCEPT !.pc = IF Audited(q.op) THEN "tail" ELSE "commit"])
      BY <1>8, <2>2, TurnGoesOn DEF Flush, Proceed
    <2> QED
      BY <1>8, <2>1, <2>2 DEF Flush
  <1>9. CASE ReadTail(t)
    BY <1>9, TurnGoesOn DEF ReadTail
  <1>10. CASE AppendEntry(t)
    BY <1>10, TurnGoesOn DEF AppendEntry
  <1>11. CASE AppendRefused(t)
    BY <1>11, TurnRefused DEF AppendRefused
  <1> QED
    BY <1>3, <1>4, <1>5, <1>6, <1>7, <1>8, <1>9, <1>10, <1>11

-----------------------------------------------------------------------------
(* A status is what it was or what the request wrote; a new version is a draft. *)
LEMMA StatusAfter ==
    ASSUME NEW t, Committing(t), NEW v \in Version
    PROVE  /\ <<v, "status">> \in DOMAIN req[t].writes =>
                  StatusOf(v)' = req[t].writes[<<v, "status">>]
           /\ <<v, "status">> \notin DOMAIN req[t].writes => StatusOf(v)' = StatusOf(v)
           /\ <<v, "of">> \in DOMAIN req[t].writes => StatusOf(v)' = "draft" /\ ~Present(v)
           /\ <<v, "of">> \notin DOMAIN req[t].writes => db'[<<v, "of">>] = db[<<v, "of">>]
  <1> DEFINE f == req[t].writes
  <1>1. /\ <<v, "status">> \in Cell /\ <<v, "of">> \in Cell /\ Sound(req[t])
        /\ \A c \in Cell : db'[c] = IF c \in DOMAIN f THEN f[c] ELSE db[c]
    BY CommitterIs DEF Cell, Committing
  <1>2. ASSUME <<v, "of">> \in DOMAIN f
        PROVE  <<v, "status">> \in DOMAIN f /\ f[<<v, "status">>] = "draft" /\ ~Present(v)
    BY <1>1, <1>2 DEF Sound, OfNewVersion
  <1> QED
    BY <1>1, <1>2 DEF StatusOf

(* The versions of a workflow are versions, and they stay. *)
LEMMA VersionsStay ==
    ASSUME NEW t, Committing(t), NEW w \in Workflow, NEW v \in VersionsOf(w)
    PROVE  /\ v \in Version /\ Present(v) /\ db[<<v, "of">>] = w
           /\ <<v, "of">> \notin DOMAIN req[t].writes /\ v \in VersionsOf(w)'
  <1>1. v \in Version /\ db[<<v, "of">>] = w /\ w # Null
    BY StudioAssumption DEF VersionsOf
  <1>2. Present(v)
    BY <1>1 DEF Present
  <1>3. <<v, "of">> \notin DOMAIN req[t].writes /\ v \in VersionsOf(w)'
    BY <1>1, <1>2, RowsStay
  <1> QED
    BY <1>1, <1>2, <1>3

(* What is live after a commit was one of the workflow's versions before.  *)
LEMMA DeployedAfter ==
    ASSUME NEW t, Committing(t), NEW w \in Workflow, NEW v
    PROVE  /\ v \in Deployed(w)' <=> v \in VersionsOf(w) /\ StatusOf(v)' = "deployed"
           /\ v \in Deployed(w) => v \in Version /\ Present(v) /\ <<v, "of">> \notin DOMAIN req[t].writes
  <1> DEFINE f == req[t].writes
  <1>1. ASSUME v \in VersionsOf(w)
        PROVE  v \in Version /\ Present(v) /\ <<v, "of">> \notin DOMAIN f /\ v \in VersionsOf(w)'
    BY <1>1, VersionsStay
  <1>2. ASSUME v \in VersionsOf(w)', StatusOf(v)' = "deployed"
        PROVE  v \in VersionsOf(w)
    <2>1. v \in Version /\ db'[<<v, "of">>] = w
      BY <1>2 DEF VersionsOf
    <2>2. <<v, "of">> \notin DOMAIN f
      BY <1>2, <2>1, StatusAfter
    <2>3. db[<<v, "of">>] = w
      BY <2>1, <2>2, StatusAfter
    <2> QED
      BY <2>1, <2>3 DEF VersionsOf
  <1> QED
    BY <1>1, <1>2 DEF Deployed

(* Only a deployment and a retirement change what is live, and only of the *)
(* workflow they name.                                                     *)
LEMMA OthersLive ==
    ASSUME NEW t, Committing(t), NEW w \in Workflow,
           req[t].op \notin {"deploy", "retire"} \/ w # req[t].w
    PROVE  Deployed(w)' = Deployed(w)
  <1> DEFINE f == req[t].writes
  <1>1. Sound(req[t]) /\ Placed(req[t])
    BY CommitterIs
  <1>2. ASSUME NEW v \in VersionsOf(w)
        PROVE  StatusOf(v)' = StatusOf(v)
    <2>1. v \in Version /\ Present(v) /\ <<v, "of">> \notin DOMAIN f /\ db[<<v, "of">>] = w
      BY VersionsStay
    <2>2. <<v, "status">> \notin DOMAIN f
      BY <1>1, <2>1 DEF Sound, OfVersions, Placed
    <2> QED
      BY <2>1, <2>2, StatusAfter
  <1>3. \A v : v \in Deployed(w)' <=> v \in Deployed(w)
    BY <1>2, DeployedAfter DEF Deployed
  <1> QED
    BY <1>3

(* Deploying never leaves a name without a version: only retiring does. *)
LEMMA CommitUnresolves ==
    ASSUME NEW t, Committing(t)
    PROVE  OnlyRetiringUnresolves
  <1> DEFINE q == req[t]
             f == q.writes
  <1>1. Sound(q) /\ Placed(q) /\ q.pc = "commit" /\ t \in Req
    BY CommitterIs DEF Committing
  <1> SUFFICES ASSUME NEW w \in Workflow, Deployed(w) # {}, Deployed(w)' = {}
               PROVE  q.op = "retire" /\ q.w = w
    BY <1>1 DEF OnlyRetiringUnresolves
  <1>2. q.op \in {"deploy", "retire"} /\ q.w = w
    BY OthersLive
  <1>3. CASE q.op = "deploy"
    <2>1. PICK v \in Version : v = q.v /\ v \in VersionsOf(w)
      BY <1>1, <1>2, <1>3 DEF Placed, VersionsOf
    <2>2. DOMAIN f # {}
      <3>1. SUFFICES ASSUME DOMAIN f = {}
                     PROVE  Deployed(w)' = Deployed(w)
        OBVIOUS
      <3>2. ASSUME NEW x \in Version
            PROVE  StatusOf(x)' = StatusOf(x)
        BY <3>1, StatusAfter
      <3>3. ASSUME NEW x
            PROVE  x \in Deployed(w)' <=> x \in Deployed(w)
        <4>1. x \in Deployed(w)' <=> x \in VersionsOf(w) /\ StatusOf(x)' = "deployed"
          BY DeployedAfter
        <4>2. x \in VersionsOf(w) => StatusOf(x)' = StatusOf(x)
          BY <3>2 DEF VersionsOf
        <4> QED
          BY <4>1, <4>2 DEF Deployed
      <3> QED
        BY <3>3
    <2>3. <<v, "status">> \in DOMAIN f /\ f[<<v, "status">>] = "deployed"
      BY <1>1, <1>3, <2>1, <2>2 DEF Placed
    <2>4. StatusOf(v)' = "deployed"
      BY <2>3, StatusAfter
    <2>5. v \in Deployed(w)'
      BY <2>1, <2>4, DeployedAfter
    <2> QED
      BY <2>5
  <1> QED
    BY <1>2, <1>3

(* In turn, a deployment leaves one version live and a retirement none. *)
LEMMA LiveAfter ==
    ASSUME NEW t, Committing(t), TurnInv, inTurn, req[t].op \in {"deploy", "retire"},
           NEW w, w = req[t].w
    PROVE  /\ w \in Workflow /\ req[t].v \in VersionsOf(w) /\ Visible(w)
           /\ req[t].op = "deploy" => Deployed(w)' = {req[t].v}
           /\ req[t].op = "retire" => Deployed(w)' = {}
  <1> DEFINE q == req[t]
             f == q.writes
  <1>1. Sound(q) /\ Placed(q) /\ q.pc = "commit" /\ t \in Req /\ Current(q)
    BY CommitterIs DEF Committing, TurnInv
  <1>2. w \in Workflow /\ Visible(w)
    BY <1>1 DEF Placed, Current
  <1>3. PICK v \in Version : v = q.v /\ v \in VersionsOf(w)
    BY <1>1 DEF Placed, VersionsOf
  <1>4. IsFiniteSet(Deployed(w)) /\ \A a, b \in Deployed(w) : a = b
    <2>1. IsFiniteSet(Deployed(w))
      BY StudioAssumption, FS_Subset DEF Deployed, VersionsOf
    <2>2. Cardinality(Deployed(w)) <= 1
      BY <1>2 DEF TurnInv, LiveIsOnRecord, AtMostOneDeployed
    <2>3. ASSUME NEW a \in Deployed(w), NEW b \in Deployed(w), a # b
          PROVE  FALSE
      <3>1. {a, b} \subseteq Deployed(w) /\ Cardinality({a, b}) = 2
        <4>1. Cardinality({a}) = 1 /\ IsFiniteSet({a})
          BY FS_Singleton
        <4>2. Cardinality({a} \cup {b}) = 2
          <5>1. Cardinality({a} \cup {b}) =
                   IF b \in {a} THEN Cardinality({a}) ELSE Cardinality({a}) + 1
            BY <4>1, FS_AddElement
          <5> QED
            BY <2>3, <4>1, <5>1
        <4>3. {a} \cup {b} = {a, b}
          OBVIOUS
        <4> QED
          BY <4>2, <4>3
      <3>2. Cardinality({a, b}) <= Cardinality(Deployed(w))
        BY <2>1, <3>1, FS_Subset
      <3>3. Cardinality(Deployed(w)) \in Nat
        BY <2>1, FS_CardinalityType
      <3> QED
        BY <2>2, <3>1, <3>2, <3>3
    <2> QED
      BY <2>1, <2>3
  <1>5. CASE q.op = "deploy" /\ DOMAIN f = {}
    <2>1. StatusOf(v) = "deployed" /\ v \in Deployed(w)
      BY <1>1, <1>3, <1>5 DEF Current, Deployed
    <2>2. ASSUME NEW x \in Version
          PROVE  StatusOf(x)' = StatusOf(x)
      BY <1>5, StatusAfter
    <2>3. ASSUME NEW x
          PROVE  x \in Deployed(w)' <=> x = v
      <3>1. x \in Deployed(w)' <=> x \in VersionsOf(w) /\ StatusOf(x)' = "deployed"
        BY <1>2, DeployedAfter
      <3>2. x \in VersionsOf(w) => StatusOf(x)' = StatusOf(x)
        BY <2>2 DEF VersionsOf
      <3>3. x \in Deployed(w)' <=> x \in Deployed(w)
        BY <3>1, <3>2 DEF Deployed
      <3> QED
        BY <1>4, <2>1, <3>3
    <2>4. Deployed(w)' = {v}
      BY <2>3
    <2> QED
      BY <1>2, <1>3, <1>5, <2>4
  <1>6. CASE q.op = "deploy" /\ DOMAIN f # {}
    <2>1. <<v, "status">> \in DOMAIN f /\ f[<<v, "status">>] = "deployed"
      BY <1>1, <1>3, <1>6 DEF Placed
    <2>2. StatusOf(v)' = "deployed"
      BY <2>1, StatusAfter
    <2>3. ASSUME NEW x \in VersionsOf(w), x # v
          PROVE  StatusOf(x)' # "deployed"
      <3>1. x \in Version
        BY DEF VersionsOf
      <3>2. <<x, "status">> \in DOMAIN f => f[<<x, "status">>] # "deployed"
        BY <1>1, <1>3, <2>3, <3>1 DEF Sound, OfVersions
      <3>3. <<x, "status">> \notin DOMAIN f => StatusOf(x) # "deployed"
        BY <1>1, <1>6, <2>3, <3>1 DEF Current, Deployed
      <3>4. \/ StatusOf(x)' = f[<<x, "status">>] /\ <<x, "status">> \in DOMAIN f
            \/ StatusOf(x)' = StatusOf(x) /\ <<x, "status">> \notin DOMAIN f
        BY <3>1, StatusAfter
      <3> QED
        BY <3>2, <3>3, <3>4
    <2>4. ASSUME NEW x
          PROVE  x \in Deployed(w)' <=> x = v
      BY <1>2, <1>3, <2>2, <2>3, DeployedAfter
    <2>5. Deployed(w)' = {v}
      BY <2>4
    <2> QED
      BY <1>2, <1>3, <1>6, <2>5
  <1>7. CASE q.op = "retire"
    <2>1. /\ StatusOf(v) = "deployed" /\ <<v, "status">> \in DOMAIN f
          /\ f[<<v, "status">>] = "retired"
      BY <1>1, <1>3, <1>7 DEF Current
    <2>2. StatusOf(v)' = "retired"
      BY <2>1, StatusAfter
    <2>3. ASSUME NEW x \in VersionsOf(w), StatusOf(x)' = "deployed"
          PROVE  x \in Deployed(w)
      <3>1. x \in Version /\ (<<x, "status">> \in DOMAIN f => f[<<x, "status">>] # "deployed")
        BY <1>1, <1>7 DEF VersionsOf, Sound, OfVersions
      <3>2. \/ StatusOf(x)' = f[<<x, "status">>] /\ <<x, "status">> \in DOMAIN f
            \/ StatusOf(x)' = StatusOf(x)
        BY <3>1, StatusAfter
      <3> QED
        BY <2>3, <3>1, <3>2 DEF Deployed
    <2>4. v \in Deployed(w)
      BY <1>3, <2>1 DEF Deployed
    <2>5. ASSUME NEW x \in Deployed(w)'
          PROVE  FALSE
      <3>1. x \in VersionsOf(w) /\ StatusOf(x)' = "deployed"
        BY <1>2, DeployedAfter
      <3>2. x = v
        BY <1>4, <2>3, <2>4, <3>1
      <3> QED
        BY <2>2, <3>1, <3>2
    <2>6. Deployed(w)' = {}
      BY <2>5
    <2> QED
      BY <1>2, <1>3, <1>7, <2>6
  <1> QED
    BY <1>5, <1>6, <1>7

(* The last change about a workflow after a commit. *)
LEMMA LastAfter ==
    ASSUME NEW t, Committing(t), TrailRows, NEW w \in Workflow
    PROVE  LET q == req[t]
               mine == q.op \in {"deploy", "retire"} /\ q.v \in VersionsOf(w)
           IN /\ ~mine => LastChange(w)' = LastChange(w)
              /\ mine => LastChange(w)' = {[op |-> q.op, v |-> q.v]}
  <1> DEFINE q == req[t]
             e == [op |-> q.op, v |-> q.v]
             mine == q.op \in {"deploy", "retire"} /\ q.v \in VersionsOf(w)
             Chg == {i \in 1..Len(trail) :
                        trail[i].op \in {"deploy", "retire"} /\ trail[i].v \in VersionsOf(w)}
             New == {i \in 1..Len(trail') :
                        trail'[i].op \in {"deploy", "retire"} /\ trail'[i].v \in VersionsOf(w)'}
  <1>1. /\ q \in Requests /\ Counted(q, appended[t]) /\ q.pc = "commit"
        /\ trail \in Seq([op : Ops, v : Version \cup {Null}]) /\ Len(trail) \in Nat
    BY CommitterIs, LenProperties DEF Committing, Sound, Typed, StudioInv, TrailInv
  <1>2. \A v \in Version : Present(v) => (v \in VersionsOf(w)' <=> v \in VersionsOf(w))
    BY RowsStay DEF VersionsOf
  <1>3. trail' = IF appended[t] > 0 THEN trail \o <<e>> ELSE trail
    BY DEF Committing, Commit
  <1>4. e \in [op : Ops, v : Version \cup {Null}] /\ e.op = q.op /\ e.v = q.v
    BY <1>1 DEF Requests
  <1>5. LastChange(w) = {trail[i] : i \in {j \in Chg : \A k \in Chg : k <= j}}
    BY DEF LastChange
  <1>6. LastChange(w)' = {trail'[i] : i \in {j \in New : \A k \in New : k <= j}}
    BY DEF LastChange
  <1> HIDE DEF e
  <1>7. CASE appended[t] = 0
    <2>1. trail' = trail /\ ~Audited(q.op)
      BY <1>1, <1>3, <1>7 DEF Counted
    <2>2. New = Chg
      BY <1>2, <2>1 DEF TrailRows
    <2> QED
      BY <1>5, <1>6, <2>1, <2>2 DEF Audited
  <1>8. CASE appended[t] = 1
    <2>1. /\ Len(trail') = Len(trail) + 1
          /\ \A i \in 1..Len(trail) : trail'[i] = trail[i]
          /\ trail'[Len(trail) + 1] = e
      BY <1>1, <1>3, <1>4, <1>8, AppendProperties
    <2>2. 1..Len(trail') = 1..Len(trail) \cup {Len(trail) + 1}
      BY <1>1, <2>1
    <2>3. \A i \in 1..Len(trail) : i \in New <=> i \in Chg
      BY <1>2, <2>1, <2>2 DEF TrailRows
    <2>4. Len(trail) + 1 \in New <=> e.op \in {"deploy", "retire"} /\ e.v \in VersionsOf(w)'
      BY <2>1, <2>2
    <2>5. q.op \in {"deploy", "retire"} => q.v \in Version /\ Present(q.v)
      BY CommitterIs, StudioAssumption DEF Placed, Present
    <2>6. Len(trail) + 1 \in New <=> mine
      BY <1>2, <1>4, <2>4, <2>5
    <2>7. New \subseteq 1..Len(trail) \cup {Len(trail) + 1} /\ Chg \subseteq 1..Len(trail)
      BY <2>2
    <2> HIDE DEF New, Chg
    <2>8. CASE ~mine
      <3>1. New = Chg
        BY <2>3, <2>6, <2>7, <2>8
      <3>2. \A i \in Chg : trail'[i] = trail[i]
        BY <2>1, <2>7
      <3> QED
        BY <1>5, <1>6, <2>8, <3>1, <3>2
    <2>9. CASE mine
      <3>1. {j \in New : \A k \in New : k <= j} = {Len(trail) + 1}
        <4>1. Len(trail) + 1 \in New /\ \A k \in New : k \in Int /\ k <= Len(trail) + 1
          BY <1>1, <2>6, <2>7, <2>9
        <4>2. \A j \in New : (\A k \in New : k <= j) <=> j = Len(trail) + 1
          BY <1>1, <4>1
        <4> QED
          BY <4>1, <4>2
      <3>2. LastChange(w)' = {trail'[Len(trail) + 1]}
        BY <1>6, <3>1
      <3> QED
        BY <2>1, <2>9, <3>2 DEF e
    <2> QED
      BY <2>8, <2>9
  <1> QED
    BY <1>1, <1>7, <1>8 DEF Counted

(* A commit in turn keeps what is live on record. *)
LEMMA TurnCommits ==
    ASSUME StudioInv, TurnInv, NEW t \in Req, Commit(t), UNCHANGED inTurn
    PROVE  TurnInv'
  <1> DEFINE q == req[t]
             f == q.writes
  <1>1. /\ Committing(t) /\ Sound(q) /\ Placed(q) /\ q.pc = "commit" /\ inTurn' = inTurn
        /\ Counted(q, appended[t])
    BY CommitIs, CommitterIs
  <1>2. TrailRows'
    <2> DEFINE e == [op |-> q.op, v |-> q.v]
    <2>1. trail' = (IF appended[t] > 0 THEN trail \o <<e>> ELSE trail)
          /\ trail \in Seq([op : Ops, v : Version \cup {Null}]) /\ Len(trail) \in Nat
          /\ e \in [op : Ops, v : Version \cup {Null}] /\ e.op = q.op /\ e.v = q.v
      BY <1>1, LenProperties DEF Commit, StudioInv, TrailInv, Sound, Typed, Requests
    <2> HIDE DEF e
    <2>2. e.op \in {"deploy", "retire"} => e.v \in Version /\ Present(e.v)
      BY <1>1, <2>1, StudioAssumption DEF Placed, Present
    <2>3. \A v \in Version : Present(v) => Present(v)'
      BY <1>1, RowsStay DEF Present
    <2>4. CASE appended[t] > 0
      <3>1. /\ Len(trail') = Len(trail) + 1 /\ trail'[Len(trail) + 1] = e
            /\ \A i \in 1..Len(trail) : trail'[i] = trail[i]
        BY <2>1, <2>4, AppendProperties
      <3> SUFFICES ASSUME NEW i \in 1..Len(trail'), trail'[i].op \in {"deploy", "retire"}
                   PROVE  trail'[i].v \in Version /\ Present(trail[i].v)'
        BY DEF TrailRows
      <3>2. trail'[i].v \in Version /\ Present(trail'[i].v)
        BY <2>1, <2>2, <3>1 DEF TurnInv, TrailRows
      <3> QED
        BY <2>3, <3>2 DEF Present
    <2>5. CASE ~(appended[t] > 0)
      BY <2>1, <2>3, <2>5 DEF TurnInv, TrailRows, Present
    <2> QED
      BY <2>4, <2>5
  <1>3. ASSUME inTurn
        PROVE  Alone' /\ LiveIsOnRecord' /\ \A u \in Req : Current(req[u])'
    <2>1. \A u \in Req : DOMAIN req'[u].writes = {} /\ req'[u].op = "none" /\ req'[u].pc = "idle"
      BY <1>1, <1>3, IdleFields DEF Committing, TurnInv, Alone, StudioInv, RequestInv, Placed
    <2>2. Alone' /\ \A u \in Req : Current(req[u])'
      BY <2>1 DEF Alone, Current
    <2>3. Current(q) /\ AtMostOneDeployed /\ DeletedIsNotDeployed /\ TrailTellsWhatIsLive
      BY <1>3 DEF TurnInv, LiveIsOnRecord
    <2>4. ASSUME NEW w \in Workflow
          PROVE  \/ /\ q.op \notin {"deploy", "retire"} \/ w # q.w
                    /\ Deployed(w)' = Deployed(w)
                 \/ /\ q.op = "deploy" /\ w = q.w /\ Visible(w) /\ q.v \in VersionsOf(w)
                    /\ Deployed(w)' = {q.v}
                 \/ /\ q.op = "retire" /\ w = q.w /\ Visible(w) /\ q.v \in VersionsOf(w)
                    /\ Deployed(w)' = {}
      BY <1>1, <1>3, OthersLive, LiveAfter
    <2>5. AtMostOneDeployed'
      <3>1. Cardinality({}) <= 1 /\ \A v : Cardinality({v}) <= 1
        BY FS_EmptySet, FS_Singleton
      <3> QED
        BY <2>3, <2>4, <3>1 DEF AtMostOneDeployed
    <2>6. DeletedIsNotDeployed'
      <3> SUFFICES ASSUME NEW w \in Workflow, Exists(w)', ~Visible(w)'
                   PROVE  Deployed(w)' = {}
        BY DEF DeletedIsNotDeployed
      <3>1. db'[<<w, "deleted">>] = TRUE
        <4>1. db'[<<w, "deleted">>] \in BOOLEAN
          BY <1>1, CommitKeepsRows, StudioAssumption DEF Exists
        <4>2. ~~db'[<<w, "deleted">>]
          BY Zenon DEF Visible
        <4> QED
          BY <4>1, <4>2
      <3>2. <<w, "deleted">> \in Cell
        BY DEF Cell
      <3>3. CASE <<w, "deleted">> \in DOMAIN f
        <4>1. f[<<w, "deleted">>] = TRUE
          BY <1>1, <3>1, <3>2, <3>3 DEF Committing
        <4>2. Deployed(w) = {}
          BY <2>3, <3>3, <4>1 DEF Current
        <4>3. q.op # "deploy"
          BY <1>1, <2>3, <3>3 DEF Current
        <4> QED
          BY <2>4, <4>2, <4>3
      <3>4. CASE <<w, "deleted">> \notin DOMAIN f
        <4>1. db[<<w, "deleted">>] = TRUE
          BY <1>1, <3>1, <3>2, <3>4 DEF Committing
        <4>2. ~Visible(w)
          BY <4>1 DEF Visible
        <4>3. CASE Exists(w)
          <5>1. Deployed(w) = {}
            BY <2>3, <4>2, <4>3 DEF DeletedIsNotDeployed
          <5> QED
            BY <2>4, <4>2, <5>1
        <4>4. CASE ~Exists(w)
          <5>1. Deployed(w) = {}
            <6>1. \A v \in Version : db[<<v, "of">>] = w => Exists(w)
              BY StudioAssumption DEF StudioInv, StudioTypeOK
            <6> QED
              BY <4>4, <6>1 DEF Deployed, VersionsOf
          <5> QED
            BY <2>4, <4>2, <5>1
        <4> QED
          BY <4>3, <4>4
      <3> QED
        BY <3>3, <3>4
    <2>7. TrailTellsWhatIsLive'
      <3> SUFFICES ASSUME NEW w \in Workflow
                   PROVE  Deployed(w)' = {e.v : e \in {x \in LastChange(w)' : x.op = "deploy"}}
        BY DEF TrailTellsWhatIsLive
      <3> DEFINE Says(last) == {e.v : e \in {x \in last : x.op = "deploy"}}
      <3>1. Deployed(w) = Says(LastChange(w))
        BY <2>3 DEF TrailTellsWhatIsLive
      <3>2. CASE ~(q.op \in {"deploy", "retire"} /\ q.v \in VersionsOf(w))
        <4>1. LastChange(w)' = LastChange(w)
          BY <1>1, <3>2, LastAfter DEF TurnInv
        <4>2. Deployed(w)' = Deployed(w)
          BY <2>4, <3>2
        <4> QED
          BY <3>1, <4>1, <4>2
      <3>3. CASE q.op \in {"deploy", "retire"} /\ q.v \in VersionsOf(w)
        <4>1. LastChange(w)' = {[op |-> q.op, v |-> q.v]}
          BY <1>1, <3>3, LastAfter DEF TurnInv
        <4>2. w = q.w
          BY <1>1, <3>3 DEF Placed, VersionsOf
        <4>3. CASE q.op = "deploy"
          <5>1. Deployed(w)' = {q.v}
            BY <2>4, <4>2, <4>3
          <5>2. Says(LastChange(w)') = {q.v}
            <6> DEFINE e == [op |-> q.op, v |-> q.v]
            <6>1. e.op = "deploy" /\ e.v = q.v /\ LastChange(w)' = {e}
              BY <4>1, <4>3
            <6> HIDE DEF e
            <6>2. {x \in LastChange(w)' : x.op = "deploy"} = {e}
              BY <6>1
            <6> QED
              BY <6>1, <6>2
          <5> QED
            BY <5>1, <5>2
        <4>4. CASE q.op = "retire"
          <5>1. Deployed(w)' = {}
            BY <2>4, <4>2, <4>4
          <5>2. Says(LastChange(w)') = {}
            BY <4>1, <4>4
          <5> QED
            BY <5>1, <5>2
        <4> QED
          BY <3>3, <4>3, <4>4
      <3> QED
        BY <3>2, <3>3
    <2> QED
      BY <2>2, <2>5, <2>6, <2>7 DEF LiveIsOnRecord
  <1> QED
    BY <1>1, <1>2, <1>3 DEF TurnInv

-----------------------------------------------------------------------------
(* An empty Studio has nothing live and nothing on record. *)
LEMMA TurnInitial ==
    ASSUME StudioInit
    PROVE  TurnInv
  <1>1. /\ \A c \in Cell : db[c] = Null
        /\ \A t \in Req : req[t] = Idle
        /\ trail = <<>> /\ Len(trail) = 0
    BY DEF StudioInit
  <1>2. TrailRows
    BY <1>1 DEF TrailRows
  <1>3. ASSUME NEW w \in Workflow
        PROVE  Deployed(w) = {} /\ LastChange(w) = {}
    <2>1. VersionsOf(w) = {}
      <3>1. \A v \in Version : <<v, "of">> \in Cell
        BY DEF Cell
      <3> QED
        BY <1>1, <3>1, StudioAssumption DEF VersionsOf
    <2>2. Deployed(w) = {}
      BY <2>1 DEF Deployed
    <2>3. LastChange(w) = {}
      BY <2>1 DEF LastChange
    <2> QED
      BY <2>2, <2>3
  <1>4. LiveIsOnRecord
    BY <1>3, FS_EmptySet
       DEF LiveIsOnRecord, AtMostOneDeployed, DeletedIsNotDeployed, TrailTellsWhatIsLive
  <1>5. Alone /\ \A t \in Req : Current(req[t])
    BY <1>1, IdleFields DEF Alone, Current
  <1> QED
    BY <1>2, <1>4, <1>5 DEF TurnInv

(* A step that changes nothing committed and no request changes no turn. *)
LEMMA TurnStays ==
    ASSUME TurnInv, UNCHANGED <<db, req, trail, inTurn>>
    PROVE  TurnInv'
  <1>1. db' = db /\ req' = req /\ trail' = trail /\ inTurn' = inTurn
    OBVIOUS
  <1>2. TrailRows'
    BY <1>1 DEF TurnInv, TrailRows, Present
  <1>3. ASSUME inTurn
        PROVE  Alone' /\ LiveIsOnRecord' /\ \A u \in Req : Current(req[u])'
    <2>1. Alone'
      BY <1>1, <1>3 DEF TurnInv, Alone
    <2>2. AtMostOneDeployed' /\ DeletedIsNotDeployed'
      BY <1>1, <1>3 DEF TurnInv, LiveIsOnRecord, AtMostOneDeployed, DeletedIsNotDeployed,
                        Deployed, VersionsOf, StatusOf, Exists, Visible
    <2>3. TrailTellsWhatIsLive'
      <3>1. ASSUME NEW w \in Workflow
            PROVE  Deployed(w)' = Deployed(w) /\ LastChange(w)' = LastChange(w)
        BY <1>1 DEF LastChange, Deployed, VersionsOf, StatusOf
      <3>2. \A w \in Workflow :
               Deployed(w) = {e.v : e \in {x \in LastChange(w) : x.op = "deploy"}}
        BY <1>3 DEF TurnInv, LiveIsOnRecord, TrailTellsWhatIsLive
      <3> QED
        BY <3>1, <3>2 DEF TrailTellsWhatIsLive
    <2>4. \A u \in Req : Current(req[u])'
      BY <1>1, <1>3 DEF TurnInv, Current, Visible, Exists, Deployed, VersionsOf, StatusOf
    <2> QED
      BY <2>1, <2>2, <2>3, <2>4 DEF LiveIsOnRecord
  <1> QED
    BY <1>1, <1>2, <1>3 DEF TurnInv

(* No step of requests that follow one another loses what is live. *)
LEMMA TurnNext ==
    ASSUME StudioInv, TurnInv, [StudioNext]_studioVars
    PROVE  TurnInv'
  <1>1. CASE UNCHANGED studioVars
    BY <1>1, TurnStays DEF studioVars
  <1>2. ASSUME NEW t \in Req, Arrive(t), UNCHANGED inTurn
        PROVE  TurnInv'
    BY <1>2, TurnArrivals
  <1>3. ASSUME NEW t \in Req, Step(t), UNCHANGED inTurn
        PROVE  TurnInv'
    BY <1>3, TurnSteps, TurnCommits DEF Step
  <1>4. ASSUME NEW t \in Req, Abort(t), UNCHANGED inTurn
        PROVE  TurnInv'
    BY <1>4, TurnRefused DEF Abort
  <1> QED
    BY <1>1, <1>2, <1>3, <1>4 DEF StudioNext

(* Of requests that follow one another, one version at most is live, of a   *)
(* workflow that is there, and the audit log tells which.                  *)
THEOREM LiveIsOnRecordAlways == StudioSpec => []LiveIsOnRecordInTurn
  <1>1. StudioInit => TurnInv
    BY TurnInitial
  <1>2. StudioInv /\ TurnInv /\ [StudioNext]_studioVars => TurnInv'
    BY TurnNext
  <1>3. TurnInv => LiveIsOnRecordInTurn
    BY DEF TurnInv, LiveIsOnRecordInTurn
  <1> QED
    BY <1>1, <1>2, <1>3, StudioInvAlways, PTL DEF StudioSpec

(* Only a commit changes a row. *)
LEMMA RowsChangeAtCommit ==
    ASSUME [StudioNext]_studioVars, db' # db
    PROVE  \E t \in Req : Commit(t)
  <1>1. CASE UNCHANGED studioVars
    BY <1>1 DEF studioVars
  <1>2. ASSUME NEW t \in Req, Arrive(t)
        PROVE  db' = db
    BY <1>2 DEF Arrive, CreateWorkflow, DuplicateWorkflow, UpdateWorkflow, DeleteWorkflow,
                RestoreWorkflow, CompileWorkflow, RunDraft, DeployVersion, RetireVersion,
                EditVersion, AskVersion, RunDeployed, Begin
  <1>3. ASSUME NEW t \in Req, Step(t), ~Commit(t)
        PROVE  db' = db
    <2>1. CASE ClaimName(t)
      BY <2>1 DEF ClaimName, Proceed, Refuse
    <2>2. CASE ReadVersion(t)
      BY <2>2 DEF ReadVersion, Proceed, Refuse
    <2>3. CASE ReadIncumbents(t) \/ ReadLive(t)
      BY <2>3 DEF ReadIncumbents, ReadLive, Proceed, Refuse
    <2>4. CASE NumberVersion(t) \/ Flush(t)
      BY <2>4 DEF NumberVersion, Flush, Proceed, Refuse
    <2>5. CASE ReadTail(t) \/ AppendEntry(t) \/ AppendRefused(t)
      BY <2>5 DEF ReadTail, AppendEntry, AppendRefused, Refuse
    <2> QED
      BY <1>3, <2>1, <2>2, <2>3, <2>4, <2>5 DEF Step
  <1>4. ASSUME NEW t \in Req, Abort(t)
        PROVE  db' = db
    BY <1>4 DEF Abort, Refuse
  <1> QED
    BY <1>1, <1>2, <1>3, <1>4 DEF StudioNext

(* No step loses a deployment, but one that retires. *)
LEMMA StepKeepsDeployments ==
    ASSUME StudioInv, TurnInv, [StudioNext]_studioVars
    PROVE  OnlyRetiringUnresolves /\ (inTurn => FrozenOnceDeployed)
  <1>1. CASE db' = db
    <2>1. \A w \in Workflow : Deployed(w)' = Deployed(w)
      BY <1>1 DEF Deployed, VersionsOf, StatusOf
    <2>2. \A v \in Version : DefinitionOf(v)' = DefinitionOf(v)
      BY <1>1 DEF DefinitionOf
    <2> QED
      BY <2>1, <2>2 DEF OnlyRetiringUnresolves, FrozenOnceDeployed
  <1>2. CASE db' # db
    <2>1. PICK t \in Req : Commit(t)
      BY <1>2, RowsChangeAtCommit
    <2>2. Committing(t)
      BY <2>1, CommitIs
    <2>3. OnlyRetiringUnresolves
      BY <2>2, CommitUnresolves
    <2>4. ASSUME inTurn, NEW v \in Version, StatusOf(v) \in {"deployed", "retired"}
          PROVE  DefinitionOf(v)' = DefinitionOf(v)
      <3>1. <<v, "definition">> \notin DOMAIN req[t].writes
        BY <2>4 DEF TurnInv, Current
      <3>2. <<v, "definition">> \in Cell
        BY DEF Cell
      <3> QED
        BY <2>2, <3>1, <3>2 DEF Committing, DefinitionOf
    <2> QED
      BY <2>3, <2>4 DEF FrozenOnceDeployed
  <1> QED
    BY <1>1, <1>2

(* A deployment is kept. *)
THEOREM DeploymentsKept == StudioSpec => DeploymentsAreKept
  <1>1. StudioInit => TurnInv
    BY TurnInitial
  <1>2. StudioInv /\ TurnInv /\ [StudioNext]_studioVars => TurnInv'
    BY TurnNext
  <1>3. StudioInv /\ TurnInv /\ [StudioNext]_studioVars =>
           [OnlyRetiringUnresolves /\ (inTurn => FrozenOnceDeployed)]_studioVars
    BY StepKeepsDeployments
  <1> QED
    BY <1>1, <1>2, <1>3, StudioInvAlways, PTL DEF StudioSpec, DeploymentsAreKept
=============================================================================
