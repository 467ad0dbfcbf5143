------------------------------- MODULE AgentRuns -------------------------------
(***************************************************************************)
(* The agents page of the console (console/agents/page.tsx): one card open *)
(* at a time, the form an agent declares, overrides, a data source shared  *)
(* by all the cards, and one run at a time.  The open card holds the upload *)
(* panel, so this module composes the page with DocumentUpload.            *)
(***************************************************************************)
EXTENDS DocumentUpload

CONSTANTS Agent,
          Declares,   \* the agents whose form has a field to override
          TakesIds,   \* whether this API build resolves document_ids
          Draft,      \* the overrides typed, of "blank", "set" and "wrong"
          MaxLoads    \* bound on unanswered requests for one agent's form

ASSUME AgentAssumption ==
    /\ Declares \subseteq Agent /\ TakesIds \in BOOLEAN /\ MaxLoads \in Nat
    /\ Null \notin Agent \cup [reached : Nat, documents : Nat]

VARIABLES openId,   \* the card that is open, or Null
          specs,    \* what the page holds of each agent's form
          loads,    \* requests for it that are not answered
          drafts,   \* the overrides typed
          states,   \* the RunState of each agent
          busy,     \* whether a run is on its way
          sent,     \* external: the run request each agent last received
          source    \* whether a source URL is typed

pageVars == <<openId, specs, loads, drafts, states, busy, sent, source>>
vars == <<uploadVars, pageVars>>

-----------------------------------------------------------------------------

Idle == [status |-> "idle"]
Failed(n) == [status |-> "error", documentsSent |-> n]
Nothing == [documents |-> <<>>, source |-> FALSE, payload |-> "blank"]

(* What the card of a offers.  A field in error closes the run only while  *)
(* the form is there to show it.                                           *)
FieldError(value) == value = "wrong"
Ready(a) == specs[a] = "ready"
Fields(a) == IF Ready(a) /\ a \in Declares THEN {a} ELSE {}
RunOffered(a) ==
    /\ openId = a /\ ~busy /\ states[a].status # "running"
    /\ ~(Fields(a) # {} /\ FieldError(drafts[a]))

(* toPayload: the declared fields that are not blank.                      *)
ToPayload(a) == IF Fields(a) # {} THEN drafts[a] ELSE "blank"

(* The card that is open, once its form is there, holds a panel of its own. *)
Mounted == openId # Null /\ Ready(openId)

Renders ==
    panel' = IF ~Mounted' THEN Null
             ELSE IF Mounted /\ openId' = openId THEN panel ELSE NewPanel

-----------------------------------------------------------------------------
(* Opening a card.                                                         *)

Close(a) ==
    /\ openId = a
    /\ openId' = Null
    /\ UNCHANGED <<specs, loads, drafts, states, busy, sent, source>>
    /\ UNCHANGED <<token, uploads, documents, attached>>
    /\ Renders

(* A load that succeeded is kept; any other is asked for again.            *)
Open(a) ==
    /\ openId # a
    /\ openId' = a
    /\ IF Ready(a) THEN UNCHANGED <<specs, loads>>
       ELSE /\ loads[a] < MaxLoads
            /\ specs' = [specs EXCEPT ![a] = "loading"]
            /\ loads' = [loads EXCEPT ![a] = @ + 1]
    /\ UNCHANGED <<drafts, states, busy, sent, source>>
    /\ UNCHANGED <<token, uploads, documents, attached>>
    /\ Renders

SpecArrives(a, ok) ==
    /\ loads[a] > 0
    /\ specs' = [specs EXCEPT ![a] = IF ok THEN "ready" ELSE "error"]
    /\ loads' = [loads EXCEPT ![a] = @ - 1]
    /\ UNCHANGED <<openId, drafts, states, busy, sent, source>>
    /\ UNCHANGED <<token, uploads, documents, attached>>
    /\ Renders

Type(a, value) ==
    /\ openId = a /\ Fields(a) # {} /\ drafts[a] # value
    /\ drafts' = [drafts EXCEPT ![a] = value]
    /\ UNCHANGED <<uploadVars, openId, specs, loads, states, busy, sent, source>>

-----------------------------------------------------------------------------
(* The source.                                                             *)

TypeSource ==
    /\ panel # Null
    /\ source' = ~source
    /\ UNCHANGED <<uploadVars, openId, specs, loads, drafts, states, busy, sent>>

-----------------------------------------------------------------------------
(* A run.                                                                  *)

RunWithoutToken(a) ==
    /\ RunOffered(a) /\ ~token
    /\ states' = [states EXCEPT ![a] = Failed(0)]
    /\ sent' = [sent EXCEPT ![a] = Nothing]
    /\ UNCHANGED <<uploadVars, openId, specs, loads, drafts, busy, source>>

(* The body of the request: what goes with the run is frozen here.         *)
RunBody(a) == [documents |-> attached, source |-> source, payload |-> ToPayload(a)]

Run(a) ==
    /\ RunOffered(a) /\ token
    /\ busy' = TRUE
    /\ states' = [states EXCEPT ![a] = [status |-> "running"]]
    /\ sent' = [sent EXCEPT ![a] = RunBody(a)]
    /\ UNCHANGED <<uploadVars, openId, specs, loads, drafts, source>>

(* The report the API makes of the source it handed the runner, if any.    *)
Report(request) ==
    LET reached == IF TakesIds THEN Len(request.documents) ELSE 0 IN
    IF request.source \/ reached > 0
    THEN [reached |-> reached, documents |-> reached + (IF request.source THEN 1 ELSE 0)]
    ELSE Null

RunSucceeds(a) ==
    /\ states[a].status = "running"
    /\ states' = [states EXCEPT ![a] =
          [status |-> "done", attached |-> sent[a].documents, sourceSent |-> sent[a].source,
           report |-> Report(sent[a])]]
    /\ busy' = FALSE
    /\ UNCHANGED <<uploadVars, openId, specs, loads, drafts, sent, source>>

(* Mutant: a failed run leaves the page busy. *)
RunFails_StaysBusy(a) ==
    /\ states[a].status = "running"
    /\ states' = [states EXCEPT ![a] = Failed(Len(sent[a].documents))]
    /\ UNCHANGED <<uploadVars, openId, specs, loads, drafts, busy, sent, source>>

(* Refused, or nothing within three minutes.                               *)
RunFails(a) ==
    /\ states[a].status = "running"
    /\ states' = [states EXCEPT ![a] = Failed(Len(sent[a].documents))]
    /\ busy' = FALSE
    /\ UNCHANGED <<uploadVars, openId, specs, loads, drafts, sent, source>>

(* DocumentOutcome: when a result is shown as not covering what was sent.  *)
Missing(r) ==
    /\ r.attached # <<>>
    /\ \/ r.report = Null
       \/ r.report # Null /\ ~r.sourceSent /\ r.report.documents < Len(r.attached)

(* And what it says when nothing is flagged.                               *)
CountCoversBoth(r) == r.report # Null /\ r.sourceSent

(* A failed run says how many ids went with it, and that nothing tells     *)
(* whether they were read; without a token none went.                      *)
IdsSaidToHaveGone(r) == IF r.status = "error" THEN r.documentsSent ELSE 0

-----------------------------------------------------------------------------

Init ==
    /\ UploadInit
    /\ openId = Null
    /\ specs = [a \in Agent |-> "none"] /\ loads = [a \in Agent |-> 0]
    /\ drafts = [a \in Agent |-> "blank"]
    /\ states = [a \in Agent |-> Idle] /\ busy = FALSE
    /\ sent = [a \in Agent |-> Nothing]
    /\ source = FALSE

CardNext(a) ==
    \/ Open(a) \/ Close(a)
    \/ \E ok \in BOOLEAN : SpecArrives(a, ok)
    \/ \E v \in Draft : Type(a, v)
    \/ RunWithoutToken(a) \/ Run(a) \/ RunSucceeds(a) \/ RunFails(a)

UploadNext == PanelNext \/ \E u \in Upload : RequestNext(u)

Next ==
    \/ \E a \in Agent : CardNext(a)
    \/ TypeSource
    \/ UploadNext /\ UNCHANGED pageVars

(* request() gives up by a timer of the browser, so each is answered.      *)
PageFairness == WF_vars(\E a \in Agent : RunFails(a))

Spec == Init /\ [][Next]_vars
FairSpec == Spec /\ UploadFairness /\ PageFairness

-----------------------------------------------------------------------------

(* Every variable holds a value of the shape its declaration gives it, and *)
(* there is a panel exactly in an open card whose form has come.           *)
AgentsTypeOK ==
    /\ openId \in Agent \cup {Null}
    /\ specs \in [Agent -> {"none", "loading", "ready", "error"}]
    /\ loads \in [Agent -> 0..MaxLoads]
    /\ documents \subseteq Upload
    /\ panel \in Panels \cup {Null}
    /\ (panel # Null) = Mounted

(* The page is busy exactly while one run, and no more, is on its way, so  *)
(* a failure never leaves it busy for good (run, disabled).                *)
BusyIsOneRun ==
    LET running == {a \in Agent : states[a].status = "running"} IN
    /\ Cardinality(running) <= 1
    /\ busy = (running # {})

(* A result on screen tells what that run carried, though documents were   *)
(* attached, taken off or stored meanwhile; and when the uploads did not   *)
(* reach the run, it is flagged or the count is said to cover a source too *)
(* (run's frozen snapshot, DocumentOutcome).  A failure counts the ids that *)
(* went with the run that failed, and no others (documentsSent).           *)
ResultIsOfWhatWasSent ==
    \A a \in Agent :
    /\ states[a].status = "done" =>
          LET r == states[a] IN
          /\ r.attached = sent[a].documents /\ r.sourceSent = sent[a].source
          /\ r.attached # <<>> /\ ~TakesIds => Missing(r) \/ CountCoversBoth(r)
          /\ Missing(r) => ~TakesIds
    /\ states[a].status = "error" => IdsSaidToHaveGone(states[a]) = Len(sent[a].documents)

(* Every upload on screen and every run is over at last: no panel sends,   *)
(* scans or runs for ever.                                                 *)
NothingHangs == (Sending ~> ~Sending) /\ (busy ~> ~busy)

(* What the agents page may never show, in one formula.                    *)
AgentsInvariant ==
    AgentsTypeOK /\ StoredIsNamed /\ FateIsTold /\ BusyIsOneRun /\ ResultIsOfWhatWasSent
=============================================================================
