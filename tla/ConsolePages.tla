----------------------------- MODULE ConsolePages -----------------------------
(***************************************************************************)
(* The console's reading pages, one mounted at a time: the overview, the   *)
(* run history (console/runs/page.tsx) and one run, the book of            *)
(* applications (console/applications/page.tsx) and one case, the spend    *)
(* (console/usage/page.tsx), and the sections of Administration.  Each     *)
(* reads the API through useResource.  The token they read with may be     *)
(* changed at any moment, in another tab, and what they asked for comes    *)
(* late, fails or never comes.  Order on the screen is left out: rows are  *)
(* sets.  What the API lists it lists by the page, newest first.           *)
(***************************************************************************)
EXTENDS Integers, FiniteSets, FiniteSetsExt

CONSTANTS Hits,       \* [search terms -> the ids they match]; "" matches all
          Agents,     \* the catalog's agents
          PageRows,   \* how many records one page of the API holds
          RowLimit,   \* how many names a breakdown lists
          Token,      \* bearer tokens; Null stands for none
          Null,
          Pages,      \* the pages visited
          Answers,    \* [resource -> [Token -> what may be on record for it]]
          CaseId,     \* the ids by which runs name the case that is open
          RunOf,      \* [Token -> the run records it can read]
          Failure,    \* kinds of failure other than "no-token"
          MaxSteps,   \* bound on the steps a run records, by page
          MaxPosts    \* bound on the decisions on their way

ASSUME ConsoleAssumption ==
    /\ Null \notin Token
    /\ MaxSteps \in [{"run", "case"} -> Nat \ {0}] /\ MaxPosts \in Nat
    /\ RowLimit \in Nat /\ PageRows \in Nat /\ "none" \notin Failure
    /\ Pages \subseteq {"overview", "runs", "applications", "run", "case", "usage", "admin"}
    /\ \A t \in Token : \A rows \in Answers["usage"][t] :
           IsFiniteSet(rows) /\ \A row \in rows : row.cost \in Int

Data == INSTANCE PageResource WITH NoData <- {}, NoKey <- Null

-----------------------------------------------------------------------------
(* The run history: every chip has a predicate of its own, and escalation  *)
(* is a flag beside the status.                                            *)

StatusFilters ==
    {"", "queued", "running", "succeeded", "escalated", "failed", "cancelled"}

Match(filter, run) ==
    \/ filter = ""
    \/ filter = run.status
    \/ filter = "escalated" /\ run.escalated

BeforeStatus(rows, agent, needle) ==
    {run \in rows : (agent # "" => run.agent = agent) /\ (needle # "" => run.id \in Hits[needle])}

Filtered(rows, status) == {run \in rows : Match(status, run)}

-----------------------------------------------------------------------------
(* The book: the stages are read off the rows the search leaves, and the   *)
(* pressed one keeps its chip when the search has emptied it.              *)

BeforeStage(rows, needle) == {a \in rows : needle # "" => a.id \in Hits[needle]}

Stages(rows) == {a.status : a \in rows}

StageChips(rows, status) == Stages(rows) \cup ({status} \ {""})

InStage(rows, status) == {a \in rows : status # "" => a.status = status}

-----------------------------------------------------------------------------
(* The runs of one case: matched on whichever of its ids the run carries.  *)
RelatedRuns(runs, ids) == {run \in runs : run.application \in ids}

-----------------------------------------------------------------------------
(* The spend, and who it belongs to.                                       *)

Spend(rows) == MapThenSumSet(LAMBDA row : row.cost, rows)

(* Costs are in millionths of a rupee, as the ledger holds them; toFixed(2)*)
(* leaves whole hundredths, the nearest.                                   *)
Rounded(cost) == ((cost + 5000) \div 10000) * 10000

Breakdowns == {"product", "agent", "tenant"}

Named(row, breakdown) == row[breakdown]

GroupByName(rows, breakdown) ==
    {[name |-> n,
      requests |-> Cardinality({row \in rows : Named(row, breakdown) = n}),
      cost |-> Rounded(Spend({row \in rows : Named(row, breakdown) = n}))] :
        n \in {Named(row, breakdown) : row \in rows}}

ByProduct(rows) == GroupByName(rows, "product")

(* The chart: a point for each day there is a row of.                      *)
DailySpend(rows) ==
    {[day |-> d, cost |-> Rounded(Spend({row \in rows : row.day = d}))] :
        d \in {row.day : row \in rows}}

(* Heaviest spend first, then most requests; a tie is broken by the names. *)
Heavier(a, b) ==
    \/ a.cost > b.cost
    \/ a.cost = b.cost /\ a.requests > b.requests

(* Products are all listed, agents and tenants up to the limit.            *)
ShownRows(rows, breakdown) ==
    LET groups == GroupByName(rows, breakdown) IN
    IF breakdown = "product" THEN ByProduct(rows)
    ELSE IF Cardinality(groups) <= RowLimit THEN groups
    ELSE CHOOSE top \in SUBSET groups :
            /\ Cardinality(top) = RowLimit
            /\ \A a \in top, b \in groups \ top : ~Heavier(b, a)

HiddenRows(rows, breakdown) ==
    Cardinality(GroupByName(rows, breakdown)) - Cardinality(ShownRows(rows, breakdown))

-----------------------------------------------------------------------------
(* The page that is mounted.                                               *)

VARIABLES token,  \* localStorage's token
          at,     \* the page that is mounted
          res,    \* its resources
          view,   \* its own state
          steps   \* how many steps the run on screen has recorded at the API

pageVars == <<token, at, res, view, steps>>

Filters == [status |-> "", agent |-> "", needle |-> ""]

(* The state a page starts with, whatever was on it before.                *)
NewView ==
    [filters |-> Filters, tab |-> "first", breakdown |-> "product", picked |-> Null,
     note |-> FALSE, outcome |-> "", posts |-> 0,
     replay |-> Null, length |-> 0]

Rows(n) == IF n \in DOMAIN res THEN res[n].data ELSE {}
Loading(n) == res[n].mode = "loading"
Failed(n) == res[n].failure # "none"
Answered(n) == ~Loading(n) /\ ~Failed(n)

-----------------------------------------------------------------------------
(* The run history and the book, as their filters leave them.              *)

LetThrough(n, rows) ==
    IF n = "runs"
    THEN Filtered(BeforeStatus(rows, view.filters.agent, view.filters.needle), view.filters.status)
    ELSE InStage(BeforeStage(rows, view.filters.needle), view.filters.status)

RunsFiltered == LetThrough("runs", Rows("runs"))
BookFiltered == LetThrough("applications", Rows("applications"))
FiltersApplied == view.filters # Filters

(* The notice under a list: the page is full, and there may be more.       *)
SaysFull_PastThePage(n) == Answered(n) /\ Cardinality(Rows(n)) > PageRows
SaysFull(n) == Answered(n) /\ Cardinality(Rows(n)) >= PageRows

(* Mutant: a failed read counts as an empty one. *)
ReportRuns_Rounded ==
    IF Loading("runs") THEN "wait"
    ELSE IF RunsFiltered # {} THEN "rows"
    ELSE IF FiltersApplied THEN "narrowed" ELSE "none"

ReportRuns ==
    IF Loading("runs") THEN "wait"
    ELSE IF Failed("runs") THEN "unknown"
    ELSE IF RunsFiltered # {} THEN "rows"
    ELSE IF FiltersApplied THEN "narrowed" ELSE "none"

ReportBook ==
    IF Loading("applications") THEN "wait"
    ELSE IF Failed("applications") THEN "unknown"
    ELSE IF BookFiltered # {} THEN "rows"
    ELSE IF FiltersApplied THEN "narrowed" ELSE "none"

-----------------------------------------------------------------------------
(* One run, and one case with the graph of one of its runs.                *)

(* Without its record a page about one thing draws nothing.                *)
ReportRecord(n) ==
    IF Rows(n) # {} THEN "rows" ELSE IF Loading(n) THEN "wait" ELSE "unknown"

ReportRun == ReportRecord("run")
ReportCase == ReportRecord("case")

(* The arithmetic fails apart from the record; what it has not computed is *)
(* left blank.                                                             *)
ReportEligibility == ReportRecord("eligibility")

CaseRuns == RelatedRuns(Rows("case-runs"), CaseId)

ReportCaseRuns ==
    IF Loading("case-runs") THEN "wait"
    ELSE IF Failed("case-runs") THEN "unknown"
    ELSE IF CaseRuns # {} THEN "rows" ELSE "none"

ReportTrail ==
    IF Loading("trail") THEN "wait"
    ELSE IF Failed("trail") THEN "unknown"
    ELSE IF Rows("trail") # {} THEN "rows" ELSE "none"

ReportOnCase(n) ==
    IF Rows("case") = {} THEN ReportCase
    ELSE CASE n = "eligibility" -> ReportEligibility
           [] n = "case-runs" -> ReportCaseRuns
           [] n = "trail" -> ReportTrail

(* RunGraphTab is mounted on its tab, once there is a run to draw.         *)
GraphTab == at = "case" /\ view.tab = "graph" /\ Rows("case") # {} /\ CaseRuns # {}

Newest(runs) == CHOOSE run \in runs : \A other \in runs : run.id >= other.id

RunId ==
    IF \E run \in CaseRuns : run.id = view.picked THEN view.picked ELSE Newest(CaseRuns).id

ReportDetail ==
    IF Loading("detail") THEN "wait" ELSE IF Rows("detail") # {} THEN "rows" ELSE "unknown"

(* The graph has a replay of its own while it is drawn.                    *)
Graph ==
    IF at = "run" THEN Rows("run")
    ELSE IF "detail" \in DOMAIN res /\ ~Loading("detail") THEN Rows("detail") ELSE {}

(* One column for each recorded step: each depends on the one before it.   *)
Layers == IF Graph = {} THEN 0 ELSE (CHOOSE run \in Graph : TRUE).steps

-----------------------------------------------------------------------------
(* Usage, the overview, Administration.                                    *)

ReportUsage ==
    IF Loading("usage") THEN "wait"
    ELSE IF ~Answered("usage") THEN "unknown"
    ELSE IF Rows("usage") = {} THEN "none" ELSE "rows"

(* Two ways to be without a bucket for documents, and they differ.         *)
governorSilence == IF Failed("governor") THEN "unknown" ELSE "none"

ReportGovernor ==
    IF Loading("governor") THEN "wait"
    ELSE IF \E row \in Rows("governor") : row = "docai" THEN "rows"
    ELSE governorSilence

Panels == {"o-summary", "o-runs", "o-usage", "o-governor"}

(* A tile: the page waits for all four, each then speaks for itself.       *)
Tile(n) ==
    IF \E p \in Panels : Loading(p) THEN "wait"
    ELSE IF token = Null \/ res[n].mode = "example" THEN "unknown" ELSE "rows"

ReportTenants ==
    IF Loading("tenants") THEN "wait"
    ELSE IF Rows("tenants") # {} THEN "rows"
    ELSE IF Failed("tenants") THEN "unknown" ELSE "none"

ReportSurface ==
    IF Loading("surface") THEN "wait"
    ELSE IF Rows("surface") # {} THEN "rows" ELSE "unknown"

ReportConnectors ==
    IF Loading("connectors") THEN "wait"
    ELSE IF Rows("connectors") # {} THEN "rows"
    ELSE IF Failed("connectors") THEN "unknown" ELSE "none"

Report(n) ==
    CASE n = "runs" -> ReportRuns
      [] n = "applications" -> ReportBook
      [] n = "run" -> ReportRun
      [] n = "case" -> ReportCase
      [] n \in {"eligibility", "case-runs", "trail"} -> ReportOnCase(n)
      [] n = "detail" -> ReportDetail
      [] n = "usage" -> ReportUsage
      [] n = "governor" -> ReportGovernor
      [] n \in Panels -> Tile(n)
      [] n = "tenants" -> ReportTenants
      [] n = "surface" -> ReportSurface
      [] n = "connectors" -> ReportConnectors

-----------------------------------------------------------------------------
(* What is mounted, and what it is keyed by.                               *)

(* Administration's sections; users stands for those that read nothing.    *)
Sections == {"tenants", "credentials", "connectors", "users"}

SectionReads(section) ==
    CASE section = "credentials" -> {"surface"}
      [] section = "connectors" -> {"connectors"}
      [] section = "users" -> {}
      [] OTHER -> {"tenants"}

Reads(page, tab) ==
    CASE page = "overview" -> Panels
      [] page \in {"runs", "applications", "run"} -> {page}
      [] page = "case" -> {"case", "eligibility", "case-runs", "trail"}
      [] page = "usage" -> {"usage", "governor"}
      [] page = "admin" -> SectionReads(tab)

(* Mutant: the key of a read omits the token. *)
Key_NoToken(n) == IF n = "detail" THEN <<n, RunId>> ELSE <<n>>

(* The overview's keys do not name the token.                              *)
Key(n) ==
    IF n \in Panels THEN <<n>>
    ELSE IF n = "detail" THEN <<n, RunId, token>> ELSE <<n, token>>

Mount(names) == [n \in names |-> IF n \in DOMAIN res THEN res[n] ELSE Data!Mounted]

(* After any render: RunGraphTab comes and goes with what it draws, and    *)
(* its choice of run with it.                                              *)
GraphTabDue == GraphTab # ("detail" \in DOMAIN res)

GraphTabMounts ==
    /\ GraphTabDue
    /\ res' = Mount((DOMAIN res \ {"detail"}) \cup IF GraphTab THEN {"detail"} ELSE {})
    /\ view' = [view EXCEPT !.picked = IF GraphTab THEN Newest(CaseRuns).id ELSE Null,
                            !.replay = Null]
    /\ UNCHANGED <<token, at, steps>>

Due(n) == Data!EffectDue(res[n], Key(n))

(* A graph that is no longer drawn takes its replay's timer with it.       *)
GraphGoes == view' = IF Graph' = {} THEN [view EXCEPT !.replay = Null] ELSE view

(* The effects of one commit: every key that changed is asked for anew.    *)
Asks ==
    /\ \E n \in DOMAIN res : Due(n)
    /\ res' = [n \in DOMAIN res |->
                  IF Due(n) THEN Data!RunEffect(res[n], Key(n), token) ELSE res[n]]
    /\ UNCHANGED <<token, at, steps>>
    /\ GraphGoes

(* The newest of what is on record, as much of it as one page holds.       *)
FirstPage(records) ==
    {page \in SUBSET records :
        IF Cardinality(records) <= PageRows THEN page = records
        ELSE /\ Cardinality(page) = PageRows
             /\ \A listed \in page, other \in records \ page : listed.id > other.id}

Paged == {"runs", "applications", "case-runs", "trail"}

(* What the API has to say of n; a run's record is as it now stands.       *)
Answer(n, t) ==
    CASE n = "run" -> {{[id |-> id, steps |-> steps]} : id \in RunOf[t]}
      [] n = "detail" -> {{[id |-> id, steps |-> steps]} : id \in RunOf[t] \cap {res[n].key[2]}}
      [] n \in Paged -> UNION {FirstPage(all) : all \in Answers[n][t]}
      [] OTHER -> Answers[n][t]

Arrives(n) ==
    /\ res[n].asking /\ res[n].token # Null
    /\ \E data \in Answer(n, res[n].token) : res' = [res EXCEPT ![n] = Data!Succeeds(@, data)]
    /\ UNCHANGED <<token, at, steps>>
    /\ GraphGoes

(* With no token nothing is asked: the client refuses by itself.           *)
Fails(n) ==
    /\ res[n].asking
    /\ \E kind \in IF res[n].token = Null THEN {"no-token"} ELSE Failure :
           res' = [res EXCEPT ![n] = Data!Fails(@, kind)]
    /\ UNCHANGED <<token, at, steps>>
    /\ GraphGoes

-----------------------------------------------------------------------------
(* What the reader does.                                                   *)

Visit(page) ==
    /\ page \in Pages
    /\ at' = page
    /\ res' = [n \in Reads(page, "first") |-> Data!Mounted]
    /\ view' = NewView /\ steps' = 1
    /\ UNCHANGED token

TokenChanges ==
    /\ token' \in (Token \cup {Null}) \ {token}
    /\ UNCHANGED <<at, res, view, steps>>

Looks(v) == view' = v /\ UNCHANGED <<token, at, res, steps>>

Presses(status) == Looks([view EXCEPT !.filters.status = status])

BookBefore == BeforeStage(Rows("applications"), view.filters.needle)

PressesStatus == at = "runs" /\ \E filter \in StatusFilters : Presses(filter)

(* The chip for all stages is there before the book has been read.         *)
PressesStage ==
    /\ at = "applications"
    /\ \/ Presses("")
       \/ /\ Answered("applications")
          /\ \E stage \in StageChips(BookBefore, view.filters.status) : Presses(stage)

TypesNeedle == \E needle \in DOMAIN Hits : Looks([view EXCEPT !.filters.needle = needle])

SearchesRuns == at = "runs" /\ TypesNeedle
SearchesBook == at = "applications" /\ TypesNeedle

PicksAgent ==
    at = "runs" /\ \E agent \in {""} \cup Agents : Looks([view EXCEPT !.filters.agent = agent])

Filtering ==
    PressesStatus \/ PressesStage \/ SearchesRuns \/ SearchesBook \/ PicksAgent

(* ApiFailureBanner and DataModeBanner: what their Retry asks for again.   *)
RetryOf(n) ==
    CASE n \in {"runs", "applications", "run", "governor", "tenants", "surface", "connectors",
                "detail", "eligibility"} -> {n}
      [] n = "case" -> {"case", "eligibility"}
      [] n = "usage" -> {"usage", "governor"}
      [] OTHER -> {}

(* Nothing is offered about a case whose record was not read.              *)
Retry(n) ==
    /\ Failed(n) /\ RetryOf(n) # {} /\ (n = "eligibility" => Rows("case") # {})
    /\ res' = [m \in DOMAIN res |-> IF m \in RetryOf(n) THEN Data!Reload(res[m]) ELSE res[m]]
    /\ UNCHANGED <<token, at, view, steps>>

(* A tab of the case: what it reads stays read.                            *)
OpensTab(tab) ==
    at = "case" /\ Rows("case") # {} /\ Looks([view EXCEPT !.tab = tab])

(* A section of Administration: they are mounted by turns.                 *)
OpensSection(section) ==
    /\ at = "admin" /\ SectionReads(section) # SectionReads(view.tab)
    /\ res' = [n \in SectionReads(section) |-> Data!Mounted]
    /\ view' = [view EXCEPT !.tab = section]
    /\ UNCHANGED <<token, at, steps>>

BreaksDown(by) == at = "usage" /\ Looks([view EXCEPT !.breakdown = by])

PicksRun(run) ==
    /\ "detail" \in DOMAIN res /\ GraphTab
    /\ Looks([view EXCEPT !.picked = run.id])

-----------------------------------------------------------------------------
(* The decision panel of one run: the note, the post, what came of it.     *)

WritesNote == at = "run" /\ Rows("run") # {} /\ Looks([view EXCEPT !.note = ~@])

Act ==
    /\ at = "run" /\ Rows("run") # {}
    /\ IF view.note
       THEN view.posts < MaxPosts /\ Looks([view EXCEPT !.outcome = "", !.posts = @ + 1])
       ELSE Looks([view EXCEPT !.outcome = "a note is mandatory"])

(* The id it posts to is a run's; the API looks for a task.                *)
ActAnswered ==
    /\ view.posts > 0
    /\ Looks([view EXCEPT !.posts = @ - 1, !.outcome = "could not signal"])

-----------------------------------------------------------------------------
(* The replay of a run: one column after another, then as it was.          *)

Replay ==
    /\ Layers > 0
    /\ Looks([view EXCEPT !.replay = 0, !.length = Layers])

Tick ==
    /\ view.replay # Null
    /\ Looks([view EXCEPT !.replay = IF @ + 1 >= view.length THEN Null ELSE @ + 1])

RunRecordsStep ==
    /\ Graph # {} /\ steps < MaxSteps[at] /\ steps' = steps + 1
    /\ UNCHANGED <<token, at, res, view>>

-----------------------------------------------------------------------------
PagesInit ==
    /\ token \in Token \cup {Null}
    /\ at \in Pages
    /\ res = [n \in Reads(at, "first") |-> Data!Mounted]
    /\ view = NewView
    /\ steps = 1

Requests == Asks \/ \E n \in DOMAIN res : Arrives(n) \/ Fails(n) \/ Retry(n)

Reading ==
    \/ Filtering
    \/ \E tab \in {"first", "graph"} : OpensTab(tab)
    \/ \E section \in Sections : OpensSection(section)
    \/ \E by \in Breakdowns : BreaksDown(by)
    \/ \E run \in CaseRuns : PicksRun(run)

Deciding == WritesNote \/ Act \/ ActAnswered

Replaying == Replay \/ Tick

PagesNext ==
    \/ GraphTabMounts
    \/ /\ ~GraphTabDue
       /\ \/ Requests \/ Reading \/ Deciding \/ Replaying
          \/ RunRecordsStep \/ TokenChanges \/ \E page \in Pages : Visit(page)

-----------------------------------------------------------------------------
(* A list is the newest page of what is on record for the token the page   *)
(* has now, and a record that the filters would let through but the list   *)
(* does not show is never left out in silence: the page says it is full.   *)
(* "A reader who cannot find a run needs to know whether it is absent or   *)
(* merely older than the two hundredth" (console/runs/page.tsx:36, 301;    *)
(* applications/page.tsx:38).                                              *)
ListsStopAloud ==
    \A n \in {"runs", "applications"} \cap DOMAIN res :
        Answered(n) /\ ~Due(n) =>
            /\ \E all \in Answers[n][token] : Rows(n) \in FirstPage(all)
            /\ \A all \in Answers[n][token] :
                   /\ Rows(n) \in FirstPage(all)
                   /\ ~(LetThrough(n, all) \subseteq LetThrough(n, Rows(n)))
                   => SaysFull(n)

(* Nothing that was read is what the page is about.                        *)
Irrelevant(n) ==
    CASE n = "case-runs" -> CaseRuns = {}
      [] n = "governor" -> "docai" \notin Rows(n)
      [] OTHER -> Rows(n) = {}

(* What a page other than the overview shows as live was read with the     *)
(* token it has now, once the effects of the last change have run: an      *)
(* answer to an earlier token's request is never taken.                    *)
LiveIsOfYourToken ==
    ~GraphTabDue =>
        \A n \in DOMAIN res \ Panels :
            res[n].mode = "live" /\ ~Due(n) => res[n].of = token

(* Each figure is rounded: they add up to within half a paisa for each.    *)
AddsUpTo(figures, total) ==
    LET gap == Spend(figures) - total  room == 5000 * Cardinality(figures) IN
    gap <= room /\ -gap <= room

(* A page says there is nothing only of an answer that held nothing: not   *)
(* while it waits, and not of a request that failed.  A spend breakdown    *)
(* adds up to the figure above it, to half a paisa for each of its names,  *)
(* as the days of the chart do; one that falls further short of it leaves  *)
(* names out, and says that it does.  The graph that is drawn is of the    *)
(* run the picker names, and its replay walks the columns it has           *)
(* (console/runs/page.tsx:273, usage/page.tsx:210, 737, RunGraph.tsx:221). *)
NothingSaidUnasked ==
    /\ \A n \in DOMAIN res :
           Report(n) = "none" => res[n].mode = "live" /\ res[n].failure = "none" /\ Irrelevant(n)
    /\ Rows("usage") # {} =>
           LET rows == Rows("usage")  by == view.breakdown IN
           /\ AddsUpTo(GroupByName(rows, by), Spend(rows))
           /\ AddsUpTo(DailySpend(rows), Spend(rows))
           /\ ~AddsUpTo(ShownRows(rows, by), Spend(rows)) => HiddenRows(rows, by) > 0
    /\ view.replay # Null => view.replay < Layers
    /\ GraphTab /\ ~GraphTabDue /\ ~Due("detail") => \A run \in Graph : run.id = RunId
=============================================================================
