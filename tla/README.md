# A verification of GravAI

GravAI is a multi-tenant layer of AI agents for lending: a lender draws workflows of
agents in a studio, deploys them, and calls them with applications and documents; agents
read documents and reason through a rate-limited AI provider (Sarvam); every decision is
recorded in a hash-chained audit log. The HTTP API and the MCP server are Python processes,
each one asyncio event loop, over one relational database. The console and the public site
are a Next.js program in the browser, in which pages, timers, answers and other tabs take
turns.

This directory models both in TLA+, checks it with TLC and proves part of it with
TLAPS. Paths below are relative to `src/`; `PROJECT.json` maps every definition to the lines
it stands for.

    tlc -config WorkflowEngine.cfg MCWorkflowEngine.tla     # any run, likewise
    tlapm WorkflowProofs.tla                                # the proofs, likewise

## 1. The system

What each component keeps, does, shares and must get right.

| Component | Source | State | Operations | Interacts with | Hard because | Correct when |
| --- | --- | --- | --- | --- | --- | --- |
| Workflow engine | `packages/gravai_workflow` `engine.py`, `graph.py` | sets of pending, settled and skipped nodes, live edges, halted and failed flags, the trace | validate, take a batch, run it concurrently, retry, collect and prune, halt, return, replay part | executors call agents; state and fixtures are shared by the nodes of a batch | a batch answers in any order; pruning decides who waits for whom; a halt leaves a batch half collected | joins wait; nothing runs off the chosen path; nothing is skipped without cause; every run ends |
| Audit chain and log | `packages/gravai_core` `audit.py`, `repositories.py`, `db.py` | one append-only chain of rows per tenant | append (read the tail, lock it, insert), verify | appended to by every request that changes something | two requests read one tail; a request appends several entries and then fails | the chain of every tenant verifies after any interleaving |
| Agent Studio | `apps/api/.../routers/studio.py` | workflows (name, draft, deleted), versions (number, definition, status) | create, duplicate, update, rename, delete, restore, compile, edit, deploy, retire, run by name, test | audits, hands graphs to the engine | each handler reads, decides and writes in READ COMMITTED transactions without row locks | names and numbers are unique; what is live was deployed; a deploy never takes a name off the air |
| Case file | `routers/applications.py`, `documents.py`, `runs.py`, `agents.py`, `tasks.py`, `gravai_core/runs.py`, `gravai_agents/pipeline.py` | applications, documents, runs, ledger rows, tasks; stored objects | create, upload, appraise, run one agent, resolve a task | blob store, scanner and provider are outside the transaction | external effects stay when the transaction is rolled back | a run, its ledger rows, its task and its entries are there together or not at all |
| Rate governor | `packages/gravai_sarvam/governor.py` | bucket, queue per tenant, rotation, pump task | acquire, release by the pump, cancel, close | every provider call takes a token | callers come and go while the pump turns and sleeps | nobody starves, nobody is left parked, the rate holds |
| Provider client | `packages/gravai_sarvam/http.py` | breaker per product, retries | request, record success or failure, half-open | all readers and agents share it | one breaker, many requests between two awaits | it opens on failures only, spares a failing provider, closes by itself |
| Document reading | `gravai_sarvam/documents.py`, `batching.py`, `agents/.../doc_intelligence.py` | a job at the provider, batches, results | submit, poll, fetch, fan out | governor, client | polls cost tokens; one failure leaves other reads running | quota is spent for requests that are alive; every read ends |
| Runner fixtures | `gravai_runner/sandbox.py`, `inputs.py`, `executors.py` | build-once caches on one object per run | documents, statement, inputs | concurrent nodes of a batch | check, await, set | built once, and what is cached belongs to its key |
| Run state | `gravai_workflow/state.py` | facts, decisions, outputs | set a fact, add a decision | concurrent nodes | last writer wins | a rule is not overruled by a model |
| OAuth sessions | `apps/mcp/.../oauth.py` | tickets, codes, tokens, families; a file | authorise, exchange, rotate, save, load | the browser, the MCP client | replay detection, expiry, restart | a legitimate client keeps its session; a replay ends it |
| Review queue | `apps/web/.../review/page.tsx`, `DecisionWorkspace.tsx`, `lib/useResource.ts`, `session.ts` | rows held, filters, named item, open dialog with its note, what was decided here | read, filter, open, confirm, send, settle, reload | the task routes; another tab that sets the token; other reviewers | answers come late, in any order, under a token that has changed since | what is sent is what was confirmed; what is hidden was recorded |
| Agent runs, uploads | `agents/page.tsx`, `DocumentUpload.tsx` | open cards and their drafts, uploads with ids, one run | probe, send, cancel, submit, settle | the upload and run routes, XHR | a cancel races an answer; a card closes under its run | a stored document stays named; an error tells the document's fate; one run at a time |
| Studio page, sketchpad | `studio/page.tsx`, `Canvas.tsx`, `WorkflowInspector.tsx`, `RunGraph`, `AgentBuilder.tsx` | drawing, undo stacks, record, what is saved, run and trace | draw, undo, save, open, new, compile, deploy, run, leave | the studio routes, React Flow | every button starts a request whose answer finds another drawing | shown as saved is saved; a run is of the screen; edits come back |
| Your agents | `workflows/page.tsx`, `AgentCard.tsx` | rows, cards with staged deletes, search, pages | rename, copy, delete, undo, load more | the studio routes | a delete waits eight seconds while the list is read again | what is gone stays gone; every wait ends |
| Lists, case and run pages, overview, usage, administration | `runs`, `applications`, `usage`, `admin`, overview pages | what was read under which token, filters, notes | read, filter, note, decide, replay | the API by `useResource` | example data stands in for what was not read | live means read with the token held; a list that is cut short says so |
| Audit explorer | `audit/page.tsx` | entries, strip, verdict | read, verify, search | the audit routes | verdict and rows come from two answers | a verdict colours the chain it was asked of as that chain is |
| Shell, settings, palette; MCP page | `ConsoleShell`, `settings`, `CommandPalette`, `mcp/page.tsx` | token, probe, pill; tool, arguments, history | connect, probe, pick, run, confirm | local storage shared by tabs; the MCP routes | a probe answers after the token changed | pill, settings card and status section are of the token held; the desk tells what ran |
| Header, explainers, throughput, thumbnails | `SiteHeader`, `Pipeline`, `UseCaseFlow`, `throughput.ts`, `FlowThumbnail.tsx` | open menu and timers; frames; none | hover, focus, press; play | pointer and focus, observers | timers outlive what they were started for | the menu follows the pointer; nothing stays hidden; figures agree |
| MCP server and tools, expressions, registry, speech, chat, pricing, agents, guardrails, connectors, tenancy, blob store, settings, usage, worker, evals, scripts, drawings and pages of text | see `PROJECT.json` | little or none | | | | |

How they interact: a request opens a transaction (`session_scope`), reads, may run agents or
a workflow (engine, executors, agents, governor, client), writes its rows, appends to the
audit log, and commits when its handler returns. Requests interleave at every await; nothing
but the database and the locks of the governor orders them.

The console reaches the API by `request()` of `lib/api.ts` only: an answer, a refusal or
none. A page holds what it read by `useResource`, whose keys name the token; the token is in
local storage, which every tab writes. What a page says is therefore always about an earlier
moment, and the properties of its models relate what is drawn to what was answered, to whom.

## 2. Modules

| Module | Models | Built on |
| --- | --- | --- |
| `WorkflowGraph` | nodes, edges, cycles, what `validate` refuses | |
| `WorkflowRun` | abstract: what a run promises. Nodes get a verdict one by one when their dependencies have one | `WorkflowGraph` |
| `WorkflowEngine` | `run_workflow`: loop, batch, limiter, retries, pruning, halt, `only_nodes` | `WorkflowGraph`, implements `WorkflowRun` |
| `RunOverlay` | how the Studio page tints a trace over the drawing | `WorkflowEngine` |
| `AuditChain` | a row, its hash, `verify_chain` and the row it names | |
| `AuditAppend` | abstract: what an append promises to the requests of one tenant | |
| `AuditLog` | `AuditRepository.append` in transactions: snapshots, row locks, unique constraint, rollback | `AuditChain`, implements `AuditAppend` |
| `AuditStorage` | a chain whose stored rows were lost or altered, and appended to afterwards | `AuditChain` |
| `Studio` | the router's requests as transactions over cells; the rigid variable `inTurn` says whether requests follow one another or race | `AuditAppend` |
| `CaseFile` | the requests that build a case | `AuditAppend` |
| `Governor`, `SarvamHTTP` | `RateGovernor`, and `SarvamHTTP.request` with `CircuitBreaker`, of one product | |
| `PageResource` | `useResource`: one reading under a key, its answer or failure, reload | |
| `ReviewQueue` | the queue page and its workspace | `PageResource` |
| `DocumentUpload`, `AgentRuns` | the upload panel; the agents page around it | the second extends the first |
| `StudioEditor`, `StudioCanvas`, `WorkflowInputs` | the record and the buttons; the canvas as React Flow reports it; the declared inputs | |
| `SketchBuilder` | the public sketchpad | |
| `YourAgents` | the list of agents | |
| `ConsolePages` | what lists show and filter, the page of rows they stop at, the sums of a breakdown; the pages around them | `PageResource` |
| `AuditPage`, `ConsoleShell`, `McpDesk` | the audit explorer; shell, settings, status section and palette, each `useConnection` of theirs; the MCP page | |
| `SiteHeader`, `Explainers` | the menu of the site; its moving explainers | |
| `Throughput`, `FlowThumbnail` | arithmetic of the capacity model and of a thumbnail | |
| `MC*` | instances for TLC; several put independent components side by side, one of them live in each behaviour, chosen by a variable (`half`, `guard`, `screen`) | |
| `*Proofs` | theorems about `WorkflowEngine`, `RunOverlay`, `AuditLog`, `AuditStorage`, `Governor`, `SarvamHTTP`, `Studio`, `CaseFile`, `ReviewQueue`, `AgentRuns`, `StudioEditor`, `StudioCanvas`, `WorkflowInputs`, `SketchBuilder`, `YourAgents`, and the other pages of the console, the site's header and explainers, the throughput panel and the thumbnail (`ConsoleProofs`) | TLAPS |

Composition: `Studio` and `CaseFile` do not model rows and hashes of the audit log; they
extend `AuditAppend`, which the detailed log is shown (run `AuditLog`, theorem
`AuditImplementsAppend`) to implement for the requests of a tenant. `WorkflowEngine` is
likewise shown (run `WorkflowEngine`, theorem `EngineImplementsWorkflowRun`) to implement
`WorkflowRun`, in which there are no batches, limiter, edges or retries.

### How actions correspond to code

- **WorkflowEngine.** `Schedule` is one turn of `while pending and not halted` up to the await
  of `_run_batch`; `Start` and `Attempt` are the tasks of the batch (`_run_node`), interleaved
  under `MAX_CONCURRENCY`; `CollectOk`, `CollectFailed`, `CollectHalt` are the iterations of the
  loop over the results, in sorted order, with `_prune_unchosen` and `_prune_all`;
  `NothingReady` is the `break`. What an executor answers is any outcome its kind of node can
  give, a raised exception included.
- **AuditLog.** `ReadTail` and `LockTail` are the two halves of one `SELECT ... FOR UPDATE`: the
  row is chosen from the snapshot the statement starts with and then waited for. `Insert` and
  `InsertRefused` meet the unique constraint, `Commit` and `Rollback` are the two ends of
  `session_scope`. With `RowLocks = FALSE` the database serialises writers (SQLite); there the
  model allows more than the code does, whose earlier flush already takes the write lock.
- **Studio, CaseFile.** A request arrives with its first SELECT (one that is refused there
  changes nothing and is no step); each later SELECT is a step on what is committed by then;
  `Flush` waits for whoever has the row or key in flight and meets the constraints; then the
  tail is read, the entry added, and the request commits. `Abort` is any exception, or the
  death of the process, between two steps. A flush writes the columns the handler assigned and
  no others, which is why cells, not rows, are the unit in `Studio`.
- **Governor, SarvamHTTP.** An action is the code between two awaits. The governor's lock is
  never held over an await, so it adds nothing. Time is steps: `Grain` steps refill one token;
  a breaker half-opens after `Reset` steps. The code refills a bucket and compares clocks when
  they are looked at, the model as time passes, which is the same at every use.
- **Console.** An action is one callback: a press, an effect that runs, a timer that fires, an
  answer that arrives, with every `setState` it makes. An effect that React runs at once after a
  render is part of the action that caused it. A request is on its way until its answer or its
  failure arrives, in any order; what the closure captured when it was sent is part of it.
  Other tabs and other people are actions of their own (`Outside` and its like).
- **StudioEditor, SketchBuilder.** A `Visit` says how the Studio page is used: "calm" starts nothing
  while something it started is on its way and does not redo into another canvas, "hurried" does
  both, "lossy" is calm, runs nothing, and answers to writes may be lost. A "tidy" `Visitor` of the
  sketchpad finishes or cancels a connection before undoing, redoing or deleting; a "hasty" one need
  not. A property that holds only of some says so in its definition.

Definitions whose name has a suffix (`Commit_...`) are the mutants of `PROJECT.json`: the
definition with a plausible bug, for which the named property fails. No specification uses
them.

## 3. Runs

| Run | Instance | States | Shows |
| --- | --- | --- | --- |
| `WorkflowEngine` | every shape over 3 nodes and every diamond over 4, at most one router with every labelling, one gate, one retrier with budgets 1 and -1, two at a time, whole or replayed in part | 196,842 | `EngineInvariant`: edges left are those not dead, joins wait, nodes run on the chosen path only, none is skipped without cause. `ResultIsTrue`: nothing passes a gate, the result accounts for every node. `DrawnAsItRan`: the Studio tints what ran. `ImplementsWorkflowRun`. `Termination` |
| `AuditLog` | 3 requests of one tenant and 1 of another, 2 entries each, row locks; or up to 4 rows and 2 losses or alterations | 15,264 | `AuditInvariant`: the chains verify, pending entries extend them. `VerifyTellsWhatWasStored`: what verifies was written, the row named is the first bad one. `AppendOnly`, `EveryRequestEnds`, `ImplementsAuditAppend` |
| `Studio` | 5 requests, two in flight, or 7 one after the other with a definition that does not validate; 2 workflows, 3 versions, 2 names, 11 operations | 173,064 | `StudioInvariant`: names are addresses, numbers have no gap, what ran by name was deployed. `LiveIsOnRecordInTurn`: one live version, none of a deleted workflow, the audit log tells which. `NoRequestsDeadlock`. `DeploymentsAreKept`: only retiring leaves a name without a version; what was deployed is frozen |
| `CaseFile` | 3 requests over 2 applications | 169,645 | `CaseInvariant`: one application each, documents have bytes, runs are whole and answered calls are in the ledger, a task says what the log says. `NoCaseDeadlock` |
| `Provider` | 3 callers, 2 tenants, 2 tokens, 2 steps a token, 1 cancellation, close at any time; or 3 callers, threshold 3, 3 attempts | 134,480 | `TokensGoRound`: exact rotation, fair turns, the rate, one token per caller that gives up. `BreakerSparesTheProvider`: open means failing, leaks are bounded. `NobodyIsShutOut`: parked callers are woken, recovery is automatic |
| `ReviewQueue` | 2 items of two types, one in a queue the role may not sign; a token set and dropped; 1 post | 468,380 | `QueueInvariant`: what is hidden was recorded, a dialog waits for its own answer only, figures agree. `SentAsConfirmed`: what is sent is what was confirmed, under a role that may sign |
| `AgentRuns` | 2 agents, 1 upload of 2 files, 1 load; answers 201 and 500 | 407,802 | `AgentsInvariant`: stored is named, announced and on offer, a failure tells the fate, one run at a time, a result is of what was sent. `NothingHangs` |
| `StudioPage` | editor, sketchpad, canvas and inputs, each alone | 738,014 | `WorkIsKept`, `RunIsOfTheScreen`, `DrawingsAreSound`, `EditsCanBeTakenBack`, `DrawingsComeBack`, `InputsKeepTheirPlace` |
| `YourAgents` | 3 agents, pages of one, 2 rows at once, 3 acts | 120,695 | `GoneStaysGone`, `EveryWaitEnds` |
| `Console` | nine screens, each alone; up to 3 records where a list holds 2; a chain of 4 entries, listed 3 at a time | 2,110,724 | `ListsStopAloud`: what a filter lets through and a list leaves out is not left out in silence. `LiveIsOfYourToken`. `NothingSaidUnasked`. `EvidenceIsTheApis`: a verdict colours the verified chain as it is. `ShellTellsTheTruth`: each connection is told of the token held. `DeskTellsWhatRan`, `MenuFollowsThePointer`, `ExplainersPlay`, `PicturesAreTrue` |
| `StudioTwoLive` | 5 requests, 2 in flight | violation | `AtMostOneDeployed`: two deploys leave two live versions |
| `StudioEditorNew` | a hurried visit | violation | `NeverOverAnother`: the answer to a save arrives after New, and the next save puts the new canvas over the old record |

Composite properties name their parts: each is a conjunction of named invariants, and the
module that states it says what each part means. In the modules that put several components
side by side a part is `\A`-guarded by the component that is live.

Bounds and why they are enough. Three nodes hold a join whose sources are in and out of a
replay or past a failure; the diamonds over four hold a branch that meets again, and a gate
beside and before a join. Three requests hold the races of the API, which are all
between a reader, a writer that commits in between, and a third that meets the result; a
deadlock among requests would be a cycle of two or three. The studio needs one create, one
compile and two deploys, or three versions, to reach each documented rule: five racing
requests (`RacingRequests`) and seven in turn (`SerialRequests`) reach them. Two tenants and three
callers make a queue of two beside another tenant, which is what an unfair turn needs; the
two-token bucket shows bursts. On a page, one item beside another, one token beside none or
a second one, and one request that answers after a second press is what a late answer
needs. What a list leaves out needs one record more than it holds, and a page that is exactly full
beside it; what a filter hides in the middle of the strip, or what is recorded after a verdict, needs
a strip of three in a chain of four, one of whose links is broken. `MaxRequests`, `RacingRequests`, `SerialRequests`, `IdsLeft`, `MaxAppends`, `MaxRows`,
`MaxDamage`, `MaxCancels`, `MaxPosts`, `MaxUploads`, `MaxLoads`, `MaxAgents`, `MaxActs`, `MaxEntries`,
`MaxAsks`, `MaxRuns`, `MaxHistory`, `MaxWrites`, `MaxNew`, `MaxEdits`, `MaxChanges`, `MaxDeleted`, `MaxSelected`,
`MaxFields` and `MaxSteps` are bounds of the model only (`HISTORY`, `HISTORY_LIMIT`, `PageSize`,
`MostRows`, `PageRows`, `RowLimit`, `PageLimit`, `StripLength` are the code's, made small).

Deadlock checking is off where the system may stop: all requests have been made (`Studio`,
`StudioTwoLive`, `CaseFile`), or the visitor of a page has done all the bounds allow
(`StudioEditorNew`, `StudioPage`, `YourAgents`, `Console`). For the requests of `Studio` and
`CaseFile` progress is a state property (`NoRequestsDeadlock`, `NoCaseDeadlock`): somebody in
flight is held up by nobody, and whoever is not held up can take a step; since each request has
finitely many, all end. That keeps symmetry
sound in these runs; runs with a temporal property other than an action property declare
none.

Fairness. The event loop runs every task that is ready and a provider call ends by its
timeout, so tasks of a batch and the scheduling loop are weakly fair (`WorkflowEngine`), a
request that has arrived runs on (`AuditLog`), the clock ticks, the pump wakes from a sleep of
at most a second, a send is answered or times out and callers keep coming (`Provider`; a
breaker is looked at by requests only). In the browser a timer fires and a request settles:
`AgentRuns` is fair to the ninety-second abort of a run, to the upload's bytes and to the
connection that fails or answers; `YourAgents` to its timers and answers (`Machine`). Nothing is
assumed of people, failures, arrivals, cancellations or of the provider.

## 4. Theorems

Each holds for every value of the constants that the module's assumptions allow, whatever the
graph, limit, retry budget, and however many requests, callers, tenants, names, items, documents, rows
and tools. Those of `ConsoleProofs` are each about the specification of one page; the run `Console`
checks the same pages one at a time. `PicturesAreTrueAlways` and `ExplainersPlayAlways` are about the
`Spec` of `MCConsole`, where the two pictures and the two explainers stand side by side. Of
`StudioPageProofs`, those of the editor are about `EditorSpec`, `DrawingsComeBackAlways` about `SketchSpec`,
and `DrawingsAreSoundAlways` and `InputsKeepTheirPlaceAlways` about the `Spec` of `MCStudioPage`, which has
both canvases and the inputs.

| Theorem | Module | Says |
| --- | --- | --- |
| `EngineInvariantCorrect` | `WorkflowProofs` | `EngineInvariant`, with `TypeCorrectness`, `LiveEdgesCorrect`, `JoinWaitsCorrect`, `RunsOnChosenPathCorrect`, `SkippedForCauseCorrect` for its parts |
| `ResultIsTrueCorrect` | `WorkflowProofs` | `ResultIsTrue`, with `NothingPastTheGateCorrect` and `ResultIsCompleteCorrect` |
| `DrawnAsItRanCorrect` | `WorkflowProofs` | `DrawnAsItRan` |
| `EngineImplementsWorkflowRun` | `WorkflowProofs` | `ImplementsWorkflowRun` |
| `AuditInvariantAlways` | `AuditLogProofs` | `AuditInvariant`, with `AuditTypeCorrectness`, `ChainIntactAlways`, `PendingExtendsAlways` |
| `LogIsAppendOnly` | `AuditLogProofs` | `AppendOnly` |
| `AuditImplementsAppend` | `AuditLogProofs` | `ImplementsAuditAppend` |
| `VerifyTellsAlways` | `AuditLogProofs` | `VerifyTellsWhatWasStored` |
| `StudioInvariantAlways` | `WorkflowProofs` | `StudioInvariant` |
| `LiveIsOnRecordAlways` | `WorkflowProofs` | `LiveIsOnRecordInTurn` |
| `DeploymentsKept` | `WorkflowProofs` | `DeploymentsAreKept` |
| `SomebodyGoesOnAlways` | `WorkflowProofs` | `SomebodyGoesOn` of `Studio`, the wait-for half of `NoRequestsDeadlock` |
| `CaseInvariantAlways` | `ServerProofs` | `CaseInvariant` |
| `CaseRequestsGoOn` | `ServerProofs` | `SomebodyGoesOn` of `CaseFile`, the wait-for half of `NoCaseDeadlock` |
| `TokensGoRoundAlways` | `ServerProofs` | `TokensGoRound` |
| `BreakerSparesAlways` | `ServerProofs` | `BreakerSparesTheProvider`, from `HttpInvariance` |
| `QueueInvariantAlways` | `ReviewQueueProofs` | `QueueInvariant` |
| `SentAlwaysAsConfirmed` | `ReviewQueueProofs` | `SentAsConfirmed` |
| `AgentsInvariantAlways` | `AgentRunsProofs` | `AgentsInvariant` |
| `WorkIsKeptAlways` | `StudioPageProofs` | `WorkIsKept` |
| `RunIsOfTheScreenAlways` | `StudioPageProofs` | `RunIsOfTheScreen` |
| `EditsCanBeTakenBackAlways` | `StudioPageProofs` | `EditsCanBeTakenBack` |
| `DrawingsAreSoundAlways` | `StudioPageProofs` | `DrawingsAreSound` |
| `DrawingsComeBackAlways` | `StudioPageProofs` | `DrawingsComeBack` |
| `InputsKeepTheirPlaceAlways` | `StudioPageProofs` | `InputsKeepTheirPlace` |
| `GoneStaysGoneAlways` | `YourAgentsProofs` | `GoneStaysGone` |
| `EvidenceAlways` | `ConsoleProofs` | `EvidenceIsTheApis` |
| `DeskTellsAlways` | `ConsoleProofs` | `DeskTellsWhatRan` |
| `ShellTellsTheTruthAlways` | `ConsoleProofs` | `ShellTellsTheTruth` |
| `LiveIsOfYourTokenAlways` | `ConsoleProofs` | `LiveIsOfYourToken` |
| `ListsStopAloudAlways` | `ConsoleProofs` | `ListsStopAloud` |
| `NothingSaidUnaskedAlways` | `ConsoleProofs` | `NothingSaidUnasked` |
| `MenuFollowsAlways` | `ConsoleProofs` | `MenuFollowsThePointer` |
| `ExplainersPlayAlways` | `ConsoleProofs` | `ExplainersPlay` |
| `PicturesAreTrueAlways` | `ConsoleProofs` | `PicturesAreTrue` |

What is assumed is what the modules state and TLC evaluates: `Workflows \subseteq Graph`, `Position`
injective, `MAX_CONCURRENCY` positive; `TenantOf` total; finite callers, tenants, version ids and
items, where something is counted or a first is looked for; `Null` outside the sets it stands
beside, the panels and workspaces among them (`Panels`, `Desks`), and outside what a record of the
Studio page can hold; records that are there and records to come apart; a seed of the
sketchpad and canvases to open that are sound, and no branch without a label (`branchesOf`
drops those); a strip that draws a link at least; positive limits, thresholds and attempts. Of data
that is computed with: the rows of usage are finitely many and their costs are integers, in units
of which a paisa has ten thousand; a refresh of the agents may read a page; an entry of the
catalogue has a natural number of models and codes; the rates and volumes of the throughput panel
are natural numbers, and an hour's calls for a hundred documents are a whole number of slider steps; the
steps of a thumbnail have ids of their own; at most one field name is a number, as their order
among themselves is not modelled, and what is suggested for a field is no number and is
suggested once. That hashes do not collide is in the model: a hash is the pair of what it covers (`AuditChain`).

*The engine.* The verdict of a node never changes once it is collected (`VerdictsAreFinal`), and
this needs `BatchInv`: a node is pending, in the batch, or settled, never two of them, and a node
that has the limiter has no result yet. Hence an edge that is dead stays dead (`DeadStaysDead`).
`LiveEdgesAreThoseNotDead` is inductive with these; each `Collect` adds to one side exactly what it
takes from the other. The other three say something about the moment a node was taken or
skipped (`TakenByScheduling`: only `Schedule` takes), where `_dependencies_settled` and
`_on_live_path` give them in terms of live edges; the live-edge theorem translates that to verdicts,
and finality keeps it true.

*Its result.* `PlacesInv` says where nodes are: unless a gate halted the run, each is pending, in the
batch, settled or skipped; only a graph without a blocking problem is run. `GateHolds` (no
edge from a halted gate leads to a node that was taken, unless the gate lay past a failure)
gives `NothingPastTheGate`; `TraceInv` and `CallsInv` say that trace, results, calls and flags agree;
`StopsForCause` that a whole graph that stops with nodes pending has a cycle, which is refused.
The refinement maps a node's verdict to what was collected of it and needs, when it is
collected, that the node is still on a live path (`BatchOnLivePath`): what is decided
meanwhile cuts no edge that leads to the batch.

*The log.* `ChainIntact` is not inductive: nothing in it says what the transactions in flight
will insert. `Inv` adds `LogChained` (each committed row is the first, or there is a row before it
whose hash it carries), `FlightChained` (what would commit is chained, and only one
transaction of a tenant has anything to commit) and `TailsRead` (a tail that was read is
genesis or a row that is still visible). The heart is `InsertIsLast`: a stale tail is refused by
the unique constraint, because its number plus one is committed; an unblocked one is the last.
`ChainedVerifies` turns a chained set into what `verify_chain` accepts. The refinement counts
the committed rows of a tenant and the pending ones of a request: a chained log has as many
rows as its last number, which needs its sets to be finite (`AllFinite`). For the stored chain,
`StoredInv`: every row stored is a row that was written but for its content, and they are
numbered one by one up to some number. The first bad row is the least of a set of naturals,
by their well-foundedness.

*The provider.* `HttpInv` is the type, `CountInv` (the breaker is open exactly when its count is at the
threshold, and the count never runs ahead of the failures in a row) and `LeakInv`: while it is open
no request starts, so each send past it is injected into the pairs of a caller and one of its
attempts but the first, which bounds them by their number. The governor needs `PlaceInv` (the
rotation holds each tenant with a queue once, and every parked caller one place of one
queue), `TurnInv` (who had a turn while a tenant waits is behind that tenant now), `BucketInv` (what the
bucket holds and what was taken in the last steps never exceed what it held and what was
refilled since) and `TokenInv` (each caller that gave up accounts for one place held by nobody or
one token drawn and not used).

*Case files.* `CaseInv` joins `RowInv` (committed rows: documents have bytes, a task is resolved when
it has a resolution, entries are about tasks that are there), `RequestInv` (what a request in
flight has prepared is whole, and linked to rows that are there), `KeysApart` (no two requests have
written one external id, because the second waits) and `BillInv` (what was billed for a request
is what it made, until it ends). That not all wait for each other needs that only one request has
uncommitted entries (`OneAtTheTail`: whoever adds one found nobody else's): that one waits for
nobody, an insert waits for a request that has written, and no inserting request has.

*The studio.* `StudioInv` is the type, `RequestInv` (a request sets only the cells its operation
assigns, at the step that assigns them, and appends its entry last), `ClaimInv` (names and numbers a
request has written are free, and no two in flight wrote the same) and `TrailInv` (a version that
is deployed has its entry). That numbers have no gap needs counting: the next number is the
cardinality of the versions there are. For requests that follow one another `TurnInv` adds that one is
alone in flight and that what it read is still so (`Current`): then the incumbents it read are
all there are. Somebody in flight always goes on: a request with an entry at the end of the log
has only its commit before it, and one that still waits for a row has written none.

*The review queue.* `QueueInv`: a decision the API answered as recorded is recorded (`Recorded`), the
workspace holds the note of its own item (`Own`), waits for its own post only (`Awaits`), and is that
of the selection. The item the sentence names exists because one item of a non-empty finite
set is due no later than any other (`OneIsFirst`, by well-foundedness of the finite subsets).

*The agents page.* `UploadInv` says what a request can be: the API decides only of a body that went
out whole and keeps a document only where its answer says so (`Decided`); a panel that sends
waits for the request it names, and one that failed tells of a request that is over (`Waits`). A
document the API kept is thus in the page's list whatever panel is mounted when the answer
comes, and stays on offer to the next card. `PageInv` says the same of runs, that what a failed
run says of the ids it carried is their number, and that there is a panel exactly while a card that
takes a document is open.

*The Studio page and the sketchpad.* `EditorInv` joins `Fitting` (what a write, a run and a leave
that are on their way can be), `Own` (unless the visit is hurried, whatever is drawn, undone,
written or stored is of the canvas it was drawn on) and `Calm` (of who waits for answers there is
one write at a time, and what is called saved, run or left behind is on record, or is what the
write in flight will put there). `Own` and `Calm` carry the three parts of `WorkIsKept` from a
request to its answer. A drawing is sound when its ids are apart and its edges attached. That
ids are apart is stated of members (`Whole`, `Drafts`), and a set has as many ids as members
exactly when they are (`CountingIds`); the first free number exists because the numbers up to one
more than there are steps cannot all be taken, and is the least of them by well-foundedness. The
stacks of undo and redo hold only whole drawings, since only what was on screen gets there. A
hasty visitor can bring back an edge whose source is gone, which `Whole` allows of nobody else.

*The inputs of a workflow.* `InputsInv`: the declaration is of its type (each name once), and a form
that nobody typed over is that of the fields it was last written for, which are the fields
declared. That an edit leaves the other fields where they were is, for a rename, about the fold
that rebuilds the object key by key. It is read step by step (`RebuiltInSteps`) and then as what it comes
to (`RebuiltIsMerged`: the order of first mention, each with the type given last); `RenamingKeeps`,
`RetypingKeeps`, `RemovingKeeps` and `RequiringKeeps` follow, the last with a count: of more
suggestions than there are fields, one is free.

*The list of agents.* `GoneStaysGone` says nothing of answers that are late. `ListInv` adds that an
agent the page calls gone is not with the API (`GoneIsDeleted`: an undo takes it back out), and
that no answer the page would still take has a row of it (`AnswersAreClear`): what is read now is of
agents that live, and when the page drops a row it takes back every reading under way.

*The other pages.* Each rests on one idea, which its invariant says of every moment. The audit
explorer: what is listed is empty or a run of one chain up to the entry that was its newest, of a
full page unless it reaches the first (`AnswersAreRuns`); the largest n of an interval are its end
(`LargestOfAnInterval`), so a strip of it is one too (`StripOfARun`, `SizeOfARun`); and a verdict names
a break of the chain it is of, which has none before what the verdict went over (`VerdictIsOfAChain`).
The MCP page:
at most one run is heard, by the workspace of its tool (`HeardByTheDesk`), and a card that is open
shows what would be sent, of a form nothing objects to, with no run on its way (`DeskIsWhole`).
The frame: of each `useConnection` that is mounted (the frame's, the settings page's and its card's,
the status section's), once its effect has run for the token that is held, the only check under way is
about that token, or it has ended and so is what it said (`CheckIsOf`, `HookOK`); `HooksTell` adds which
of them a page mounts. The reading pages: what is
asked for or live was keyed by the token it is of (`OfItsToken`), so data of another token has a
key that is due. That they say nothing unasked adds what a resource can hold (`ResourcesHold`: rows with
integer costs, lists that are a page of what was on record, the one record that was asked for, an
example only with a failure that is named) and
that a replay is at a column that is drawn (`ReplayIsDrawn`): together `AskedInv`. A list that answered is
then the first page for the token held, and a first page that is not all there is is a full one
(`PageIsAllOrFull`), which the page says. A figure is rounded by half a paisa at most (`RoundedFacts`), so the
figures of the groups add up to the total within half a paisa for each of them, a sum over groups being
the sum over all, and the groups left out are counted. The explainers: `PipelineOK` says that the beat is one of the frames of the entry and that a
timer is set exactly while its effect last ran playing at that beat; `RevealOK` that what is still
hidden is watched, and that each delay is one more than another that arrived. The pictures have no invariant but
their types (`PicturesOK`): `OneStory` and `ThumbnailsAreWhole` are lemmas about the arithmetic
itself, for any rates, hours, volumes and connections.

*Recursive definitions.* Sums and folds are recursive functions, and no induction theorem of
the library can be cited with an operator. So each is unfolded to what it abbreviates, a function
that was chosen among those that satisfy the equation. That there is one is shown by a minimal
counterexample: of the naturals, or of the finite subsets, for which there is none, take a least one
(well-foundedness) and extend the function of the one before. From then on the equation may be used, and
what it computes is shown the same way (`SumsExist` and `SumsDefined` in `ServerProofs`, `RebuildsExist` in
`StudioPageProofs`, `SumsExist` and its like in `ConsoleProofs`).

*Only model-checked.* All liveness (`Termination`, `EveryRequestEnds`, `NobodyIsShutOut`, `NothingHangs`,
`EveryWaitEnds`) and the two no-deadlock properties, which use `ENABLED`: out of the prover's reach.
Of the latter the half that is about waiting is proved (`SomebodyGoesOn`: somebody waits neither for a row
or key in flight nor for the end of the log); that nothing else keeps a request from its next step is
checked. Every other property of a passing run is a theorem.

## 5. Where the code and its words disagree

Shown by a run:

1. **Two live versions** (`StudioTwoLive`). `models.py:682` promises at most one deployed version per
   workflow. `deploy_version` reads the incumbents without a lock: two deploys that both read
   before either commits both promote. Calls by name and deletes then fail until one is retired.
2. **A new canvas over an old record** (`StudioEditorNew`). `studio/page.tsx` starts a new agent while
   a save is on its way; the answer makes the old record current again, and the next save
   stores the new canvas in it.

Met while modelling. The properties that hold instead are in brackets.

3. An edit that read a version as a draft writes it after a deploy committed, so "the version
   still holds the graph exactly as it ran" (`studio.py:1621`) fails [`FrozenOnceDeployed` when
   requests follow one another, in `DeploymentsAreKept`].
4. A delete that found nothing live commits after a deploy; "cannot be deleted at all"
   (`studio.py:1861`) [`LiveIsOnRecordInTurn`].
5. `edit_version` stores a graph without validating it and `deploy_version` does not validate
   either, while compiling refuses invalid graphs so that nothing deployable cannot run
   (`studio.py:1557`). Calls by name are refused for such a version.
6. `engine.py:219`: "Everything downstream of a failure is skipped". A join past a failure runs
   when another predecessor succeeded [`JoinWaits`, `RunsOnChosenPath`].
7. `engine.py:5`: "records every step". Nodes collected after a gate that halts are executed and not
   traced, nor are their tokens counted [`ResultIsComplete`].
8. `engine.py:129`: replay of a single step. A step with dependencies outside the replay is
   skipped and the run reports completion [`JoinWaits`, `Termination`].
9. A node with a negative `retries` reports success without being called.
10. `repositories.py:69`: the lock serialises appends. The writer that waited gets the row that was
    the tail, computes a number that is taken, and is refused by the constraint: sound
    [`ChainIntact`], but the second request is lost.
11. `audit.py:4`: removing a row breaks the chain. Removing the newest rows does not
    [`VerifiedRowsWereWritten`, `FirstBadIsExact`].
12. `models.py:431`: the ledger has every billable interaction. Rows of a request that is rolled back
    after its agents ran are gone [`RunsAreWhole`: answered requests are in it].
13. `governor.py:3`: ten requests a minute. From a full bucket, nineteen go in the first minute
    [`NeverFasterThanRefill`].
14. `governor.py:86`: units granted. Tokens drawn by callers that gave up are not counted
    [`OneTokenPerGiveUp`].
15. `tests/test_resilience.py:198`: an open breaker must not send. Requests under way send their
    remaining attempts [`LeakIsBounded`].
16. A task can be resolved twice: `tasks.py:109` refuses a second resolution on the status it read,
    and the UPDATE has no condition [`TaskSaysWhatTheLogSays`: the log has both].
17. `http.py`, "let one request through": half-opening closes the breaker with one failure to spare,
    and everybody goes through until an answer [`OpenMeansFailing`].
18. `DocumentUpload.tsx:638`: a cancel between the last byte and the answer reports the document as
    not sent, and the API has stored it [`FateIsTold` is of what was not cancelled].
19. `workflows/page.tsx:459`: a refresh through a stale closure shows "Nothing built yet" over agents
    that exist; so does deleting the last loaded row while more pages remain [`GoneStaysGone`].
20. The review queue says "Nothing is waiting" over example data when a reading failed; its tile of
    breached items leaves out the first half hour past due.
21. `Canvas.tsx:209`: "An ordinary edge needs no such test". Past a failure a pruned edge between two
    nodes that both ran is drawn as taken. The trace also stays while the drawing is edited
    [`DrawnAsItRan` is of the drawing that ran].
22. `studio/page.tsx:195`: values typed for one agent stay for another with the same declaration.
    Its example call (`DeployPanel.tsx:115`) is of the inputs on screen, not of the version deployed.
23. `WorkflowInspector.tsx:151`: "Require a field" is refused by no route; types are not checked
    (`studio.py:1885`). Its version field is ignored by compile (`studio.py:1493`).
24. `WorkflowInspector.tsx:159`: renaming a field to one that exists merges the two; a numeric name
    jumps to the front [`InputsKeepTheirPlace` is of the others].
25. On the Studio page New keeps the redo stack; saving twice, or losing the answer to a create,
    makes two records; what is drawn while the page leaves is lost; compile or deploy followed by
    opening another replaces an unsaved canvas; an answer to validate or runs is not tied to the
    record it was asked for; deleting a node with an edge of others brings that edge back on undo
    [`WorkIsKept` and `EditsCanBeTakenBack` are of visits without these].
26. In the sketchpad a connection in the making survives the undo of its source, and completes from
    a step that is not there; deleting a connected step takes two undos (`AgentBuilder.tsx:229`).
27. The MCP page shows the current draft as the arguments of another run; a history entry restored
    keeps the problems of what it replaces.
28. `SiteHeader.tsx:187`: a quick move from the panel to its trigger closes the menu under the pointer;
    Escape with the focus in the panel opens it again.
29. `session.ts:54`: the comment on tabs is not what the listener does. The keys of the overview leave
    out the token (`useResource.ts:13`), so it shows figures of the token before.
30. `lib/api.ts:193`: the timer of a request is cleared before its body is read; an empty or broken
    body is an answer; a run that does not exist is told as a route that does not.
31. The audit page keeps verdict and selection across tokens and readings (`audit/page.tsx:63`, `:140`,
    `:205`): links of another tenant's chain are coloured by the verdict of the token before, and
    entries that came after a verification are drawn as verified. A chain of exactly one page is said to
    continue past it (`:326`) [`EvidenceIsTheApis` is of links of the chain that was verified].
32. The pages of runs and applications filter the two hundred rows they read. "Search for its id, or
    narrow by agent, to reach it" (`runs/page.tsx:304`) and "search for its id or the applicant to reach
    it" (`applications/page.tsx:259`) are untrue: neither asks the API, and what is past the page stays
    out of reach. A book of exactly one page is said to have more [`ListsStopAloud`: what is missing is
    not missing in silence]. The tile of the overview that counts "every run" (`console/page.tsx:151`)
    has no such notice; nor has an application's page, for its runs (matched over the two hundred
    newest: "No runs recorded" may be said of one that has some) or its trail ("Every agent step", of
    two hundred at most). That page reads only itself again after an act, and draws the old
    tenant's record while the new one loads [`LiveIsOfYourToken`].
33. `usage/page.tsx:146` and the panel beside it put the boundaries of utilisation differently;
    `AgentCard.tsx:712` draws a thumbnail without the counts it is documented to need. Of an edge to
    a step that does not exist, `studio.py:566` leaves the line out of the thumbnail and counts it
    all the same [`ThumbnailIsWhole` is of edges between steps].
34. `Canvas.tsx:294` rebuilds what is on screen only when something other than a position changed: an
    undone drag stays where it was dragged, and the next drag stores it again (positions are not
    modelled).
35. `usage/page.tsx:146`: demand between the capacity of business hours and that of running
    continuously "is still 0.6x short" of one that suffices.
36. `settings/page.tsx:68`: the field is edited, or a token saved, during the probe or after it, and
    "Accepted" stands beside a token that was not tried.
37. Each group of the spend is rounded to a paisa by itself (`usage/page.tsx:210`, `:230`, `:873`): they
    need not add up to the total beside them [`NothingSaidUnasked` allows half a paisa for each].
38. `agents/page.tsx:944`: the report of a data source stays beside its address when the address is
    edited, and the answer to a check does not say which address it was of (not modelled).
39. `oauth.py:370` burns a family at its first rotation: the same client's second rotation in one
    process is refused; the burned set is lost at a restart (not modelled).

## 6. Not modelled, and why

`PROJECT.json` lists every component with its reason. In short: pure I/O and protocols (blob store,
scanner, connectors, speech), reads (usage, lists of the API), tables and construction
(registry, wiring, settings, the catalogue of agents), prompts, price and score arithmetic, text
guardrails, authentication (stateless), markup and drawings of the site, offline tools. The table
component is used by no page. The graph of a run is not replayed for a reader who asked for less motion
(`RunGraph.tsx:208`); the model allows the replay. What a client is told is not a variable of the
API's models: a commit that fails after the answer was sent (`deps.py`) is not told apart from one
that fails before; in the console's models an answer that is lost is an ordinary case. Tenants share nothing but the process; where that matters (`AuditLog`, `Governor`)
there are two. Document reading, the fixtures of a run, its state and the sessions of the MCP
server keep state and are not modelled yet (section 7).

## 7. Plan

1. `DocumentReads`: `DocumentRunner` and the fan-out of `DocIntelligenceAgent`, composed of `Governor`
   and `SarvamHTTP`: sends against tokens, reads that outlive their request, one bucket per
   door. Abstract specification: each document is read once or fails.
2. `OAuthSessions`: tickets, codes, rotation, families, expiry, restart from the saved file.
   Abstract: a session that is alive has exactly one usable refresh token.
3. `RunnerFixtures` and `RunState` under the engine's concurrent batches.
4. Operators without state: conditions of a router (`expressions.py`), calling hours
   (`conduct.py`), batching of pages (`batching.py`), each against a reference definition.
