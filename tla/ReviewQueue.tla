------------------------------ MODULE ReviewQueue ------------------------------
(***************************************************************************)
(* The review queue of the console: the list of tasks escalated to a       *)
(* person (console/review/page.tsx), the workspace in which one of them is *)
(* decided (DecisionWorkspace.tsx), the view model between them and the    *)
(* API (review-model.ts), and the dialog that confirms (primitives.tsx).   *)
(*                                                                         *)
(* The queue is read through useResource, so a reload, a token set in      *)
(* another tab, other people's decisions and this tab's own, sent but not  *)
(* yet answered, all interleave.                                           *)
(***************************************************************************)
EXTENDS Integers, Sequences, FiniteSets

CONSTANTS Item,        \* tasks, of every tenant
          Token,       \* bearer tokens, each of one tenant and one session
          Null,
          Type,        \* [Item -> the type of the task at the API]
          DueAt,       \* [Item -> Int or Null], in quarters of an hour
          Entity,      \* [Item -> the application it was raised against, or Null]
          Queue,       \* [Item -> the queue it is assigned to, or Null]
          Tenant,      \* [Token -> the items its tenant owns]
          Claims,      \* [Token -> the roles its payload names, Null if unreadable]
          Endpoints,   \* the task resolutions the API build serves
          MaxPosts,    \* bound on decisions on their way at once
          Now          \* Date.now() at the render, in quarters of an hour

ASSUME ReviewAssumption ==
    /\ Null \notin Item \cup Token /\ IsFiniteSet(Item)
    /\ DueAt \in [Item -> Int \cup {Null}]
    /\ Tenant \in [Token -> SUBSET Item]
    /\ MaxPosts \in Nat /\ Now \in Int

Data == INSTANCE PageResource WITH NoData <- {}, NoKey <- Null

VARIABLES token,     \* localStorage's token, as useSession reads it
          served,    \* what became of each task at the API
          decisions, \* the decisions the API has recorded
          tasks,     \* useResource("tasks:<token>")
          read,      \* the rows the API read for the request, or Null
          settled,   \* the last mode that was not "loading", or Null
          filter, wanted, resolved,   \* the page's own state
          desk,      \* the DecisionWorkspace that is mounted
          posts      \* the decisions sent

page == <<settled, filter, wanted, resolved>>
vars == <<token, served, decisions, tasks, read, page, desk, posts>>

-----------------------------------------------------------------------------
(* The session (lib/session.ts).                                           *)

(* The payload of a token, read for display: nothing if it is no JWT.      *)
InspectToken(t) == IF t = Null THEN Null ELSE Claims[t]

(* useSession: no token, no payload and no claim of roles are all no role. *)
SessionRoles(t) == IF InspectToken(t) = Null THEN {} ELSE InspectToken(t)

(* The approval matrix, as the console mirrors it.                         *)
ApproverQueues ==
    [underwriter |-> {"underwriting.queue", "onboarding.queue"},
     credit_head |-> {"underwriting.queue", "credit.head", "onboarding.queue"},
     collections_manager |-> {"collections.manager"},
     ops |-> {}, auditor |-> {}]

CanApprove(t, queue) ==
    \E role \in SessionRoles(t) \cap DOMAIN ApproverQueues : queue \in ApproverQueues[role]

-----------------------------------------------------------------------------
(* The view model.                                                         *)

(* A type the console does not know is shown as a decision.                *)
KindFromType(type) ==
    CASE type = "call_review" -> "call"
      [] type \in {"decision", "deviation", "pendency"} -> type
      [] OTHER -> "decision"

(* toReviewItem: what was escalated, from the task.                        *)
Kind == [i \in Item |-> KindFromType(Type[i])]

Verb(kind, endpoint) == [kind |-> kind, endpoint |-> endpoint]

(* actionsFor: an action the API has no endpoint for keeps its place.      *)
ActionsFor(kind) ==
    CASE kind \in {"decision", "deviation"} ->
           {Verb("primary", "approve"), Verb("danger", "reject"),
            Verb("secondary", "request_info")}
      [] kind = "call" ->
           {Verb("primary", "approve"), Verb("danger", "reject"), Verb("secondary", Null)}
      [] kind = "pendency" ->
           {Verb("primary", "request_info"), Verb("secondary", "approve"),
            Verb("secondary", Null)}

(* slaOf: the time left is rounded to whole hours, halves up.              *)
SlaOf(i) ==
    IF DueAt[i] = Null THEN "none"
    ELSE LET hours == (DueAt[i] - Now + 2) \div 4 IN
         IF hours < 0 THEN "breached" ELSE IF hours <= 4 THEN "soon" ELSE "ok"

(* bySla: soonest first, an item with no SLA last; sort() is stable.       *)
Before(i, j) == DueAt[i] # Null /\ (DueAt[j] = Null \/ DueAt[i] < DueAt[j])

First(S) == IF S = {} THEN Null
            ELSE CHOOSE i \in S : \A j \in S : ~Before(j, i)

Items == tasks.data
Open == {i \in Items : resolved[i] = Null}
Shown == {i \in Open : filter = "all" \/ Kind[i] = filter}
(* An item raised against no application is related to none.               *)
Related(i) == {j \in Open \ {i} : Entity[i] # Null /\ Entity[j] = Entity[i]}

Answered == settled = "live"

(* A named item is looked for among all items, and never replaced.         *)
Selected ==
    CASE settled = Null -> Null      \* the skeleton of the first load
      [] settled # Null /\ wanted # Null -> IF wanted \in Items THEN wanted ELSE Null
      [] OTHER -> First(IF Shown # {} THEN Shown ELSE Open)

(* Why there is no figure: nobody asked, or nobody found out.              *)
Unknown == IF tasks.failure = "no-token" THEN "not asked" ELSE "not known"

(* The sentence at the top of the page.                                    *)
Briefing ==
    CASE ~Answered -> Unknown
      [] Answered /\ Open = {} -> "nothing waiting"
      [] OTHER -> "some waiting"

(* The tiles print a number only when the API answered.                    *)
Tiles == IF ~Answered THEN Unknown
         ELSE [open |-> Open,
               decisions |-> {i \in Open : Kind[i] = "decision"},
               deviations |-> {i \in Open : Kind[i] = "deviation"},
               breached |-> {i \in Open : SlaOf(i) = "breached"}]

(* The rows of the list, each a button, or the sentence in their place.    *)
ListShows ==
    CASE Shown # {} -> Shown
      [] Shown = {} /\ ~Answered -> Unknown
      [] Shown = {} /\ Answered /\ Open # {} -> "none of this kind"
      [] OTHER -> IF Items = {} THEN "nothing was escalated" ELSE "all actioned here"

(* Beside it, the item asked for, word that it is not here, or nothing.    *)
Pane ==
    CASE wanted # Null /\ wanted \notin Items -> "could not be opened"
      [] OTHER -> IF Selected = Null THEN "empty" ELSE "workspace"

(* The workspace also links the other open items of its application.      *)
Linked == IF Pane = "workspace" THEN Related(Selected) ELSE {}

(* The banner offers another try, and a token where that is what is missing. *)
Banner ==
    IF settled = "live" THEN [says |-> "live", retry |-> FALSE, setToken |-> FALSE]
    ELSE [says |-> tasks.failure, retry |-> TRUE, setToken |-> tasks.failure = "no-token"]

(* The workspace is keyed by its item: another item is another workspace.  *)
(* Of the note it is told for which item a sufficient one was written.     *)
NewDesk(i) == [item |-> i, note |-> Null, pending |-> Null, busy |-> 0]

(* Mutant: without the key, the workspace is handed the new item.          *)
Keyed_SameWorkspace(d, i) == [d EXCEPT !.item = i]
Keyed(d, i) == IF d.item = i THEN d ELSE NewDesk(i)

(* Whatever an event changed, the page then renders.                       *)
Renders == desk' = Keyed(desk, Selected')

-----------------------------------------------------------------------------
(* The world outside this page.                                            *)

TokenSetElsewhere(t) ==
    /\ t # token
    /\ token' = t
    /\ UNCHANGED <<served, decisions, tasks, read, page, desk, posts>>

Escalate(i) ==
    /\ served[i] = "unborn"
    /\ served' = [served EXCEPT ![i] = "open"]
    /\ UNCHANGED <<token, decisions, tasks, read, page, desk, posts>>

DecidedElsewhere(i) ==
    /\ served[i] = "open"
    /\ served' = [served EXCEPT ![i] = "closed"]
    /\ UNCHANGED <<token, decisions, tasks, read, page, desk, posts>>

-----------------------------------------------------------------------------
(* Reading the queue.                                                      *)

FetchTasks ==
    /\ Data!EffectDue(tasks, token)
    /\ tasks' = Data!RunEffect(tasks, token, token)
    /\ read' = Null
    /\ UNCHANGED <<token, served, decisions, page, desk, posts>>

(* GET /v1/tasks: the open tasks of the token's tenant, as of now.         *)
ApiListsTasks ==
    /\ tasks.asking /\ tasks.token # Null /\ read = Null
    /\ read' = [rows |-> {i \in Tenant[tasks.token] : served[i] = "open"}]
    /\ UNCHANGED <<token, served, decisions, tasks, page, desk, posts>>

TasksArrive ==
    /\ tasks.asking /\ read # Null
    /\ tasks' = Data!Succeeds(tasks, read.rows)
    /\ read' = Null
    /\ UNCHANGED <<token, served, decisions, page, posts>>
    /\ Renders

TasksFail ==
    /\ tasks.asking
    /\ tasks' = Data!Fails(tasks,
                  IF tasks.token = Null THEN "no-token" ELSE "unreachable")
    /\ read' = Null
    /\ UNCHANGED <<token, served, decisions, page, posts>>
    /\ Renders

(* The screen renders against the last mode that settled.                  *)
Settle ==
    /\ tasks.mode # "loading" /\ settled # tasks.mode
    /\ settled' = tasks.mode
    /\ UNCHANGED <<token, served, decisions, tasks, read, filter, wanted,
                   resolved, posts>>
    /\ Renders

(* DataModeBanner offers a retry once the request has failed.              *)
Retry ==
    /\ settled # Null /\ Banner.retry /\ ~tasks.due
    /\ tasks' = Data!Reload(tasks)
    /\ UNCHANGED <<token, served, decisions, read, page, desk, posts>>

-----------------------------------------------------------------------------
(* The list.                                                               *)

(* An open dialog traps the focus behind its scrim.                        *)
PageInReach == settled # Null /\ desk.pending = Null

SetFilter(f) ==
    /\ PageInReach /\ f # filter
    /\ filter' = f
    /\ UNCHANGED <<token, served, decisions, tasks, read, settled, wanted,
                   resolved, posts>>
    /\ Renders

Select(i) ==
    /\ PageInReach /\ i # wanted
    /\ i \in (IF Shown = {} THEN {} ELSE ListShows) \cup Linked
    /\ wanted' = i
    /\ UNCHANGED <<token, served, decisions, tasks, read, settled, filter,
                   resolved, posts>>
    /\ Renders

(* The link named nothing in the queue, and the reader asks for the list.  *)
ClearSelection ==
    /\ PageInReach /\ Pane = "could not be opened"
    /\ wanted' = Null
    /\ UNCHANGED <<token, served, decisions, tasks, read, settled, filter,
                   resolved, posts>>
    /\ Renders

-----------------------------------------------------------------------------
(* The workspace.                                                          *)

(* The form gives way to the confirmation once the item is decided here.   *)
Deciding == settled # Null /\ desk.item # Null /\ resolved[desk.item] = Null

(* The note becomes long enough for an auditor.                            *)
WriteNote ==
    /\ Deciding /\ desk.pending = Null /\ desk.note = Null
    /\ desk' = [desk EXCEPT !.note = desk.item]
    /\ UNCHANGED <<token, served, decisions, tasks, read, page, posts>>

(* blockedReason: what stands between a person and this decision.          *)
BlockedReason(a) ==
    CASE a.endpoint = Null -> "unavailable"
      [] token = Null -> "no token"
      [] Queue[desk.item] = Null -> "unassigned"
      [] ~CanApprove(token, Queue[desk.item]) -> "role"
      [] desk.note = Null -> "note"
      [] OTHER -> "none"

(* The buttons of the form that are not disabled.                          *)
Enabled == {a \in ActionsFor(Kind[desk.item]) : BlockedReason(a) = "none"}

ChooseAction(a) ==
    /\ Deciding /\ desk.pending = Null
    /\ a \in Enabled
    /\ desk' = [desk EXCEPT !.pending = a]
    /\ UNCHANGED <<token, served, decisions, tasks, read, page, posts>>

(* Esc, the scrim or Back; a request on its way goes on.                   *)
CloseDialog ==
    /\ desk.pending # Null
    /\ desk' = [desk EXCEPT !.pending = Null]
    /\ UNCHANGED <<token, served, decisions, tasks, read, page, posts>>

NoPost == [item |-> Null, action |-> Null, token |-> Null, note |-> Null,
           next |-> Null, api |-> "idle", client |-> "idle"]

(* A post is over when the API has decided it and the client has been told. *)
Becomes(p, q) ==
    posts' = [posts EXCEPT ![p] = IF q.client = "told" /\ q.api # "sent" THEN NoPost ELSE q]

(* record: the gate is checked again at the moment of the write.           *)
ConfirmBlocked ==
    /\ desk.pending # Null /\ desk.busy = 0
    /\ BlockedReason(desk.pending) # "none"
    /\ desk' = [desk EXCEPT !.pending = Null]
    /\ UNCHANGED <<token, served, decisions, tasks, read, page, posts>>

(* handleRecord: which item comes next is decided before the answer.       *)
Confirm(p) ==
    /\ desk.pending # Null /\ desk.busy = 0 /\ BlockedReason(desk.pending) = "none"
    /\ posts[p] = NoPost
    /\ posts' = [posts EXCEPT ![p] =
                   [item |-> desk.item, action |-> desk.pending.endpoint,
                    token |-> token, note |-> desk.note,
                    next |-> First(Open \ {desk.item}),
                    api |-> "sent", client |-> "waits"]]
    /\ desk' = [desk EXCEPT !.busy = p]
    /\ UNCHANGED <<token, served, decisions, tasks, read, page>>

(* POST /v1/tasks/{id}/{action}                                            *)
ApiDecides(p) ==
    /\ posts[p].api = "sent"
    /\ LET i == posts[p].item
           found == posts[p].action \in Endpoints /\ i \in Tenant[posts[p].token]
           lands == found /\ served[i] = "open" IN
       /\ Becomes(p, [posts[p] EXCEPT !.api =
                        IF lands THEN "recorded" ELSE IF found THEN "conflict" ELSE "not found"])
       /\ served' = IF lands THEN [served EXCEPT ![i] = "closed"] ELSE served
       /\ decisions' = IF lands THEN decisions \cup {[item |-> i, action |-> posts[p].action]}
                       ELSE decisions
    /\ UNCHANGED <<token, tasks, read, page, desk>>

(* What the awaiting record() does to the workspace that sent p, if it is  *)
(* still the one mounted.                                                  *)
After(d, p, ok) ==
    IF d.busy # p THEN d
    ELSE [d EXCEPT !.pending = Null, !.busy = 0, !.note = IF ok THEN Null ELSE @]

(* Mutant: the item is hidden on any answer. *)
DecisionRecorded_AnyAnswer(p) ==
    /\ posts[p].client = "waits" /\ posts[p].api \in {"recorded", "conflict"}
    /\ Becomes(p, [posts[p] EXCEPT !.client = "told"])
    /\ resolved' = [resolved EXCEPT ![posts[p].item] = posts[p].action]
    /\ wanted' = IF posts[p].next # Null THEN posts[p].next ELSE wanted
    /\ tasks' = Data!Reload(tasks)
    /\ UNCHANGED <<token, served, decisions, read, settled, filter>>
    /\ desk' = Keyed(After(desk, p, TRUE), Selected')

(* The item is hidden, the next one opened, and the queue read again.      *)
DecisionRecorded(p) ==
    /\ posts[p].client = "waits" /\ posts[p].api = "recorded"
    /\ Becomes(p, [posts[p] EXCEPT !.client = "told"])
    /\ resolved' = [resolved EXCEPT ![posts[p].item] = posts[p].action]
    /\ wanted' = IF posts[p].next # Null THEN posts[p].next ELSE wanted
    /\ tasks' = Data!Reload(tasks)
    /\ UNCHANGED <<token, served, decisions, read, settled, filter>>
    /\ desk' = Keyed(After(desk, p, TRUE), Selected')

(* Refused, or no answer within request()'s twelve seconds.                *)
DecisionFailed(p) ==
    /\ posts[p].client = "waits"
    /\ Becomes(p, [posts[p] EXCEPT !.client = "told"])
    /\ desk' = After(desk, p, FALSE)
    /\ UNCHANGED <<token, served, decisions, tasks, read, page>>

-----------------------------------------------------------------------------

Init ==
    /\ token \in Token \cup {Null}
    /\ served \in [Item -> {"unborn", "open"}]
    /\ decisions = {}
    /\ tasks = Data!Mounted /\ read = Null /\ settled = Null
    /\ filter = "all" /\ wanted \in Item \cup {Null}
    /\ resolved = [i \in Item |-> Null]
    /\ desk = NewDesk(Null)
    /\ posts = [p \in 1..MaxPosts |-> NoPost]

Outside ==
    \/ \E t \in Token \cup {Null} : TokenSetElsewhere(t)
    \/ \E i \in Item : Escalate(i) \/ DecidedElsewhere(i)

Reading == FetchTasks \/ ApiListsTasks \/ TasksArrive \/ TasksFail \/ Settle \/ Retry

Browsing ==
    \/ \E f \in {"all"} \cup {Kind[i] : i \in Item} : SetFilter(f)
    \/ \E i \in Item : Select(i)
    \/ ClearSelection

DecidingNext ==
    \/ WriteNote
    \/ \E k \in {Kind[i] : i \in Item} : \E a \in ActionsFor(k) : ChooseAction(a)
    \/ CloseDialog \/ ConfirmBlocked
    \/ \E p \in 1..MaxPosts :
          Confirm(p) \/ ApiDecides(p) \/ DecisionRecorded(p) \/ DecisionFailed(p)

Next == Outside \/ Reading \/ Browsing \/ DecidingNext

Spec == Init /\ [][Next]_vars

-----------------------------------------------------------------------------

(* Every variable holds a value of the shape its declaration gives it.     *)
ReviewTypeOK ==
    /\ token \in Token \cup {Null}
    /\ served \in [Item -> {"unborn", "open", "closed"}]
    /\ tasks.data \subseteq Item /\ tasks.mode \in {"loading", "live", "example"}
    /\ settled \in {Null, "live", "example"}
    /\ wanted \in Item \cup {Null}
    /\ desk.item \in Item \cup {Null} /\ desk.busy \in 0..MaxPosts
    /\ \A p \in 1..MaxPosts : posts[p].item \in Item \cup {Null}

(* A decision is sent with the note that was written for that very item,   *)
(* long enough, under a token whose role may sign its queue, and of an     *)
(* item the link did not name another of: reloads, filters, links and      *)
(* other people's decisions may change what is selected at any moment      *)
(* before (DecisionWorkspace's key, blockedReason asked again in record).  *)
SentAsConfirmed ==
    [][\A p \in 1..MaxPosts : posts[p] = NoPost /\ posts'[p] # NoPost =>
          LET s == posts'[p] IN
          /\ s.note = s.item
          /\ s.token # Null /\ Queue[s.item] # Null /\ CanApprove(s.token, Queue[s.item])
          /\ wanted \in {Null, s.item}]_vars

(* What this tab hides as decided, the API recorded with that very action, *)
(* though answers are lost, arrive after the workspace has gone, and       *)
(* others decide the same items (handleRecord).                            *)
HiddenIsRecorded ==
    \A i \in Item : resolved[i] # Null =>
        [item |-> i, action |-> resolved[i]] \in decisions

(* A workspace waits for a post only while that post waits for an answer,  *)
(* so no dialog stays on "Recording..." (record's finally).                *)
BusyIsAnswered ==
    desk.busy # 0 => /\ posts[desk.busy].client = "waits"
                     /\ posts[desk.busy].item = desk.item

(* The sentence and the tiles tell of the same items, and a tile counts as *)
(* breached what is more than half an hour past the time it was promised   *)
(* (briefing, slaOf: the time left is rounded to whole hours).             *)
FiguresAgree ==
    Answered =>
        /\ (Briefing = "nothing waiting") = (Tiles.open = {})
        /\ Tiles.breached = {i \in Items : /\ resolved[i] = Null /\ DueAt[i] # Null
                                           /\ Now - DueAt[i] > 2}

(* What the page may never show, in one formula.                           *)
QueueInvariant == ReviewTypeOK /\ HiddenIsRecorded /\ BusyIsAnswered /\ FiguresAgree
=============================================================================
