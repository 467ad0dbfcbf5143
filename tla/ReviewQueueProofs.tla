--------------------------- MODULE ReviewQueueProofs ---------------------------
(***************************************************************************)
(* The review queue, for any tasks, tokens, tenants and number of          *)
(* decisions on their way.                                                 *)
(***************************************************************************)
EXTENDS ReviewQueue, FiniteSetTheorems, WellFoundedInduction, TLAPS

Acts == {"approve", "reject", "request_info", Null}

Verbs == [kind : {"primary", "danger", "secondary"}, endpoint : Acts]

Resources ==
    [data : SUBSET Item, mode : {"loading", "live", "example"},
     failure : {"none", "no-token", "unreachable"}, due : BOOLEAN, asking : BOOLEAN,
     key : Token \cup {Null}, token : Token \cup {Null}, of : Token \cup {Null}]

Desks ==
    [item : Item \cup {Null}, note : Item \cup {Null}, pending : Verbs \cup {Null},
     busy : 0..MaxPosts]

Posts ==
    [item : Item \cup {Null}, action : Acts, token : Token \cup {Null},
     note : Item \cup {Null}, next : Item \cup {Null},
     api : {"idle", "sent", "recorded", "conflict", "not found"},
     client : {"idle", "waits", "told"}]

(* The variables and their values. *)
Shapes ==
    /\ token \in Token \cup {Null}
    /\ served \in [Item -> {"unborn", "open", "closed"}]
    /\ tasks \in Resources
    /\ read \in {Null} \cup [rows : SUBSET Item]
    /\ settled \in {Null, "live", "example"}
    /\ wanted \in Item \cup {Null}
    /\ resolved \in [Item -> Acts]
    /\ posts \in [1..MaxPosts -> Posts]

(* The workspace holds the note of its own item, a dialog only over an     *)
(* item, *)
Own(d) ==
    /\ d \in Desks
    /\ d.note \in {Null, d.item}
    /\ d.pending # Null => d.item # Null

(* and waits for its own post only. *)
Awaits(d, sent) ==
    d.busy # 0 => sent[d.busy].client = "waits" /\ sent[d.busy].item = d.item

(* What the API answers of a decision it recorded, it recorded. *)
Recorded ==
    \A p \in 1..MaxPosts : posts[p].api = "recorded" =>
        [item |-> posts[p].item, action |-> posts[p].action] \in decisions

(* The inductive invariant: the workspace is always that of the selection. *)
QueueInv ==
    /\ Shapes /\ Recorded /\ HiddenIsRecorded
    /\ Own(desk) /\ Awaits(desk, posts)
    /\ desk.item = Selected

-----------------------------------------------------------------------------
(* Of the items of a finite set, one is due no later than any other. *)
LEMMA OneIsFirst ==
    ASSUME NEW S \in SUBSET Item, S # {}
    PROVE  \E i \in S : \A j \in S : ~Before(j, i)
  <1> DEFINE Headless == {T \in SUBSET Item : /\ T # {}
                                              /\ \A i \in T : \E j \in T : Before(j, i)}
  <1>1. SUFFICES ASSUME Headless # {}
                 PROVE  FALSE
    BY <1>1
  <1>2. IsWellFoundedOn(StrictSubsetOrdering(Item), SUBSET Item)
    <2>1. FiniteSubsetsOf(Item) = SUBSET Item
      BY ReviewAssumption, FS_FiniteSubsetsOfFinite
    <2>2. IsWellFoundedOn(StrictSubsetOrdering(Item), FiniteSubsetsOf(Item))
      BY FS_StrictSubsetOrderingWellFounded
    <2> QED
      BY <2>1, <2>2
  <1>3. PICK T \in Headless : \A U \in Headless : <<U, T>> \notin StrictSubsetOrdering(Item)
    BY <1>1, <1>2, WFMin
  <1>4. PICK x \in T : TRUE
    OBVIOUS
  <1>5. T \ {x} \notin Headless
    <2>1. <<T \ {x}, T>> \in StrictSubsetOrdering(Item)
      BY <1>4 DEF StrictSubsetOrdering
    <2> QED
      BY <1>3, <2>1
  <1>6. \A i, j, k \in Item : /\ ~Before(i, i)
                              /\ Before(i, j) /\ Before(j, k) => Before(i, k)
    BY ReviewAssumption DEF Before
  <1>7. PICK y \in T : Before(y, x) /\ y # x
    BY <1>4, <1>6
  <1>8. PICK m \in T \ {x} : \A j \in T \ {x} : ~Before(j, m)
    BY <1>5, <1>7
  <1>9. Before(x, m)
    BY <1>8
  <1> QED
    BY <1>6, <1>7, <1>8, <1>9

(* The first of a set is one of it. *)
LEMMA FirstIs ==
    ASSUME NEW S \in SUBSET Item
    PROVE  First(S) \in S \cup {Null}
  BY OneIsFirst DEF First

(* The selection is an item or none. *)
LEMMA SelectedIs ==
    ASSUME Shapes'
    PROVE  Selected' \in Item \cup {Null}
  <1>1. Items' \subseteq Item
    BY DEF Items, Shapes, Resources
  <1>2. Open' \subseteq Item /\ Shown' \subseteq Item
    BY <1>1 DEF Open, Shown
  <1>3. First(IF Shown' # {} THEN Shown' ELSE Open') \in Item \cup {Null}
    BY <1>2, FirstIs
  <1>4. wanted' \in Item \cup {Null}
    BY DEF Shapes
  <1> QED
    BY <1>3, <1>4 DEF Selected

(* The selection is the page's, not the world's. *)
LEMMA SelectedStays ==
    ASSUME UNCHANGED page, tasks'.data = tasks.data
    PROVE  Selected' = Selected
  BY DEF page, Selected, Shown, Open, Items

(* A rendered workspace is the selection's, with nothing of another item. *)
LEMMA KeyedIs ==
    ASSUME NEW d, Own(d), NEW i \in Item \cup {Null}, NEW sent, Awaits(d, sent)
    PROVE  /\ Own(Keyed(d, i)) /\ Awaits(Keyed(d, i), sent)
           /\ Keyed(d, i).item = i
  <1>1. CASE d.item = i
    BY <1>1 DEF Keyed
  <1>2. CASE d.item # i
    <2>1. NewDesk(i).item = i /\ NewDesk(i).note = Null /\ NewDesk(i).pending = Null
          /\ NewDesk(i).busy = 0
      BY DEF NewDesk
    <2>2. NewDesk(i) \in Desks
      BY ReviewAssumption DEF NewDesk, Desks
    <2> QED
      BY <1>2, <2>1, <2>2 DEF Keyed, Own, Awaits
  <1> QED
    BY <1>1, <1>2

-----------------------------------------------------------------------------
(* The page renders after an event of its own. *)
LEMMA RenderKeeps ==
    ASSUME QueueInv, Shapes', Renders, UNCHANGED <<decisions, resolved, posts>>
    PROVE  QueueInv'
  <1>1. Selected' \in Item \cup {Null}
    BY SelectedIs
  <1>2. Own(desk') /\ Awaits(desk', posts) /\ desk'.item = Selected'
    BY <1>1, KeyedIs DEF QueueInv, Renders
  <1>3. Own(desk)' /\ Awaits(desk, posts)'
    BY <1>2 DEF Own, Awaits
  <1>4. Recorded' /\ HiddenIsRecorded'
    BY DEF QueueInv, Recorded, HiddenIsRecorded
  <1> QED
    BY <1>2, <1>3, <1>4 DEF QueueInv

(* An event that changes neither the page nor what it shows. *)
LEMMA QuietKeeps ==
    ASSUME QueueInv, Shapes', UNCHANGED <<decisions, page, posts>>, tasks'.data = tasks.data,
           Own(desk'), Awaits(desk', posts), desk'.item = desk.item
    PROVE  QueueInv'
  <1>1. Selected' = Selected
    BY SelectedStays
  <1>2. Own(desk)' /\ Awaits(desk, posts)'
    BY DEF Own, Awaits
  <1>3. Recorded' /\ HiddenIsRecorded'
    BY DEF QueueInv, Recorded, HiddenIsRecorded, page
  <1> QED
    BY <1>1, <1>2, <1>3 DEF QueueInv

(* The world outside. *)
LEMMA OutsideKeeps ==
    ASSUME QueueInv, Outside
    PROVE  QueueInv'
  <1>1. /\ Shapes /\ Own(desk) /\ Awaits(desk, posts)
        /\ UNCHANGED <<decisions, tasks, read, page, desk, posts>>
    BY DEF Outside, QueueInv, TokenSetElsewhere, Escalate, DecidedElsewhere
  <1>2. token' \in Token \cup {Null}
    BY <1>1 DEF Outside, Shapes, TokenSetElsewhere, Escalate, DecidedElsewhere
  <1>3. served' \in [Item -> {"unborn", "open", "closed"}]
    BY <1>1 DEF Outside, Shapes, TokenSetElsewhere, Escalate, DecidedElsewhere
  <1>4. Shapes'
    BY <1>1, <1>2, <1>3 DEF Shapes, page
  <1> QED
    BY <1>1, <1>4, QuietKeeps

(* Reading the queue. *)
LEMMA ReadingKeeps ==
    ASSUME QueueInv, Reading
    PROVE  QueueInv'
  <1>1. Shapes /\ Own(desk) /\ Awaits(desk, posts) /\ tasks \in Resources
    BY DEF QueueInv, Shapes
  <1>2. CASE FetchTasks
    <2>1. tasks' \in Resources /\ tasks'.data = tasks.data
      BY <1>1, <1>2 DEF FetchTasks, Data!RunEffect, Resources, Shapes
    <2>2. Shapes'
      BY <1>1, <1>2, <2>1 DEF FetchTasks, Shapes, page
    <2> QED
      BY <1>1, <1>2, <2>1, <2>2, QuietKeeps DEF FetchTasks
  <1>3. CASE ApiListsTasks
    <2>1. tasks.token \in Token
      BY <1>1, <1>3 DEF ApiListsTasks, Resources
    <2>2. read' \in [rows : SUBSET Item]
      BY <1>3, <2>1, ReviewAssumption DEF ApiListsTasks
    <2>3. Shapes'
      BY <1>1, <1>3, <2>2 DEF ApiListsTasks, Shapes, page
    <2> QED
      BY <1>1, <1>3, <2>3, QuietKeeps DEF ApiListsTasks
  <1>4. CASE TasksArrive
    <2>1. read.rows \in SUBSET Item
      BY <1>1, <1>4 DEF TasksArrive, Shapes
    <2>2. tasks' \in Resources
      BY <1>1, <1>4, <2>1 DEF TasksArrive, Data!Succeeds, Resources
    <2>3. Shapes'
      BY <1>1, <1>4, <2>2 DEF TasksArrive, Shapes, page
    <2> QED
      BY <1>4, <2>3, RenderKeeps DEF TasksArrive, page
  <1>5. CASE TasksFail
    <2>1. tasks' \in Resources
      BY <1>1, <1>5 DEF TasksFail, Data!Fails, Resources
    <2>2. Shapes'
      BY <1>1, <1>5, <2>1 DEF TasksFail, Shapes, page
    <2> QED
      BY <1>5, <2>2, RenderKeeps DEF TasksFail, page
  <1>6. CASE Settle
    <2>1. settled' \in {Null, "live", "example"}
      BY <1>1, <1>6 DEF Settle, Resources
    <2>2. Shapes'
      BY <1>1, <1>6, <2>1 DEF Settle, Shapes
    <2> QED
      BY <1>6, <2>2, RenderKeeps DEF Settle
  <1>7. CASE Retry
    <2>1. tasks' \in Resources /\ tasks'.data = tasks.data
      BY <1>1, <1>7 DEF Retry, Data!Reload, Resources
    <2>2. Shapes'
      BY <1>1, <1>7, <2>1 DEF Retry, Shapes, page
    <2> QED
      BY <1>1, <1>7, <2>1, <2>2, QuietKeeps DEF Retry
  <1> QED
    BY <1>2, <1>3, <1>4, <1>5, <1>6, <1>7 DEF Reading

(* The list. *)
LEMMA BrowsingKeeps ==
    ASSUME QueueInv, Browsing
    PROVE  QueueInv'
  <1>1. Shapes /\ tasks \in Resources
    BY DEF QueueInv, Shapes
  <1>2. ASSUME NEW f, SetFilter(f)
        PROVE  QueueInv'
    <2>1. Shapes'
      BY <1>1, <1>2 DEF SetFilter, Shapes
    <2> QED
      BY <1>2, <2>1, RenderKeeps DEF SetFilter
  <1>3. ASSUME NEW i \in Item, Select(i)
        PROVE  QueueInv'
    <2>1. Shapes'
      BY <1>1, <1>3 DEF Select, Shapes
    <2> QED
      BY <1>3, <2>1, RenderKeeps DEF Select
  <1>4. CASE ClearSelection
    <2>1. Shapes'
      BY <1>1, <1>4 DEF ClearSelection, Shapes
    <2> QED
      BY <1>4, <2>1, RenderKeeps DEF ClearSelection
  <1> QED
    BY <1>2, <1>3, <1>4 DEF Browsing

-----------------------------------------------------------------------------
(* The form and its dialog. *)
LEMMA FormKeeps ==
    ASSUME QueueInv,
           \/ WriteNote \/ CloseDialog \/ ConfirmBlocked
           \/ \E a : ChooseAction(a)
    PROVE  QueueInv'
  <1>1. Shapes /\ Own(desk) /\ Awaits(desk, posts) /\ desk \in Desks
    BY DEF QueueInv, Own
  <1>2. /\ UNCHANGED <<token, served, decisions, tasks, read, page, posts>>
        /\ desk.item \in Item \cup {Null}
    BY <1>1 DEF WriteNote, CloseDialog, ConfirmBlocked, ChooseAction, Desks
  <1>3. Shapes'
    BY <1>1, <1>2 DEF Shapes, page
  <1>4. Own(desk') /\ desk'.busy = desk.busy /\ desk'.item = desk.item
    <2>1. CASE WriteNote
      BY <1>1, <1>2, <2>1 DEF WriteNote, Own, Desks
    <2>2. CASE CloseDialog \/ ConfirmBlocked
      BY <1>1, <2>2 DEF CloseDialog, ConfirmBlocked, Own, Desks
    <2>3. ASSUME NEW a, ChooseAction(a)
          PROVE  Own(desk') /\ desk'.busy = desk.busy /\ desk'.item = desk.item
      <3>1. desk.item # Null /\ desk.item \in Item /\ a \in ActionsFor(Kind[desk.item])
        BY <1>2, <2>3 DEF ChooseAction, Deciding, Enabled
      <3>2. a \in Verbs
        <4>1. Kind[desk.item] \in {"decision", "deviation", "call", "pendency"}
          BY <3>1 DEF Kind, KindFromType
        <4> QED
          BY <3>1, <4>1 DEF ActionsFor, Verb, Verbs, Acts
      <3>3. desk' = [desk EXCEPT !.pending = a]
        BY <2>3 DEF ChooseAction
      <3> QED
        BY <1>1, <3>1, <3>2, <3>3 DEF Own, Desks
    <2> QED
      BY <2>1, <2>2, <2>3
  <1>5. Awaits(desk', posts)
    BY <1>1, <1>4 DEF Awaits
  <1> QED
    BY <1>1, <1>2, <1>3, <1>4, <1>5, QuietKeeps

(* What Becomes leaves of a post. *)
LEMMA BecomesIs ==
    ASSUME posts \in [1..MaxPosts -> Posts], NEW p \in 1..MaxPosts, NEW q \in Posts, Becomes(p, q)
    PROVE  /\ posts' \in [1..MaxPosts -> Posts]
           /\ posts'[p] \in {q, NoPost}
           /\ q.client = "waits" => posts'[p] = q
           /\ \A r \in 1..MaxPosts : r # p => posts'[r] = posts[r]
           /\ NoPost.api = "idle"
  <1>1. NoPost \in Posts /\ NoPost.api = "idle"
    BY DEF NoPost, Posts, Acts
  <1>2. posts' = [posts EXCEPT ![p] = IF q.client = "told" /\ q.api # "sent" THEN NoPost ELSE q]
    BY DEF Becomes
  <1> QED
    BY <1>1, <1>2

(* What an answer leaves of the workspace. *)
LEMMA AfterIs ==
    ASSUME NEW p \in 1..MaxPosts, NEW ok \in BOOLEAN, Own(desk)
    PROVE  /\ Own(After(desk, p, ok)) /\ After(desk, p, ok).busy # p
           /\ After(desk, p, ok).busy \in {0, desk.busy}
           /\ After(desk, p, ok).item = desk.item
  <1>1. CASE desk.busy # p
    BY <1>1 DEF After
  <1>2. CASE desk.busy = p
    <2>1. desk \in Desks
      BY DEF Own
    <2>2. After(desk, p, ok) = [desk EXCEPT !.pending = Null, !.busy = 0,
                                            !.note = IF ok THEN Null ELSE @]
      BY <1>2 DEF After
    <2>3. PICK n \in Item \cup {Null} : n = (IF ok THEN Null ELSE desk.note)
      BY <2>1 DEF Desks
    <2>4. After(desk, p, ok) = [desk EXCEPT !.pending = Null, !.busy = 0, !.note = n]
      BY <2>2, <2>3
    <2>5. /\ After(desk, p, ok) \in Desks /\ After(desk, p, ok).busy = 0
          /\ After(desk, p, ok).item = desk.item /\ After(desk, p, ok).note = n
          /\ After(desk, p, ok).pending = Null
      <3>1. 0 \in 0..MaxPosts
        BY ReviewAssumption
      <3> QED
        BY <2>1, <2>4, <3>1 DEF Desks
    <2> QED
      BY <2>3, <2>5 DEF Own
  <1> QED
    BY <1>1, <1>2

(* What a workspace waits for, if anything, is a post. *)
LEMMA BusyIs == \A b \in 0..MaxPosts : b # 0 => b \in 1..MaxPosts
  <1>1. MaxPosts \in Nat
    BY ReviewAssumption
  <1> QED
    BY <1>1

(* A post is made, decided, and told of. *)
LEMMA PostsKeep ==
    ASSUME QueueInv, NEW p \in 1..MaxPosts,
           Confirm(p) \/ ApiDecides(p) \/ DecisionRecorded(p) \/ DecisionFailed(p)
    PROVE  QueueInv'
  <1>1. /\ Shapes /\ Own(desk) /\ Awaits(desk, posts) /\ desk \in Desks
        /\ posts \in [1..MaxPosts -> Posts] /\ posts[p] \in Posts
        /\ Recorded /\ HiddenIsRecorded /\ desk.item = Selected
        /\ p # 0
    BY DEF QueueInv, Own, Shapes
  <1>2. CASE Confirm(p)
    <2>1. PICK q : /\ q = [item |-> desk.item, action |-> desk.pending.endpoint,
                           token |-> token, note |-> desk.note,
                           next |-> First(Open \ {desk.item}), api |-> "sent", client |-> "waits"]
                   /\ posts' = [posts EXCEPT ![p] = q]
      BY <1>2 DEF Confirm
    <2>2. q \in Posts /\ q.client = "waits" /\ q.item = desk.item /\ q.api = "sent"
      <3>1. First(Open \ {desk.item}) \in Item \cup {Null}
        <4>1. Open \ {desk.item} \in SUBSET Item
          BY <1>1 DEF Shapes, Resources, Open, Items
        <4> QED
          BY <4>1, FirstIs
      <3>2. desk.pending \in Verbs /\ desk.pending.endpoint \in Acts
        BY <1>1, <1>2 DEF Confirm, Desks, Verbs
      <3>3. desk.item \in Item \cup {Null} /\ desk.note \in Item \cup {Null}
            /\ token \in Token \cup {Null}
        BY <1>1 DEF Desks, Shapes
      <3> QED
        BY <2>1, <3>1, <3>2, <3>3 DEF Posts
    <2>3. /\ posts' \in [1..MaxPosts -> Posts] /\ posts'[p] = q
          /\ \A r \in 1..MaxPosts : r # p => posts'[r] = posts[r]
      BY <1>1, <2>1, <2>2
    <2>4. UNCHANGED <<token, served, decisions, tasks, read, page>>
          /\ desk' = [desk EXCEPT !.busy = p]
      BY <1>2 DEF Confirm
    <2>5. Shapes'
      BY <1>1, <2>3, <2>4 DEF Shapes, page
    <2>6. Recorded' /\ HiddenIsRecorded'
      BY <1>1, <2>2, <2>3, <2>4 DEF Recorded, HiddenIsRecorded, page
    <2>7. desk' \in Desks /\ desk'.busy = p /\ desk'.item = desk.item
          /\ desk'.note = desk.note /\ desk'.pending = desk.pending
      BY <1>1, <2>4 DEF Desks
    <2>8. Own(desk)' /\ Awaits(desk, posts)' /\ desk'.item = Selected'
      BY <1>1, <2>2, <2>3, <2>4, <2>7, SelectedStays DEF Own, Awaits
    <2> QED
      BY <2>5, <2>6, <2>8 DEF QueueInv
  <1>3. CASE ApiDecides(p)
    <2> DEFINE i == posts[p].item
               lands == posts[p].action \in Endpoints /\ i \in Tenant[posts[p].token]
                        /\ served[i] = "open"
               e == [item |-> i, action |-> posts[p].action]
    <2>1. PICK answer \in {"recorded", "conflict", "not found"} :
             /\ Becomes(p, [posts[p] EXCEPT !.api = answer])
             /\ answer = "recorded" => e \in decisions'
      BY <1>3 DEF ApiDecides
    <2>2. /\ UNCHANGED <<token, tasks, read, page, desk>>
          /\ decisions \subseteq decisions' /\ served' \in [Item -> {"unborn", "open", "closed"}]
      <3>1. UNCHANGED <<token, tasks, read, page, desk>> /\ decisions \subseteq decisions'
        BY <1>3 DEF ApiDecides
      <3>2. served' = served \/ served' = [served EXCEPT ![i] = "closed"]
        BY <1>3 DEF ApiDecides
      <3> QED
        BY <1>1, <3>1, <3>2 DEF Shapes
    <2> DEFINE q == [posts[p] EXCEPT !.api = answer]
    <2>3. /\ q \in Posts /\ q.api = answer /\ q.item = i /\ q.action = posts[p].action
          /\ q.client = posts[p].client
      BY <1>1 DEF Posts
    <2>4. Becomes(p, q)
      BY <2>1
    <2> HIDE DEF q
    <2>5. /\ posts' \in [1..MaxPosts -> Posts] /\ posts'[p] \in {q, NoPost}
          /\ q.client = "waits" => posts'[p] = q
          /\ \A r \in 1..MaxPosts : r # p => posts'[r] = posts[r]
          /\ NoPost.api = "idle"
      BY <1>1, <2>3, <2>4, BecomesIs
    <2>6. Shapes'
      BY <1>1, <2>2, <2>5 DEF Shapes, page
    <2>7. HiddenIsRecorded'
      BY <1>1, <2>2 DEF HiddenIsRecorded, page
    <2>8. Recorded'
      <3> SUFFICES ASSUME NEW r \in 1..MaxPosts, posts'[r].api = "recorded"
                   PROVE  [item |-> posts'[r].item, action |-> posts'[r].action] \in decisions'
        BY DEF Recorded
      <3>1. CASE r = p
        BY <2>1, <2>3, <2>5, <3>1
      <3>2. CASE r # p
        BY <1>1, <2>2, <2>5, <3>2 DEF Recorded
      <3> QED
        BY <3>1, <3>2
    <2>9. Own(desk)' /\ Awaits(desk, posts)' /\ desk'.item = Selected'
      <3>1. Awaits(desk, posts')
        <4>1. desk.busy # 0 => desk.busy \in 1..MaxPosts
          <5>1. desk.busy \in 0..MaxPosts
            BY <1>1 DEF Desks
          <5> QED
            BY <5>1, BusyIs
        <4>2. CASE desk.busy = p
          BY <1>1, <2>3, <2>5, <4>2 DEF Awaits
        <4>3. CASE desk.busy # p
          BY <1>1, <2>5, <4>1, <4>3 DEF Awaits
        <4> QED
          BY <4>2, <4>3
      <3> QED
        BY <1>1, <2>2, <3>1, SelectedStays DEF Own, Awaits
    <2> QED
      BY <2>6, <2>7, <2>8, <2>9 DEF QueueInv
  <1>4. CASE DecisionRecorded(p) \/ DecisionFailed(p)
    <2> DEFINE q == [posts[p] EXCEPT !.client = "told"]
               ok == DecisionRecorded(p)
    <2>1. /\ q \in Posts /\ q.api = posts[p].api /\ q.item = posts[p].item
          /\ q.action = posts[p].action
      BY <1>1 DEF Posts
    <2>2. Becomes(p, q)
      BY <1>4 DEF DecisionRecorded, DecisionFailed
    <2> HIDE DEF q
    <2>3. /\ posts' \in [1..MaxPosts -> Posts] /\ posts'[p] \in {q, NoPost}
          /\ \A r \in 1..MaxPosts : r # p => posts'[r] = posts[r]
          /\ NoPost.api = "idle"
      BY <1>1, <2>1, <2>2, BecomesIs
    <2>4. decisions' = decisions
      BY <1>4 DEF DecisionRecorded, DecisionFailed
    <2>5. Recorded'
      BY <1>1, <2>1, <2>3, <2>4 DEF Recorded
    <2>6. ASSUME NEW b \in BOOLEAN
          PROVE  Own(After(desk, p, b)) /\ Awaits(After(desk, p, b), posts')
                 /\ After(desk, p, b).item = desk.item
      <3>1. /\ Own(After(desk, p, b)) /\ After(desk, p, b).busy # p
            /\ After(desk, p, b).busy \in {0, desk.busy}
            /\ After(desk, p, b).item = desk.item
        BY <1>1, AfterIs
      <3> QED
        BY <1>1, <2>3, <3>1 DEF Awaits, Desks
    <2>7. CASE DecisionFailed(p)
      <3>1. UNCHANGED <<token, served, tasks, read, page>> /\ desk' = After(desk, p, FALSE)
        BY <2>7 DEF DecisionFailed
      <3>2. Shapes' /\ HiddenIsRecorded'
        BY <1>1, <2>3, <2>4, <3>1 DEF Shapes, HiddenIsRecorded, page
      <3>3. Own(desk') /\ Awaits(desk', posts') /\ desk'.item = Selected'
        BY <1>1, <2>6, <3>1, SelectedStays
      <3> QED
        BY <2>5, <3>2, <3>3 DEF QueueInv, Own, Awaits
    <2>8. CASE DecisionRecorded(p)
      <3>1. /\ UNCHANGED <<token, served, read, settled, filter>>
            /\ posts[p].api = "recorded" /\ tasks' = Data!Reload(tasks)
            /\ resolved' = [resolved EXCEPT ![posts[p].item] = posts[p].action]
            /\ wanted' = IF posts[p].next # Null THEN posts[p].next ELSE wanted
            /\ desk' = Keyed(After(desk, p, TRUE), Selected')
        BY <2>8 DEF DecisionRecorded
      <3>2. tasks' \in Resources
        BY <1>1, <3>1 DEF Shapes, Data!Reload, Resources
      <3>3. wanted' \in Item \cup {Null} /\ resolved' \in [Item -> Acts]
        BY <1>1, <3>1 DEF Shapes, Posts
      <3>4. Shapes'
        BY <1>1, <2>3, <3>1, <3>2, <3>3 DEF Shapes
      <3>5. HiddenIsRecorded'
        BY <1>1, <2>4, <3>1 DEF HiddenIsRecorded, Recorded, Shapes
      <3>6. Selected' \in Item \cup {Null}
        BY <3>4, SelectedIs
      <3>7. Own(desk') /\ Awaits(desk', posts') /\ desk'.item = Selected'
        BY <2>6, <3>1, <3>6, KeyedIs
      <3> QED
        BY <2>5, <3>4, <3>5, <3>7 DEF QueueInv, Own, Awaits
    <2> QED
      BY <1>4, <2>7, <2>8
  <1> QED
    BY <1>2, <1>3, <1>4

-----------------------------------------------------------------------------
(* The console has just been opened. *)
LEMMA QueueInitial ==
    ASSUME Init
    PROVE  QueueInv
  <1>1. Shapes
    <2>1. Data!Mounted \in Resources
      BY DEF Data!Mounted, Resources
    <2>2. NoPost \in Posts
      BY DEF NoPost, Posts, Acts
    <2> QED
      BY <2>1, <2>2 DEF Init, Shapes, Acts
  <1>2. Recorded /\ HiddenIsRecorded
    <2>1. NoPost.api = "idle"
      BY DEF NoPost
    <2> QED
      BY <2>1 DEF Init, Recorded, HiddenIsRecorded
  <1>3. /\ desk \in Desks /\ desk.item = Null /\ desk.note = Null /\ desk.pending = Null
        /\ desk.busy = 0
    BY ReviewAssumption DEF Init, NewDesk, Desks
  <1>4. Own(desk) /\ Awaits(desk, posts)
    BY <1>3 DEF Own, Awaits
  <1>5. Selected = Null
    BY DEF Init, Selected
  <1> QED
    BY <1>1, <1>2, <1>3, <1>4, <1>5 DEF QueueInv

(* Whatever happens next, on the page or behind it. *)
LEMMA QueueStep ==
    ASSUME QueueInv, [Next]_vars
    PROVE  QueueInv'
  <1>1. CASE UNCHANGED vars
    <2>1. /\ UNCHANGED <<token, served, decisions, tasks, read, page, desk, posts>>
          /\ Shapes' /\ tasks'.data = tasks.data
      BY <1>1 DEF vars, QueueInv, Shapes, page
    <2> QED
      BY <2>1, QuietKeeps DEF QueueInv
  <1>2. CASE DecidingNext
    BY <1>2, FormKeeps, PostsKeep DEF DecidingNext
  <1> QED
    BY <1>1, <1>2, OutsideKeeps, ReadingKeeps, BrowsingKeeps DEF Next

(* The invariant holds in every state. *)
THEOREM QueueInvAlways == Spec => []QueueInv
  BY QueueInitial, QueueStep, PTL DEF Spec

(* The tiles and the sentence above them are of the same open items, and   *)
(* breached is what is more than half an hour past due.                    *)
LEMMA FiguresAre ==
    ASSUME Shapes
    PROVE  FiguresAgree
  <1> SUFFICES ASSUME Answered
               PROVE  /\ (Briefing = "nothing waiting") = (Tiles.open = {})
                      /\ Tiles.breached = {i \in Items : /\ resolved[i] = Null /\ DueAt[i] # Null
                                                         /\ Now - DueAt[i] > 2}
    BY DEF FiguresAgree
  <1>1. Tiles.open = Open /\ Tiles.breached = {i \in Open : SlaOf(i) = "breached"}
    BY DEF Tiles
  <1>2. Briefing = "nothing waiting" <=> Open = {}
    BY DEF Briefing
  <1>3. ASSUME NEW i \in Item
        PROVE  SlaOf(i) = "breached" <=> DueAt[i] # Null /\ Now - DueAt[i] > 2
    <2>1. CASE DueAt[i] = Null
      BY <2>1 DEF SlaOf
    <2>2. CASE DueAt[i] # Null
      <3>1. DueAt[i] \in Int /\ Now \in Int
        BY <2>2, ReviewAssumption
      <3>2. SlaOf(i) = "breached" <=> (DueAt[i] - Now + 2) \div 4 < 0
        BY <2>2 DEF SlaOf
      <3>3. (DueAt[i] - Now + 2) \div 4 < 0 <=> DueAt[i] - Now + 2 < 0
        BY <3>1
      <3> QED
        BY <2>2, <3>1, <3>2, <3>3
    <2> QED
      BY <2>1, <2>2
  <1>4. Items \subseteq Item
    BY DEF Items, Shapes, Resources
  <1> QED
    BY <1>1, <1>2, <1>3, <1>4 DEF Open

(* What the review queue may never show, it never shows. *)
THEOREM QueueInvariantAlways == Spec => []QueueInvariant
  <1>1. QueueInv => QueueInvariant
    <2> SUFFICES ASSUME QueueInv
                 PROVE  QueueInvariant
      OBVIOUS
    <2>1. ReviewTypeOK
      BY DEF QueueInv, Shapes, Own, Desks, Posts, Resources, ReviewTypeOK
    <2>2. BusyIsAnswered
      BY DEF QueueInv, Awaits, BusyIsAnswered
    <2> QED
      BY <2>1, <2>2, FiguresAre DEF QueueInv, QueueInvariant
  <1> QED
    BY <1>1, QueueInvAlways, PTL

(* Only confirming makes a post, and it sends what was confirmed. *)
LEMMA PostsAreConfirmed ==
    ASSUME QueueInv, [Next]_vars, NEW p \in 1..MaxPosts, posts[p] = NoPost, posts'[p] # NoPost
    PROVE  LET s == posts'[p]
           IN /\ s.note = s.item
              /\ s.token # Null /\ Queue[s.item] # Null /\ CanApprove(s.token, Queue[s.item])
              /\ wanted \in {Null, s.item}
  <1>1. posts \in [1..MaxPosts -> Posts] /\ Own(desk) /\ desk.item = Selected
    BY DEF QueueInv, Shapes
  <1>2. NoPost.api = "idle" /\ NoPost.client = "idle"
    BY DEF NoPost
  <1>3. ASSUME NEW r \in 1..MaxPosts, NEW q, Becomes(r, q), r # p
        PROVE  FALSE
    BY <1>1, <1>3 DEF Becomes
  <1>4. PICK r \in 1..MaxPosts : Confirm(r)
    <2>1. ~UNCHANGED posts
      OBVIOUS
    <2>2. ~(UNCHANGED vars \/ Outside \/ Reading \/ Browsing)
      BY <2>1 DEF vars, Outside, TokenSetElsewhere, Escalate, DecidedElsewhere,
                  Reading, FetchTasks, ApiListsTasks, TasksArrive, TasksFail, Settle, Retry,
                  Browsing, SetFilter, Select, ClearSelection
    <2>3. ASSUME NEW r \in 1..MaxPosts
          PROVE  ~(ApiDecides(r) \/ DecisionRecorded(r) \/ DecisionFailed(r))
      BY <1>2, <1>3 DEF ApiDecides, DecisionRecorded, DecisionFailed
    <2>4. ~(WriteNote \/ CloseDialog \/ ConfirmBlocked \/ \E a : ChooseAction(a))
      BY <2>1 DEF WriteNote, CloseDialog, ConfirmBlocked, ChooseAction
    <2> QED
      BY <2>2, <2>3, <2>4 DEF Next, DecidingNext
  <1>5. /\ desk.pending # Null /\ BlockedReason(desk.pending) = "none"
        /\ posts' = [posts EXCEPT ![r] =
                       [item |-> desk.item, action |-> desk.pending.endpoint,
                        token |-> token, note |-> desk.note,
                        next |-> First(Open \ {desk.item}),
                        api |-> "sent", client |-> "waits"]]
    BY <1>4 DEF Confirm
  <1>6. r = p
    BY <1>1, <1>5
  <1>7. posts'[p].item = desk.item /\ posts'[p].note = desk.note /\ posts'[p].token = token
    BY <1>1, <1>5, <1>6
  <1>8. /\ token # Null /\ desk.note # Null
        /\ Queue[desk.item] # Null /\ CanApprove(token, Queue[desk.item])
    BY <1>5 DEF BlockedReason
  <1>9. desk.note = desk.item /\ desk.item # Null
    BY <1>1, <1>5, <1>8 DEF Own
  <1>10. wanted \in {Null, desk.item}
    BY <1>1, <1>9 DEF Selected
  <1> QED
    BY <1>7, <1>8, <1>9, <1>10

(* A decision is sent as it was confirmed, of the item it was written for. *)
THEOREM SentAlwaysAsConfirmed == Spec => SentAsConfirmed
  <1> DEFINE Sends == \A p \in 1..MaxPosts : posts[p] = NoPost /\ posts'[p] # NoPost =>
                         LET s == posts'[p] IN
                         /\ s.note = s.item
                         /\ s.token # Null /\ Queue[s.item] # Null /\ CanApprove(s.token, Queue[s.item])
                         /\ wanted \in {Null, s.item}
  <1>1. QueueInv /\ [Next]_vars => [Sends]_vars
    BY PostsAreConfirmed
  <1> QED
    BY <1>1, QueueInvAlways, PTL DEF Spec, SentAsConfirmed
=============================================================================
