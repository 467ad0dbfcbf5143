------------------------------ MODULE YourAgents ------------------------------
(***************************************************************************)
(* Your agents (console/workflows/page.tsx): the list of one person's      *)
(* workflows, searched and paged by the API, with the cards that rename,   *)
(* copy and delete them (AgentCard.tsx) and the dialog that makes one      *)
(* (NewAgentDialog.tsx).  A card asks the API itself and tells the page    *)
(* afterwards; the page then reads its rows again.  Requests are answered  *)
(* in any order, and every closure keeps the search it was made under.     *)
(*                                                                         *)
(* Left out: the order the reader picks (pages come newest first; the rows *)
(* of a list are a set), the wait between a keystroke and the search, and  *)
(* the wording of failures.                                                *)
(***************************************************************************)
EXTENDS Integers, FiniteSets

CONSTANTS Token,          \* bearer tokens; Null stands for none
          Null,
          Names,          \* names of agents
          Query,          \* searches; "" finds every agent, others one name
          PageSize,
          MostRows,       \* the most the API sends at once, 200 in the code
          MaxAgents,      \* bound on the agents ever made
          MaxActs,        \* bound on what the person does
          TotalReported   \* whether the browser may read X-Total-Count

ASSUME YourAgentsAssumption ==
    /\ Null \notin Token /\ "" \in Query
    /\ PageSize \in Nat \ {0} /\ MostRows \in Nat /\ PageSize <= MostRows
    /\ MaxAgents \in Nat /\ MaxActs \in Nat
    /\ TotalReported \in BOOLEAN

VARIABLES token, search,
          stored,   \* the API's agents, by id
          reads,    \* requests for rows that are on their way
          calls,    \* requests of the cards and of the dialog
          list,     \* the page's state, or Null
          failure, paging,
          asked,    \* the dependencies the list's effect last ran with
          cards,    \* what each card holds; reset when it is not mounted
          dialog,
          dropped,  \* agents the page was told are deleted, and still are
          acts

yourAgentsVars ==
    <<token, search, stored, reads, calls, list, failure, paging, asked, cards, dialog,
      dropped, acts>>

Agent == 1..MaxAgents
Unmade == [live |-> FALSE, made |-> FALSE, name |-> ""]
NewCard == [stage |-> "idle", name |-> Null, restoring |-> FALSE]
Waiting == [is |-> "waiting"]
Refused == [is |-> "failed"]

(* What a callback was made with: the render it was handed down by.        *)
Closure ==
    [token |-> token, search |-> search, loaded |-> IF list = Null THEN 0 ELSE list.loaded]

-----------------------------------------------------------------------------
(* The API's side of the list.                                             *)

Matching(q) ==
    {a \in Agent : stored[a].live /\ (q = "" \/ stored[a].name = q)}

(* Newest first, the later ids being newer.                                *)
Rows(q, offset, limit) ==
    {[id |-> a, name |-> stored[a].name] :
        a \in {b \in Matching(q) :
                  Cardinality({c \in Matching(q) : c > b}) \in offset..(offset + limit - 1)}}

Page(q, offset, limit) ==
    [is |-> "rows", items |-> Rows(q, offset, limit),
     total |-> IF TotalReported THEN Cardinality(Matching(q)) ELSE Null]

-----------------------------------------------------------------------------
(* The page.                                                               *)

hasMore(total, loaded, length, asking) ==
    IF total # Null THEN loaded < total ELSE length >= asking

plusOne(total) == IF total = Null THEN Null ELSE total + 1
minusOne(total) == IF total \in {Null, 0} THEN total ELSE total - 1

Drawn(rows, t) == IF t = Null \/ rows = Null THEN {} ELSE {row.id : row \in rows.items}
Mounted == Drawn(list, token)

(* What the page shows: it says that nothing is built only when nothing    *)
(* was loaded, nothing is claimed to exist, and nothing was searched for;  *)
(* without an answer it says that it does not know.                        *)
searching == search # ""
loading == token # Null /\ list = Null /\ ~failure
trulyEmpty == list # Null /\ list.items = {} /\ list.total \in {Null, 0} /\ ~searching
showToolbar == token # Null /\ ~trulyEmpty

Screen ==
    CASE token = Null -> "nobody asked"
      [] loading -> "skeletons"
      [] token # Null /\ failure /\ list = Null -> "unknown"
      [] token # Null /\ list # Null /\ list.items = {} /\ searching -> "no match"
      [] token # Null /\ trulyEmpty -> "nothing built"
      [] OTHER -> "agents"

NameOn(rows, a) == (CHOOSE row \in rows.items : row.id = a).name

(* After a commit: a card whose row is gone is unmounted, one whose row    *)
(* has caught up with the name it held lets go of it.                      *)
Commit(nextCards, nextCalls) ==
    LET stays == Mounted \cap Drawn(list', token')
        caughtUp(a) == /\ NameOn(list', a) # NameOn(list, a)
                       /\ NameOn(list', a) = nextCards[a].name
    IN  /\ cards' = [a \in Agent |->
                        IF a \notin stays THEN NewCard
                        ELSE IF caughtUp(a) THEN [nextCards[a] EXCEPT !.name = Null]
                        ELSE nextCards[a]]
        /\ calls' = {[c EXCEPT !.mounted = @ /\ (c.id = 0 \/ c.id \in stays)] : c \in nextCalls}

Retired == {[r EXCEPT !.current = FALSE] : r \in reads}

Request(kind, with, offset, limit) ==
    [kind |-> kind, token |-> with.token, search |-> with.search, offset |-> offset,
     limit |-> limit, current |-> TRUE, reply |-> Waiting]

(* The effect: a token, a search or a Retry that differs from the last.    *)
ListDue == asked # <<token, search>>

ListEffect ==
    /\ ListDue
    /\ asked' = <<token, search>>
    /\ list' = Null /\ failure' = FALSE
    /\ reads' = IF token = Null
                THEN {[r EXCEPT !.current = @ /\ r.kind # "first"] : r \in reads}
                ELSE Retired \cup {Request("first", Closure, 0, PageSize)}
    /\ UNCHANGED <<token, search, stored, paging, dialog, dropped, acts>>
    /\ Commit(cards, calls)

(* refresh: every row on screen again, for the search of its closure, or   *)
(* as many as the API sends.                                               *)
Reread(loaded) ==
    IF loaded > MostRows THEN MostRows ELSE IF loaded > PageSize THEN loaded ELSE PageSize

Refreshed_NoTicket(with) ==
    IF with.token = Null THEN reads
    ELSE reads \cup {Request("again", with, 0, Reread(with.loaded))}

Refreshed(with) ==
    IF with.token = Null THEN reads
    ELSE Retired \cup {Request("again", with, 0, Reread(with.loaded))}

loadMore ==
    /\ token # Null /\ list # Null
    /\ Screen = "agents" /\ list.more /\ ~paging
    /\ paging' = TRUE
    /\ reads' = reads \cup {Request("page", Closure, list.loaded, PageSize)}
    /\ UNCHANGED <<token, search, stored, calls, list, failure, asked, cards, dialog, dropped>>

ApiReads(r) ==
    /\ r.reply = Waiting
    /\ \E reply \in {Page(r.search, r.offset, r.limit), Refused} :
           reads' = (reads \ {r}) \cup {[r EXCEPT !.reply = reply]}
    /\ UNCHANGED <<token, search, stored, calls, list, failure, paging, asked, cards, dialog,
                   dropped, acts>>

(* What the page makes of a reply it still waits for.                      *)
ListOf(r) ==
    LET rows == r.reply.items
        length == Cardinality(rows)
    IN
    IF r.kind # "page"
    THEN [items |-> rows, total |-> r.reply.total, loaded |-> length,
          more |-> hasMore(r.reply.total, length, length, r.limit)]
    ELSE IF list = Null THEN Null
    ELSE [items |-> list.items \cup rows, total |-> r.reply.total,
          loaded |-> list.loaded + length,
          more |-> hasMore(r.reply.total, list.loaded + length, length, PageSize)]

(* Mutant: only an answer that is still wanted frees the button. *)
ListAnswered_HoldsTheButton(r) ==
    /\ r.reply # Waiting
    /\ reads' = reads \ {r}
    /\ paging' = (paging /\ ~(r.kind = "page" /\ r.current))
    /\ IF ~r.current THEN UNCHANGED <<list, failure>>
       ELSE /\ failure' = (r.reply = Refused)
            /\ list' = IF r.reply = Refused THEN list ELSE ListOf(r)
    /\ UNCHANGED <<token, search, stored, asked, dialog, dropped, acts>>
    /\ Commit(cards, calls)

ListAnswered(r) ==
    /\ r.reply # Waiting
    /\ reads' = reads \ {r}
    /\ paging' = (paging /\ r.kind # "page")
    /\ IF ~r.current THEN UNCHANGED <<list, failure>>
       ELSE /\ failure' = (r.reply = Refused)
            /\ list' = IF r.reply = Refused THEN list ELSE ListOf(r)
    /\ UNCHANGED <<token, search, stored, asked, dialog, dropped, acts>>
    /\ Commit(cards, calls)

Retry ==
    /\ failure /\ token # Null
    /\ asked' = Null
    /\ UNCHANGED <<token, search, stored, reads, calls, list, failure, paging, cards, dialog,
                   dropped>>

(* The field of the toolbar, or Clear search where nothing matched.        *)
Searches(q) ==
    /\ showToolbar \/ (Screen = "no match" /\ q = "")
    /\ q # search /\ search' = q
    /\ UNCHANGED <<token, stored, reads, calls, list, failure, paging, asked, cards, dialog,
                   dropped>>

TokenChanges ==
    /\ token' \in (Token \cup {Null}) \ {token}
    /\ UNCHANGED <<search, stored, reads, list, failure, paging, asked, dialog, dropped>>
    /\ Commit(cards, calls)

-----------------------------------------------------------------------------
(* A card: what is chosen on it, and the request it makes.                 *)

Call(op, a, name, held) ==
    [op |-> op, id |-> a, name |-> name, held |-> held, with |-> Closure,
     mounted |-> TRUE, reply |-> Waiting]

Asks(a, op, name, held, card) ==
    /\ a \in Mounted
    /\ Commit([cards EXCEPT ![a] = card], calls \cup {Call(op, a, name, held)})
    /\ UNCHANGED <<token, search, stored, reads, list, failure, paging, asked, dialog, dropped>>

Shown(a) == IF cards[a].name # Null THEN cards[a].name ELSE NameOn(list, a)

commitRename(a, next) ==
    /\ a \in Mounted /\ cards[a].stage = "idle"
    /\ next # Shown(a)
    /\ UNCHANGED <<list, token>>
    /\ Asks(a, "rename", next, cards[a].name, [cards[a] EXCEPT !.name = next])

duplicate(a) ==
    /\ cards[a].stage = "idle"
    /\ UNCHANGED <<list, token>>
    /\ Asks(a, "duplicate", "", Null, cards[a])

beginDelete(a) ==
    /\ cards[a].stage = "idle"
    /\ UNCHANGED <<list, token>>
    /\ Asks(a, "delete", "", Null, [cards[a] EXCEPT !.stage = "pending"])

undoDelete(a) ==
    /\ cards[a].stage = "staged" /\ ~cards[a].restoring
    /\ UNCHANGED <<list, token>>
    /\ Asks(a, "restore", "", Null, [cards[a] EXCEPT !.restoring = TRUE])

(* What the page does when a card has told it something.                   *)
Without(rows, a) ==
    [rows EXCEPT !.items = {row \in @ : row.id # a},
                 !.total = minusOne(@), !.loaded = IF @ = 0 THEN 0 ELSE @ - 1]

Renamed(rows, a, name) ==
    [rows EXCEPT !.items = {IF row.id = a THEN [row EXCEPT !.name = name] ELSE row : row \in @}]

(* The eight seconds are up: the deletion is final, and the page is told.  *)
undoWindowCloses(a) ==
    /\ a \in Mounted /\ cards[a].stage = "staged"
    /\ list' = Without(list, a)
    /\ reads' = Refreshed(Closure)
    /\ dropped' = dropped \cup ({a} \cap {b \in Agent : ~stored[b].live})
    /\ UNCHANGED <<token, search, stored, failure, paging, asked, dialog, acts>>
    /\ Commit([cards EXCEPT ![a].stage = "gone"], calls)

(* The API's side of a call, which may be lost on the way back.            *)
Free == {a \in Agent : ~stored[a].made}
Live(name) == [live |-> TRUE, made |-> TRUE, name |-> name]

Served(c) ==
    CASE c.op = "rename" -> IF stored[c.id].live THEN [stored EXCEPT ![c.id].name = c.name] ELSE stored
      [] c.op = "delete" -> [stored EXCEPT ![c.id].live = FALSE]
      [] c.op = "restore" -> [stored EXCEPT ![c.id].live = TRUE]
      [] c.op = "duplicate" /\ stored[c.id].live /\ Free # {} ->
             [stored EXCEPT ![CHOOSE a \in Free : \A b \in Free : a <= b] = Live(stored[c.id].name)]
      [] c.op = "create" /\ Free # {} ->
             [stored EXCEPT ![CHOOSE a \in Free : \A b \in Free : a <= b] = Live(c.name)]
      [] OTHER -> stored

Accepts(c) == Served(c) # stored \/ c.op = "restore"

ApiServes(c) ==
    /\ c.reply = Waiting
    /\ \/ /\ Accepts(c)
          /\ stored' = Served(c)
          /\ dropped' = {a \in dropped : ~stored'[a].live}
          /\ \E reply \in {[is |-> "ok", name |-> IF c.id = 0 THEN c.name ELSE stored'[c.id].name],
                           Refused} :
                 calls' = (calls \ {c}) \cup {[c EXCEPT !.reply = reply]}
       \/ /\ calls' = (calls \ {c}) \cup {[c EXCEPT !.reply = Refused]}
          /\ UNCHANGED <<stored, dropped>>
    /\ UNCHANGED <<token, search, reads, list, failure, paging, asked, cards, dialog, acts>>

(* The answer: the card, if it is still there, then the page by the        *)
(* callback it was given when the request was made.                        *)
CardAfter(c) ==
    LET card == cards[c.id] ok == c.reply # Refused IN
    CASE c.op = "rename" -> [card EXCEPT !.name = IF ok THEN c.reply.name ELSE c.held]
      [] c.op = "delete" -> [card EXCEPT !.stage = IF ok THEN "staged" ELSE "idle"]
      [] c.op = "restore" -> [card EXCEPT !.stage = "idle", !.restoring = FALSE]
      [] OTHER -> card

ListAfter(c) ==
    IF list = Null \/ c.reply = Refused \/ c.op = "delete" THEN list
    ELSE IF c.op \in {"rename", "restore"} THEN Renamed(list, c.id, c.reply.name)
    ELSE [list EXCEPT !.total = plusOne(@)]

CallAnswered(c) ==
    /\ c.reply # Waiting
    /\ list' = ListAfter(c)
    /\ reads' = IF c.reply = Refused \/ c.op = "delete" THEN reads ELSE Refreshed(c.with)
    /\ dialog' = IF c.op # "create" THEN dialog
                 ELSE IF c.reply # Refused THEN "closed"
                 ELSE IF dialog = "busy" THEN "open" ELSE dialog
    /\ UNCHANGED <<token, search, stored, failure, paging, asked, dropped, acts>>
    /\ Commit(IF c.id # 0 /\ c.mounted THEN [cards EXCEPT ![c.id] = CardAfter(c)] ELSE cards,
              calls \ {c})

-----------------------------------------------------------------------------
(* The dialog.  Escape closes it while it waits, and opening it again      *)
(* forgets that it was waiting.                                            *)

DialogOpens == dialog = "closed" /\ token # Null /\ dialog' = "open" /\ UNCHANGED calls

DialogCloses == dialog # "closed" /\ dialog' = "closed" /\ UNCHANGED calls

create(name) ==
    /\ dialog # "closed"
    /\ dialog' = "busy"
    /\ calls' = calls \cup {Call("create", 0, name, Null)}

InTheDialog ==
    /\ DialogOpens \/ DialogCloses \/ \E name \in Names : create(name)
    /\ UNCHANGED <<token, search, stored, reads, list, failure, paging, asked, cards, dropped>>

-----------------------------------------------------------------------------
OnTheCards ==
    \E a \in Mounted :
        \/ \E name \in Names : commitRename(a, name)
        \/ duplicate(a)
        \/ beginDelete(a)
        \/ undoDelete(a)

Person ==
    /\ ~ListDue
    /\ acts < MaxActs /\ acts' = acts + 1
    /\ \/ loadMore \/ Retry \/ TokenChanges
       \/ \E q \in Query : Searches(q)
       \/ OnTheCards \/ InTheDialog

(* The effect of a commit runs before anything else happens.               *)
Machine ==
    \/ ListEffect
    \/ /\ ~ListDue
       /\ \/ \E r \in reads : ApiReads(r) \/ ListAnswered(r)
          \/ \E c \in calls : ApiServes(c) \/ CallAnswered(c)
          \/ \E a \in Mounted : undoWindowCloses(a)

Init ==
    /\ token \in Token /\ search = ""
    /\ \E n \in 0..MaxAgents, name \in Names \cap Query :
           stored = [a \in Agent |-> IF a <= n THEN Live(name) ELSE Unmade]
    /\ reads = {} /\ calls = {}
    /\ list = Null /\ failure = FALSE /\ paging = FALSE
    /\ asked = Null
    /\ cards = [a \in Agent |-> NewCard]
    /\ dialog = "closed"
    /\ dropped = {} /\ acts = 0

Next == Person \/ Machine

Spec == Init /\ [][Next]_yourAgentsVars

FairSpec == Spec /\ WF_yourAgentsVars(Machine)

-----------------------------------------------------------------------------
(* An agent whose deletion was final never comes back on the page: no      *)
(* reading that began before is taken (page.tsx:475, AgentCard.tsx:508).   *)
GoneStaysGone == dropped \cap Mounted = {}

(* Whatever waits is answered: the page always leaves its skeletons, Load  *)
(* more its wait, and a card that left its row for a deletion or an undo   *)
(* comes back or goes (page.tsx:502, :663, AgentCard.tsx:508).             *)
EveryWaitEnds ==
    /\ Screen = "skeletons" ~> Screen # "skeletons"
    /\ paging ~> ~paging
    /\ \A a \in Agent : cards[a].stage # "idle" ~> cards[a].stage = "idle"
=============================================================================
