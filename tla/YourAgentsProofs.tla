--------------------------- MODULE YourAgentsProofs ---------------------------
(***************************************************************************)
(* The list of agents, for any tokens, names, searches, number of agents,  *)
(* size of a page and number of acts, and whether or not the API's count   *)
(* reaches the browser.                                                    *)
(***************************************************************************)
EXTENDS YourAgents, FiniteSetTheorems, TLAPS

Word == Names \cup {"", Null}

Count == Nat \cup {Null}

Row == [id : Agent, name : Word]

Pages == [is : {"rows"}, items : {rows \in SUBSET Row : IsFiniteSet(rows)}, total : Count]

Lists == [items : SUBSET Row, total : Count, loaded : Nat, more : BOOLEAN]

Readings ==
    [kind : {"first", "again", "page"}, token : Token \cup {Null}, search : Query,
     offset : Nat, limit : Nat, current : BOOLEAN, reply : {Waiting, Refused} \cup Pages]

Closures == [token : Token \cup {Null}, search : Query, loaded : Nat]

Operations == {"rename", "duplicate", "delete", "restore", "create"}

Requests ==
    [op : Operations, id : Agent \cup {0}, name : Word, held : Word, with : Closures,
     mounted : BOOLEAN, reply : {Waiting, Refused} \cup [is : {"ok"}, name : Word]]

Calls == {c \in Requests : c.op # "create" => c.id \in Agent}

Cards == [stage : {"idle", "pending", "staged", "gone"}, name : Word, restoring : BOOLEAN]

AgentStates == [live : BOOLEAN, made : BOOLEAN, name : Word]

(* The variables and their values. *)
ShapesOf(tok, sea, sto, red, cal, lis, car) ==
    /\ tok \in Token \cup {Null} /\ sea \in Query
    /\ sto \in [Agent -> AgentStates]
    /\ red \subseteq Readings /\ cal \subseteq Calls
    /\ lis \in Lists \cup {Null}
    /\ car \in [Agent -> Cards]

Shapes == ShapesOf(token, search, stored, reads, calls, list, cards)

(* No row of an agent that is gone. *)
Clear(rows) == \A row \in rows : row.id \notin dropped

(* What is called gone is not with the API, nor on the page, *)
GoneIsDeleted == \A a \in dropped : a \in Agent /\ ~stored[a].live

ListIsClear == list # Null => Clear(list.items)

(* nor in an answer the page would still take. *)
Wanted(r) == r.current /\ r.reply \notin {Waiting, Refused}

AnswersAreClear == \A r \in reads : Wanted(r) => Clear(r.reply.items)

(* The inductive invariant. *)
ListInv == Shapes /\ GoneIsDeleted /\ ListIsClear /\ AnswersAreClear

-----------------------------------------------------------------------------
(* Operators.                                                              *)

LEMMA Words == Names \subseteq Word /\ "" \in Word /\ Null \in Word
  BY Zenon DEF Word

LEMMA Bounds == PageSize \in Nat /\ MostRows \in Nat /\ MaxAgents \in Nat
  <1>1. PageSize \in Nat \ {0} /\ MostRows \in Nat /\ MaxAgents \in Nat
    BY Zenon, YourAgentsAssumption DEF YourAgentsAssumption
  <1> QED  BY <1>1

LEMMA AgentsAreFinite ==
  ASSUME NEW S \in SUBSET Agent
  PROVE  IsFiniteSet(S) /\ Cardinality(S) \in Nat
  <1>1. IsFiniteSet(1..MaxAgents)
    BY Bounds, FS_Interval
  <1>2. IsFiniteSet(S)
    BY <1>1, FS_Subset DEF Agent
  <1> QED  BY <1>2, FS_CardinalityType

LEMMA CardsAtRest == NewCard \in Cards
  BY Words DEF NewCard, Cards

(* What the API reads is finitely many rows of agents that it has. *)
LEMMA RowsAreAlive ==
  ASSUME stored \in [Agent -> AgentStates], NEW q, NEW offset, NEW limit
  PROVE  /\ Rows(q, offset, limit) \in {rows \in SUBSET Row : IsFiniteSet(rows)}
         /\ \A row \in Rows(q, offset, limit) : stored[row.id].live
  <1> DEFINE At == {b \in Matching(q) :
                      Cardinality({c \in Matching(q) : c > b}) \in offset..(offset + limit - 1)}
  <1>1. At \subseteq Agent /\ \A a \in At : stored[a].live
    BY Zenon DEF Matching
  <1>2. IsFiniteSet(At)
    BY <1>1, AgentsAreFinite
  <1>3. Rows(q, offset, limit) = {[id |-> a, name |-> stored[a].name] : a \in At}
    BY DEF Rows
  <1> HIDE DEF At
  <1>4. IsFiniteSet(Rows(q, offset, limit))
    <2> DEFINE RowOf == [a \in At |-> [id |-> a, name |-> stored[a].name]]
    <2>1. RowOf \in Surjection(At, Rows(q, offset, limit))
      BY <1>3 DEF Surjection
    <2> QED  BY <1>2, <2>1, FS_Surjection
  <1>5. Rows(q, offset, limit) \subseteq Row
    BY <1>1, <1>3 DEF Row, AgentStates
  <1>6. \A row \in Rows(q, offset, limit) : stored[row.id].live
    BY <1>1, <1>3
  <1> QED  BY <1>4, <1>5, <1>6

LEMMA PagesAreAlive ==
  ASSUME stored \in [Agent -> AgentStates], NEW q, NEW offset, NEW limit
  PROVE  /\ Page(q, offset, limit) \in Pages
         /\ \A row \in Page(q, offset, limit).items : stored[row.id].live
  <1>1. Matching(q) \subseteq Agent
    BY DEF Matching
  <1>2. Cardinality(Matching(q)) \in Nat
    BY <1>1, AgentsAreFinite
  <1> QED  BY <1>2, RowsAreAlive DEF Page, Pages, Count

(* What a card and a call become when the page is drawn again. *)
LEMMA CommitShapes ==
  ASSUME NEW nextCards \in [Agent -> Cards], NEW nextCalls \in SUBSET Calls,
         Commit(nextCards, nextCalls)
  PROVE  cards' \in [Agent -> Cards] /\ calls' \subseteq Calls
  <1>1. cards' \in [Agent -> Cards]
    BY CardsAtRest, Words DEF Commit, Cards
  <1> DEFINE stays == Mounted \cap Drawn(list', token')
             still(c) == c.mounted /\ (c.id = 0 \/ c.id \in stays)
  <1>2. \A c \in Calls : [c EXCEPT !.mounted = still(c)] \in Calls
    <2> SUFFICES ASSUME NEW c \in Calls
                 PROVE  [c EXCEPT !.mounted = still(c)] \in Calls
      OBVIOUS
    <2>1. still(c) \in BOOLEAN
      BY DEF Calls, Requests
    <2> HIDE DEF still
    <2> QED  BY <2>1 DEF Calls, Requests
  <1>3. calls' = {[c EXCEPT !.mounted = still(c)] : c \in nextCalls}
    BY Zenon DEF Commit
  <1> HIDE DEF still
  <1>4. calls' \subseteq Calls
    BY <1>2, <1>3
  <1> QED  BY <1>1, <1>4

LEMMA ClosureShape ==
  ASSUME Shapes
  PROVE  Closure \in Closures
  BY DEF Shapes, ShapesOf, Closure, Closures, Lists

LEMMA RequestShape ==
  ASSUME NEW kind \in {"first", "again", "page"}, NEW with \in Closures,
         NEW offset \in Nat, NEW limit \in Nat
  PROVE  /\ Request(kind, with, offset, limit) \in Readings
         /\ ~Wanted(Request(kind, with, offset, limit))
  BY DEF Request, Readings, Closures, Wanted

LEMMA CallShape ==
  ASSUME Shapes, NEW op \in Operations, NEW a \in Agent \cup {0}, NEW name \in Word,
         NEW held \in Word, op # "create" => a \in Agent
  PROVE  Call(op, a, name, held) \in Calls
  BY ClosureShape DEF Call, Calls, Requests

LEMMA RetiredShape ==
  ASSUME reads \subseteq Readings
  PROVE  Retired \subseteq Readings /\ \A r \in Retired : ~Wanted(r)
  BY DEF Retired, Readings, Wanted

(* Reading again what is on screen takes back every reading before it. *)
LEMMA RefreshedShape ==
  ASSUME reads \subseteq Readings, NEW with \in Closures
  PROVE  /\ Refreshed(with) \subseteq Readings
         /\ \A r \in Refreshed(with) : Wanted(r) => r \in reads
         /\ with.token # Null => \A r \in Refreshed(with) : ~Wanted(r)
  <1>1. Reread(with.loaded) \in Nat
    BY Bounds DEF Closures, Reread
  <1>2. \A limit \in Nat : /\ Request("again", with, 0, limit) \in Readings
                           /\ ~Wanted(Request("again", with, 0, limit))
    BY RequestShape
  <1> QED  BY <1>1, <1>2, RetiredShape DEF Refreshed

(* A name written on a row, and a row taken out, leave the others. *)
LEMMA RenamedShape ==
  ASSUME NEW rows \in Lists, NEW a, NEW name \in Word
  PROVE  /\ Renamed(rows, a, name) \in Lists
         /\ Clear(rows.items) => Clear(Renamed(rows, a, name).items)
  <1> DEFINE new(row) == IF row.id = a THEN [row EXCEPT !.name = name] ELSE row
  <1>1. \A row \in rows.items : new(row) \in Row /\ new(row).id = row.id
    BY DEF Lists, Row
  <1>2. Renamed(rows, a, name) = [rows EXCEPT !.items = {new(row) : row \in rows.items}]
    BY DEF Renamed
  <1> HIDE DEF new
  <1>3. Renamed(rows, a, name) \in Lists
    BY <1>1, <1>2 DEF Lists
  <1>4. Renamed(rows, a, name).items = {new(row) : row \in rows.items}
    BY <1>2 DEF Lists
  <1> QED  BY <1>1, <1>3, <1>4 DEF Clear

LEMMA WithoutShape ==
  ASSUME NEW rows \in Lists, NEW a
  PROVE  /\ Without(rows, a) \in Lists
         /\ \A row \in Without(rows, a).items : row \in rows.items /\ row.id # a
  <1>1. minusOne(rows.total) \in Count
    BY DEF Lists, minusOne, Count
  <1>2. (IF rows.loaded = 0 THEN 0 ELSE rows.loaded - 1) \in Nat
    BY DEF Lists
  <1> DEFINE kept == {row \in rows.items : row.id # a}
             less == minusOne(rows.total)
             fewer == IF rows.loaded = 0 THEN 0 ELSE rows.loaded - 1
  <1>3. kept \in SUBSET Row /\ \A row \in kept : row \in rows.items /\ row.id # a
    BY DEF Lists
  <1>4. Without(rows, a) = [rows EXCEPT !.items = kept, !.total = less, !.loaded = fewer]
    BY DEF Without
  <1> HIDE DEF kept, less, fewer
  <1>5. [rows EXCEPT !.items = kept, !.total = less, !.loaded = fewer] \in Lists
    BY <1>1, <1>2, <1>3 DEF Lists, less, fewer
  <1>6. [rows EXCEPT !.items = kept, !.total = less, !.loaded = fewer].items = kept
    BY DEF Lists
  <1> QED  BY <1>3, <1>4, <1>5, <1>6

-----------------------------------------------------------------------------
(* The person.                                                             *)

LEMMA ListInit ==
  ASSUME Init
  PROVE  ListInv
  <1>1. search \in Query
    BY Zenon, YourAgentsAssumption DEF Init, YourAgentsAssumption
  <1>2. Unmade \in AgentStates
    BY Words DEF Unmade, AgentStates
  <1>3. stored \in [Agent -> AgentStates]
    <2>1. PICK n \in 0..MaxAgents, name \in Names \cap Query :
              stored = [a \in Agent |-> IF a <= n THEN Live(name) ELSE Unmade]
      BY Zenon DEF Init
    <2>2. Live(name) \in AgentStates
      BY Words DEF Live, AgentStates
    <2> QED  BY <1>2, <2>1, <2>2
  <1>4. cards \in [Agent -> Cards]
    BY CardsAtRest DEF Init
  <1>5. token \in Token /\ reads = {} /\ calls = {} /\ list = Null /\ dropped = {}
    BY Zenon DEF Init
  <1>6. Shapes
    BY <1>1, <1>3, <1>4, <1>5 DEF Shapes, ShapesOf
  <1> QED  BY <1>5, <1>6 DEF ListInv, GoneIsDeleted, ListIsClear, AnswersAreClear

LEMMA KeptByLoadMore ==
  ASSUME ListInv, loadMore
  PROVE  ListInv'
  <1> DEFINE more == Request("page", Closure, list.loaded, PageSize)
  <1>1. list.loaded \in Nat
    BY DEF ListInv, Shapes, ShapesOf, loadMore, Lists
  <1>2. more \in Readings /\ ~Wanted(more)
    BY <1>1, ClosureShape, RequestShape, Bounds DEF ListInv
  <1>3. reads' = reads \cup {more}
    BY DEF loadMore
  <1> HIDE DEF more
  <1>4. UNCHANGED <<token, search, stored, calls, list, cards, dropped>>
    BY DEF loadMore
  <1>5. Shapes'
    BY <1>2, <1>3, <1>4 DEF ListInv, Shapes, ShapesOf
  <1>6. AnswersAreClear'
    BY <1>2, <1>3, <1>4 DEF ListInv, AnswersAreClear, Wanted, Clear
  <1> QED  BY <1>4, <1>5, <1>6 DEF ListInv, GoneIsDeleted, ListIsClear, Clear

LEMMA KeptByRetry ==
  ASSUME ListInv, Retry
  PROVE  ListInv'
  <1>1. UNCHANGED <<token, search, stored, reads, calls, list, cards, dropped>>
    BY DEF Retry
  <1> QED  BY <1>1 DEF ListInv, Shapes, ShapesOf, GoneIsDeleted, ListIsClear, AnswersAreClear,
              Wanted, Clear

LEMMA KeptBySearches ==
  ASSUME ListInv, NEW q \in Query, Searches(q)
  PROVE  ListInv'
  <1>1. search' \in Query /\ UNCHANGED <<token, stored, reads, calls, list, cards, dropped>>
    BY DEF Searches
  <1> QED  BY <1>1 DEF ListInv, Shapes, ShapesOf, GoneIsDeleted, ListIsClear, AnswersAreClear,
              Wanted, Clear

LEMMA KeptByTokenChanges ==
  ASSUME ListInv, TokenChanges
  PROVE  ListInv'
  <1>1. /\ token' \in Token \cup {Null}
        /\ UNCHANGED <<search, stored, reads, list, dropped>>
        /\ Commit(cards, calls)
    BY DEF TokenChanges
  <1>2. cards' \in [Agent -> Cards] /\ calls' \subseteq Calls
    BY <1>1, CommitShapes DEF ListInv, Shapes, ShapesOf
  <1> QED  BY <1>1, <1>2 DEF ListInv, Shapes, ShapesOf, GoneIsDeleted, ListIsClear,
              AnswersAreClear, Wanted, Clear

(* Whatever a card asks, it asks the API: the page is as it was.           *)
LEMMA KeptByAsks ==
  ASSUME ListInv, NEW a \in Agent, NEW op \in Operations, NEW name \in Word, NEW held \in Word,
         NEW card \in Cards, Asks(a, op, name, held, card)
  PROVE  ListInv'
  <1>1. Call(op, a, name, held) \in Calls
    BY CallShape DEF ListInv
  <1>2. [cards EXCEPT ![a] = card] \in [Agent -> Cards]
    BY DEF ListInv, Shapes, ShapesOf
  <1>3. calls \cup {Call(op, a, name, held)} \in SUBSET Calls
    BY <1>1 DEF ListInv, Shapes, ShapesOf
  <1>4. /\ Commit([cards EXCEPT ![a] = card], calls \cup {Call(op, a, name, held)})
        /\ UNCHANGED <<token, search, stored, reads, list, dropped>>
    BY DEF Asks
  <1>5. cards' \in [Agent -> Cards] /\ calls' \subseteq Calls
    BY <1>2, <1>3, <1>4, CommitShapes
  <1> QED  BY <1>4, <1>5 DEF ListInv, Shapes, ShapesOf, GoneIsDeleted, ListIsClear,
              AnswersAreClear, Wanted, Clear

LEMMA KeptOnTheCards ==
  ASSUME ListInv, OnTheCards
  PROVE  ListInv'
  <1>1. PICK a \in Mounted : \/ \E name \in Names : commitRename(a, name)
                             \/ duplicate(a)
                             \/ beginDelete(a)
                             \/ undoDelete(a)
    BY DEF OnTheCards
  <1>2. a \in Agent
    BY DEF ListInv, Shapes, ShapesOf, Mounted, Drawn, Lists, Row
  <1>3. cards[a] \in Cards
    BY <1>2 DEF ListInv, Shapes, ShapesOf
  <1>4. CASE \E name \in Names : commitRename(a, name)
    <2>1. PICK name \in Names : commitRename(a, name)
      BY <1>4
    <2>2. Asks(a, "rename", name, cards[a].name, [cards[a] EXCEPT !.name = name])
      BY <2>1 DEF commitRename
    <2>3. name \in Word
      BY Words
    <2>4. cards[a].name \in Word /\ [cards[a] EXCEPT !.name = name] \in Cards
      BY <1>3, <2>3 DEF Cards
    <2>5. "rename" \in Operations
      BY DEF Operations
    <2> QED  BY <1>2, <2>2, <2>3, <2>4, <2>5, KeptByAsks
  <1>5. CASE duplicate(a)
    <2>1. Asks(a, "duplicate", "", Null, cards[a])
      BY <1>5, Zenon DEF duplicate
    <2>2. "duplicate" \in Operations
      BY DEF Operations
    <2> QED  BY <1>2, <1>3, <2>1, <2>2, Words, KeptByAsks, Zenon
  <1>6. CASE beginDelete(a)
    <2>1. Asks(a, "delete", "", Null, [cards[a] EXCEPT !.stage = "pending"])
      BY <1>6, Zenon DEF beginDelete
    <2>2. [cards[a] EXCEPT !.stage = "pending"] \in Cards /\ "delete" \in Operations
      BY <1>3 DEF Cards, Operations
    <2> QED  BY <1>2, <2>1, <2>2, Words, KeptByAsks, Zenon
  <1>7. CASE undoDelete(a)
    <2>1. Asks(a, "restore", "", Null, [cards[a] EXCEPT !.restoring = TRUE])
      BY <1>7, Zenon DEF undoDelete
    <2>2. [cards[a] EXCEPT !.restoring = TRUE] \in Cards /\ "restore" \in Operations
      BY <1>3 DEF Cards, Operations
    <2> QED  BY <1>2, <2>1, <2>2, Words, KeptByAsks, Zenon
  <1> QED  BY <1>1, <1>4, <1>5, <1>6, <1>7

LEMMA KeptInTheDialog ==
  ASSUME ListInv, InTheDialog
  PROVE  ListInv'
  <1>1. UNCHANGED <<token, search, stored, reads, list, cards, dropped>>
    BY DEF InTheDialog
  <1>2. calls' \subseteq Calls
    <2>1. CASE UNCHANGED calls
      BY <2>1 DEF ListInv, Shapes, ShapesOf
    <2>2. CASE \E name \in Names : create(name)
      <3>1. PICK name \in Names : calls' = calls \cup {Call("create", 0, name, Null)}
        BY <2>2 DEF create
      <3>2. "create" \in Operations /\ name \in Word /\ Null \in Word
        BY Words DEF Operations
      <3>3. Call("create", 0, name, Null) \in Calls
        BY <3>2, CallShape DEF ListInv
      <3> QED  BY <3>1, <3>3 DEF ListInv, Shapes, ShapesOf
    <2> QED  BY <2>1, <2>2 DEF InTheDialog, DialogOpens, DialogCloses
  <1> QED  BY <1>1, <1>2 DEF ListInv, Shapes, ShapesOf, GoneIsDeleted, ListIsClear,
              AnswersAreClear, Wanted, Clear

-----------------------------------------------------------------------------
(* The page and the API.                                                   *)

(* The effect takes back what was asked for before, or at least its first  *)
(* page, and starts from an empty list.                                    *)
LEMMA KeptByListEffect ==
  ASSUME ListInv, ListEffect
  PROVE  ListInv'
  <1> DEFINE first == Request("first", Closure, 0, PageSize)
             without == {[r EXCEPT !.current = @ /\ r.kind # "first"] : r \in reads}
  <1>1. /\ list' = Null /\ UNCHANGED <<token, search, stored, dropped>>
        /\ Commit(cards, calls)
        /\ reads' = without \/ reads' = Retired \cup {first}
    BY DEF ListEffect
  <1>2. first \in Readings /\ ~Wanted(first)
    BY ClosureShape, RequestShape, Bounds DEF ListInv
  <1>3. cards' \in [Agent -> Cards] /\ calls' \subseteq Calls
    BY <1>1, CommitShapes DEF ListInv, Shapes, ShapesOf
  <1>4. \A s \in without : s \in Readings /\ (Wanted(s) => Clear(s.reply.items))
    <2> SUFFICES ASSUME NEW r \in reads, NEW s, s = [r EXCEPT !.current = @ /\ r.kind # "first"]
                 PROVE  s \in Readings /\ (Wanted(s) => Clear(s.reply.items))
      OBVIOUS
    <2>1. s \in Readings /\ s.reply = r.reply /\ (s.current => r.current)
      BY DEF ListInv, Shapes, ShapesOf, Readings
    <2> QED  BY <2>1 DEF ListInv, AnswersAreClear, Wanted
  <1>5. without \subseteq Readings /\ \A s \in without : Wanted(s) => Clear(s.reply.items)
    BY <1>4
  <1>6. /\ Retired \cup {first} \subseteq Readings
        /\ \A r \in Retired \cup {first} : ~Wanted(r)
    BY <1>2, RetiredShape DEF ListInv, Shapes, ShapesOf
  <1> HIDE DEF without, first
  <1>7. reads' \subseteq Readings /\ \A r \in reads' : Wanted(r) => Clear(r.reply.items)
    BY <1>1, <1>5, <1>6
  <1> QED  BY <1>1, <1>3, <1>7 DEF ListInv, Shapes, ShapesOf, GoneIsDeleted, ListIsClear,
              AnswersAreClear, Wanted, Clear

(* What is read now is with the API, so it is nothing that is gone.        *)
LEMMA KeptByApiReads ==
  ASSUME ListInv, NEW r \in reads, ApiReads(r)
  PROVE  ListInv'
  <1>1. UNCHANGED <<token, search, stored, calls, list, cards, dropped>>
    BY DEF ApiReads
  <1>2. r \in Readings
    BY DEF ListInv, Shapes, ShapesOf
  <1>3. PICK reply \in {Page(r.search, r.offset, r.limit), Refused} :
            reads' = (reads \ {r}) \cup {[r EXCEPT !.reply = reply]}
    BY DEF ApiReads
  <1>4. /\ reply \in {Waiting, Refused} \cup Pages
        /\ reply # Refused => \A row \in reply.items : stored[row.id].live
    BY <1>3, PagesAreAlive DEF ListInv, Shapes, ShapesOf
  <1>5. /\ [r EXCEPT !.reply = reply] \in Readings
        /\ [r EXCEPT !.reply = reply].reply = reply
    BY <1>2, <1>4 DEF Readings
  <1>6. reply # Refused => Clear(reply.items)
    BY <1>4 DEF ListInv, GoneIsDeleted, Clear
  <1>7. \A s \in reads' : Wanted(s) => Clear(s.reply.items)
    BY <1>3, <1>5, <1>6 DEF ListInv, AnswersAreClear, Wanted
  <1>8. Shapes'
    BY <1>1, <1>3, <1>5 DEF ListInv, Shapes, ShapesOf
  <1> QED  BY <1>1, <1>7, <1>8 DEF ListInv, GoneIsDeleted, ListIsClear, AnswersAreClear,
              Wanted, Clear

LEMMA ListOfShape ==
  ASSUME ListInv, NEW r \in reads, Wanted(r)
  PROVE  /\ ListOf(r) \in Lists \cup {Null}
         /\ ListOf(r) # Null => Clear(ListOf(r).items)
  <1> DEFINE rows == r.reply.items
             length == Cardinality(rows)
             total == r.reply.total
  <1>1. r \in Readings /\ r.reply \in Pages
    BY DEF ListInv, Shapes, ShapesOf, Wanted, Readings
  <1>2. /\ rows \in SUBSET Row /\ length \in Nat /\ total \in Count /\ r.limit \in Nat
        /\ PageSize \in Nat
    BY <1>1, FS_CardinalityType, Bounds DEF Pages, Readings
  <1>3. Clear(rows)
    BY DEF ListInv, AnswersAreClear
  <1>4. \A loaded, asking \in Nat : hasMore(total, loaded, length, asking) \in BOOLEAN
    <2>1. CASE total # Null
      <3>1. total \in Nat
        BY <1>2, <2>1 DEF Count
      <3> QED  BY <2>1, <3>1 DEF hasMore
    <2>2. CASE total = Null
      BY <1>2, <2>2 DEF hasMore
    <2> QED  BY <2>1, <2>2
  <1> HIDE DEF rows, length, total
  <1>5. CASE r.kind # "page"
    <2>1. ListOf(r) = [items |-> rows, total |-> total, loaded |-> length,
                       more |-> hasMore(total, length, length, r.limit)]
      BY <1>5 DEF ListOf, rows, length, total
    <2> QED  BY <1>2, <1>3, <1>4, <2>1 DEF Lists
  <1>6. CASE r.kind = "page" /\ list = Null
    BY <1>6 DEF ListOf
  <1>7. CASE r.kind = "page" /\ list # Null
    <2>1. list \in Lists /\ Clear(list.items)
      BY <1>7 DEF ListInv, Shapes, ShapesOf, ListIsClear
    <2>2. ListOf(r) = [items |-> list.items \cup rows, total |-> total,
                       loaded |-> list.loaded + length,
                       more |-> hasMore(total, list.loaded + length, length, PageSize)]
      BY <1>7 DEF ListOf, rows, length, total
    <2>3. list.items \in SUBSET Row /\ list.loaded + length \in Nat
      BY <1>2, <2>1 DEF Lists
    <2>4. hasMore(total, list.loaded + length, length, PageSize) \in BOOLEAN
      BY <1>2, <1>4, <2>3
    <2>5. Clear(list.items \cup rows)
      BY <1>3, <2>1 DEF Clear
    <2> QED  BY <1>2, <2>2, <2>3, <2>4, <2>5 DEF Lists
  <1> QED  BY <1>5, <1>6, <1>7

LEMMA KeptByListAnswered ==
  ASSUME ListInv, NEW r \in reads, ListAnswered(r)
  PROVE  ListInv'
  <1>1. /\ reads' = reads \ {r} /\ r.reply # Waiting
        /\ UNCHANGED <<token, search, stored, dropped>>
        /\ Commit(cards, calls)
    BY DEF ListAnswered
  <1>2. list' = list \/ (Wanted(r) /\ list' = ListOf(r))
    BY DEF ListAnswered, Wanted, ListInv, Shapes, ShapesOf, Readings
  <1>3. list' \in Lists \cup {Null} /\ (list' # Null => Clear(list'.items))
    BY <1>2, ListOfShape DEF ListInv, Shapes, ShapesOf, ListIsClear
  <1>4. cards' \in [Agent -> Cards] /\ calls' \subseteq Calls
    BY <1>1, CommitShapes DEF ListInv, Shapes, ShapesOf
  <1> QED  BY <1>1, <1>3, <1>4 DEF ListInv, Shapes, ShapesOf, GoneIsDeleted, ListIsClear,
              AnswersAreClear, Wanted, Clear

(* The page takes the row of what is gone off, and takes back every        *)
(* reading that may have seen it.                                          *)
LEMMA KeptByUndoWindowCloses ==
  ASSUME ListInv, NEW a \in Mounted, undoWindowCloses(a)
  PROVE  ListInv'
  <1>1. token # Null /\ list # Null /\ list \in Lists /\ a \in Agent
    BY DEF ListInv, Shapes, ShapesOf, Mounted, Drawn, Lists, Row
  <1>2. /\ list' = Without(list, a) /\ reads' = Refreshed(Closure)
        /\ dropped' = dropped \cup ({a} \cap {b \in Agent : ~stored[b].live})
        /\ UNCHANGED <<token, search, stored>>
        /\ Commit([cards EXCEPT ![a].stage = "gone"], calls)
    BY DEF undoWindowCloses
  <1>3. [cards EXCEPT ![a].stage = "gone"] \in [Agent -> Cards]
    BY <1>1 DEF ListInv, Shapes, ShapesOf, Cards
  <1>4. cards' \in [Agent -> Cards] /\ calls' \subseteq Calls
    BY <1>2, <1>3, CommitShapes DEF ListInv, Shapes, ShapesOf
  <1>5. Closure \in Closures /\ Closure.token # Null
    BY <1>1, ClosureShape DEF ListInv, Closure
  <1>6. reads' \subseteq Readings /\ \A r \in reads' : ~Wanted(r)
    BY <1>2, <1>5, RefreshedShape DEF ListInv, Shapes, ShapesOf
  <1>7. list' \in Lists /\ \A row \in list'.items : row.id \notin dropped'
    BY <1>1, <1>2, WithoutShape DEF ListInv, ListIsClear, Clear
  <1>8. GoneIsDeleted'
    BY <1>2 DEF ListInv, GoneIsDeleted
  <1> QED  BY <1>2, <1>4, <1>6, <1>7, <1>8 DEF ListInv, Shapes, ShapesOf, ListIsClear,
              AnswersAreClear, Wanted, Clear

-----------------------------------------------------------------------------
(* The requests of the cards.                                              *)

LEMMA ServedShape ==
  ASSUME ListInv, NEW c \in calls
  PROVE  Served(c) \in [Agent -> AgentStates]
  <1>1. c \in Calls /\ c.name \in Word
    BY DEF ListInv, Shapes, ShapesOf, Calls, Requests
  <1>2. stored \in [Agent -> AgentStates]
    BY DEF ListInv, Shapes, ShapesOf
  <1>3. \A a \in Agent : stored[a].name \in Word
    BY <1>2 DEF AgentStates
  <1>4. \A name \in Word : Live(name) \in AgentStates
    BY DEF Live, AgentStates
  <1>5. \A a : \A name \in Word : [stored EXCEPT ![a].name = name] \in [Agent -> AgentStates]
    BY <1>2 DEF AgentStates
  <1>6. \A a : \A live \in BOOLEAN : [stored EXCEPT ![a].live = live] \in [Agent -> AgentStates]
    BY <1>2 DEF AgentStates
  <1>7. \A a : \A name \in Word : [stored EXCEPT ![a] = Live(name)] \in [Agent -> AgentStates]
    BY <1>2, <1>4
  <1>8. c.op = "duplicate" => stored[c.id].name \in Word
    BY <1>1, <1>3 DEF Calls
  <1> QED  BY <1>1, <1>2, <1>5, <1>6, <1>7, <1>8 DEF Served

LEMMA KeptByApiServes ==
  ASSUME ListInv, NEW c \in calls, ApiServes(c)
  PROVE  ListInv'
  <1>1. UNCHANGED <<token, search, reads, list, cards>>
    BY DEF ApiServes
  <1>2. c \in Calls /\ c.name \in Word
    BY DEF ListInv, Shapes, ShapesOf, Calls, Requests
  <1>3. \A reply \in {Waiting, Refused} \cup [is : {"ok"}, name : Word] :
            [c EXCEPT !.reply = reply] \in Calls
    BY <1>2 DEF Calls, Requests
  <1>4. CASE /\ stored' = Served(c)
             /\ dropped' = {a \in dropped : ~stored'[a].live}
             /\ \E reply \in {[is |-> "ok",
                               name |-> IF c.id = 0 THEN c.name ELSE stored'[c.id].name],
                              Refused} :
                    calls' = (calls \ {c}) \cup {[c EXCEPT !.reply = reply]}
    <2> DEFINE name == IF c.id = 0 THEN c.name ELSE stored'[c.id].name
    <2>1. stored' \in [Agent -> AgentStates]
      BY <1>4, ServedShape
    <2>2. name \in Word
      BY <1>2, <2>1 DEF Calls, Requests, AgentStates
    <2>3. PICK reply \in {[is |-> "ok", name |-> name], Refused} :
              calls' = (calls \ {c}) \cup {[c EXCEPT !.reply = reply]}
      BY <1>4
    <2> HIDE DEF name
    <2>4. reply \in {Waiting, Refused} \cup [is : {"ok"}, name : Word]
      BY <2>2, <2>3
    <2>5. calls' \subseteq Calls
      BY <1>3, <2>3, <2>4 DEF ListInv, Shapes, ShapesOf
    <2>6. Shapes'
      BY <1>1, <2>1, <2>5 DEF ListInv, Shapes, ShapesOf
    <2>7. GoneIsDeleted' /\ dropped' \subseteq dropped
      BY <1>4 DEF ListInv, GoneIsDeleted
    <2> QED  BY <1>1, <2>6, <2>7 DEF ListInv, ListIsClear, AnswersAreClear, Wanted, Clear
  <1>5. CASE /\ calls' = (calls \ {c}) \cup {[c EXCEPT !.reply = Refused]}
             /\ UNCHANGED <<stored, dropped>>
    <2>1. calls' \subseteq Calls
      BY <1>3, <1>5 DEF ListInv, Shapes, ShapesOf
    <2> QED  BY <1>1, <1>5, <2>1 DEF ListInv, Shapes, ShapesOf, GoneIsDeleted, ListIsClear,
                AnswersAreClear, Wanted, Clear
  <1> QED  BY <1>4, <1>5 DEF ApiServes

LEMMA CardAfterShape ==
  ASSUME ListInv, NEW c \in calls, c.id # 0, c.reply # Waiting
  PROVE  CardAfter(c) \in Cards
  <1>1. c \in Calls /\ cards[c.id] \in Cards
    BY DEF ListInv, Shapes, ShapesOf, Calls, Requests
  <1>2. c.held \in Word /\ (c.reply # Refused => c.reply.name \in Word)
    BY <1>1 DEF Calls, Requests
  <1>3. /\ \A name \in Word : [cards[c.id] EXCEPT !.name = name] \in Cards
        /\ [cards[c.id] EXCEPT !.stage = "staged"] \in Cards
        /\ [cards[c.id] EXCEPT !.stage = "idle"] \in Cards
        /\ [cards[c.id] EXCEPT !.stage = "idle", !.restoring = FALSE] \in Cards
    BY <1>1 DEF Cards
  <1> QED  BY <1>1, <1>2, <1>3 DEF CardAfter

LEMMA KeptByCallAnswered ==
  ASSUME ListInv, NEW c \in calls, CallAnswered(c)
  PROVE  ListInv'
  <1> DEFINE nextCards == IF c.id # 0 /\ c.mounted THEN [cards EXCEPT ![c.id] = CardAfter(c)]
                          ELSE cards
  <1>1. /\ c.reply # Waiting /\ list' = ListAfter(c)
        /\ reads' = reads \/ reads' = Refreshed(c.with)
        /\ UNCHANGED <<token, search, stored, dropped>>
        /\ Commit(nextCards, calls \ {c})
    BY DEF CallAnswered
  <1>2. c.with \in Closures /\ (c.reply # Refused => c.reply.name \in Word)
    BY <1>1 DEF ListInv, Shapes, ShapesOf, Calls, Requests
  <1>3. nextCards \in [Agent -> Cards]
    BY <1>1, CardAfterShape DEF ListInv, Shapes, ShapesOf
  <1> HIDE DEF nextCards
  <1>4. cards' \in [Agent -> Cards] /\ calls' \subseteq Calls
    BY <1>1, <1>3, CommitShapes DEF ListInv, Shapes, ShapesOf
  <1>5. reads' \subseteq Readings /\ \A r \in reads' : Wanted(r) => r \in reads
    BY <1>1, <1>2, RefreshedShape DEF ListInv, Shapes, ShapesOf
  <1>6. list' \in Lists \cup {Null} /\ (list' # Null => Clear(list'.items))
    <2>1. CASE list = Null \/ c.reply = Refused \/ c.op = "delete"
      BY <1>1, <2>1 DEF ListAfter, ListInv, Shapes, ShapesOf, ListIsClear
    <2>2. CASE ~(list = Null \/ c.reply = Refused \/ c.op = "delete")
      <3>1. list \in Lists /\ Clear(list.items)
        BY <2>2 DEF ListInv, Shapes, ShapesOf, ListIsClear
      <3>2. CASE c.op \in {"rename", "restore"}
        <4>1. list' = Renamed(list, c.id, c.reply.name)
          BY <1>1, <2>2, <3>2 DEF ListAfter
        <4> QED  BY <1>2, <2>2, <3>1, <4>1, RenamedShape
      <3>3. CASE c.op \notin {"rename", "restore"}
        <4>1. list' = [list EXCEPT !.total = plusOne(@)]
          BY <1>1, <2>2, <3>3 DEF ListAfter
        <4>2. plusOne(list.total) \in Count
          BY <3>1 DEF plusOne, Lists, Count
        <4> HIDE DEF plusOne
        <4>3. list' \in Lists /\ list'.items = list.items
          BY <3>1, <4>1, <4>2 DEF Lists
        <4> QED  BY <3>1, <4>3
      <3> QED  BY <3>2, <3>3
    <2> QED  BY <2>1, <2>2
  <1>7. Shapes'
    BY <1>1, <1>4, <1>5, <1>6 DEF ListInv, Shapes, ShapesOf
  <1>8. ListIsClear' /\ AnswersAreClear' /\ GoneIsDeleted'
    BY <1>1, <1>5, <1>6 DEF ListInv, GoneIsDeleted, ListIsClear, AnswersAreClear, Wanted, Clear
  <1> QED  BY <1>7, <1>8 DEF ListInv

-----------------------------------------------------------------------------
LEMMA ListStep == ListInv /\ [Next]_yourAgentsVars => ListInv'
  <1> SUFFICES ASSUME ListInv, [Next]_yourAgentsVars
               PROVE  ListInv'
    OBVIOUS
  <1>1. CASE Person
    BY <1>1, KeptByLoadMore, KeptByRetry, KeptByTokenChanges, KeptBySearches, KeptOnTheCards,
       KeptInTheDialog DEF Person
  <1>2. CASE Machine
    BY <1>2, KeptByListEffect, KeptByApiReads, KeptByListAnswered, KeptByApiServes,
       KeptByCallAnswered, KeptByUndoWindowCloses DEF Machine
  <1>3. CASE UNCHANGED yourAgentsVars
    BY <1>3 DEF yourAgentsVars, ListInv, Shapes, ShapesOf, GoneIsDeleted, ListIsClear,
                AnswersAreClear, Wanted, Clear
  <1> QED  BY <1>1, <1>2, <1>3 DEF Next

(* The page's list is well formed, what it calls gone is deleted, and no   *)
(* list and no answer it would still take has a row of it.                 *)
THEOREM ListIsInductive == Spec => []ListInv
  BY ListInit, ListStep, PTL DEF Spec

(* An agent whose deletion was final never comes back on the page          *)
(* (page.tsx:475, AgentCard.tsx:508), whatever is read, renamed, copied,   *)
(* restored and answered meanwhile.                                        *)
THEOREM GoneStaysGoneAlways == Spec => []GoneStaysGone
  <1>1. ListInv => GoneStaysGone
    BY DEF ListInv, ListIsClear, Clear, GoneStaysGone, Mounted, Drawn
  <1> QED  BY <1>1, ListIsInductive, PTL
=============================================================================
