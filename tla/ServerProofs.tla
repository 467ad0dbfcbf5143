----------------------------- MODULE ServerProofs -----------------------------
(***************************************************************************)
(* Proofs about what the API does for a case, and what stands between it   *)
(* and its provider.                                                       *)
(*                                                                         *)
(* The case file, for any number of requests, applications, stages and     *)
(* answers, and wherever the requests fail: CaseInv is the inductive       *)
(* invariant.                                                              *)
(*                                                                         *)
(* The two guards in front of the provider, for any number of callers and  *)
(* tenants, any bucket, threshold, retry count and reset time: HttpInv of  *)
(* the client and its breaker; the queues, turns, bucket and tokens of the *)
(* governor.                                                               *)
(***************************************************************************)
EXTENDS CaseFile, Governor, SarvamHTTP, FiniteSetTheorems, SequenceTheorems,
        WellFoundedInduction, TLAPS

Ids == Req \X (Nat \ {0})

RunRow == [id : Ids, escalated : BOOLEAN]

TaskRow == [id : Ids, status : {"open", "resolved"}, resolution : Resolution \cup {Null}]

AppRow == [external : External, by : Req \cup {Null}]

LogEntry == [op : {"create", "upload", "appraise", "run", "resolve"},
             about : Ids \cup {Null}, resolution : Resolution \cup {Null}]

Rows == [apps : SUBSET AppRow, docs : SUBSET Req, runs : SUBSET RunRow, tasks : SUBSET TaskRow]

Requests == [op : {"none", "create", "upload", "appraise", "run", "resolve"}, pc : Status,
             x : External \cup {Null}, task : Ids \cup {Null}, stages : Nat,
             made : SUBSET RunRow, rows : Rows, log : Seq(LogEntry)]

IdsOf(rows) == {k.id : k \in rows}

Escalated(runs) == {run \in runs : run.escalated}

(* What a request has made and written, by itself. *)
Whole(t, r) ==
    /\ r \in Requests
    /\ r.pc \in {"idle", "insert", "scanned", "agents", "done", "failed"}
          => r.rows = NoRows /\ r.log = <<>>
    /\ r.pc \in {"idle", "insert", "scanned", "done", "failed"} => r.made = {}
    /\ r.pc = "insert" => r.x \in External /\ r.op = "create"
    /\ r.pc = "scanned" => r.op = "upload"
    /\ r.pc \in {"agents", "persist"} => r.op \in {"appraise", "run"}
    /\ r.pc \in {"tail", "append", "commit"} => r.op # "none"
    /\ IsFiniteSet(r.made) /\ r.rows.runs \subseteq r.made
    /\ \A run \in r.made : run.id[1] = t
    /\ r.made # {} => r.op \in {"appraise", "run"}
    /\ r.pc = "commit" => r.rows.runs = r.made
    /\ r.op = "appraise" /\ r.pc \in {"persist", "tail", "append", "commit"} => Escalated(r.made) # {}
    /\ r.rows.apps \subseteq {[external |-> r.x, by |-> t]}
    /\ r.rows.docs \subseteq {t}
    /\ r.op # "resolve" =>
          /\ IdsOf(r.rows.tasks) = IdsOf(Escalated(r.rows.runs))
          /\ \A k \in r.rows.tasks : k.status = "open" /\ k.resolution = Null
          /\ \A i \in 1..Len(r.log) : r.log[i].op # "resolve"
    /\ r.op = "resolve" =>
          /\ \A k \in r.rows.tasks : /\ k.id = r.task /\ k.status = "resolved"
                                     /\ k.resolution \in Resolution
          /\ r.pc \in {"tail", "append"} => (\E k \in r.rows.tasks : r.rows.tasks = {k}) /\ r.log = <<>>
          /\ r.pc = "commit" =>
                \E k \in r.rows.tasks :
                    /\ r.rows.tasks = {k}
                    /\ r.log = <<[op |-> "resolve", about |-> r.task,
                                  resolution |-> k.resolution]>>

(* What a request has written, seen beside what is committed. *)
Linked(t) ==
    /\ Len(req[t].log) = appended[t]
    /\ req[t].rows.docs \subseteq blobs
    /\ req[t].op = "resolve" => IdsOf(req[t].rows.tasks) \subseteq IdsOf(tasks)
    /\ \A a \in req[t].rows.apps : ~Known(a.external)

RequestInv ==
    /\ req \in [Req -> Requests] /\ appended \in [Req -> Nat]
    /\ \A t \in Req : Whole(t, req[t]) /\ Linked(t)

(* No two requests have written one external id. *)
KeysApart ==
    \A t, u \in Req : \A a \in req[t].rows.apps, b \in req[u].rows.apps :
        a.external = b.external => t = u

(* The calls billed for a request are the runs it made, until it ends.     *)
BillInv ==
    \A id \in billed :
        /\ id \in Ids /\ req[id[1]].pc # "idle"
        /\ req[id[1]].pc \notin {"done", "failed"} => id \in IdsOf(req[id[1]].made)

(* The committed rows and entries. *)
RowInv ==
    /\ apps \subseteq AppRow /\ blobs \subseteq Req /\ docs \subseteq blobs
    /\ agentRuns \subseteq RunRow /\ tasks \subseteq TaskRow
    /\ \A k \in tasks : k.status = "resolved" <=> k.resolution \in Resolution
    /\ trail \in Seq(LogEntry) /\ Len(trail) = entries
    /\ \A i \in 1..Len(trail) : trail[i].op = "resolve" => trail[i].about \in IdsOf(tasks)

(* The inductive invariant: committed rows, requests, and how they are linked. *)
CaseInv == RowInv /\ RequestInv /\ KeysApart /\ BillInv
           /\ OneApplicationEach /\ RunsAreWhole /\ TaskSaysWhatTheLogSays

(* A step of one request that commits nothing. *)
Private(t, r) ==
    /\ req[t].pc \notin {"done", "failed"} /\ r.pc \notin {"idle", "done"}
    /\ req' = [req EXCEPT ![t] = r]
    /\ UNCHANGED <<Database, entries>>
    /\ appended' \in [Req -> Nat] /\ \A u \in Req \ {t} : appended'[u] = appended[u]
    /\ blobs \subseteq blobs' /\ blobs' \subseteq Req
    /\ Whole(t, r) /\ Len(r.log) = appended'[t]
    /\ r.rows.docs \subseteq blobs'
    /\ r.op = "resolve" => IdsOf(r.rows.tasks) \subseteq IdsOf(tasks)
    /\ \A a \in r.rows.apps :
          /\ ~Known(a.external)
          /\ \A u \in Req \ {t} : \A b \in req[u].rows.apps : b.external # a.external
    /\ r.pc # "failed" => IdsOf(req[t].made) \subseteq IdsOf(r.made)
    /\ \A id \in billed' \ billed : id \in Ids /\ id[1] = t /\ id \in IdsOf(r.made)

(* Such a step leaves everything in order. *)
LEMMA PrivateStep ==
    ASSUME CaseInv, NEW t \in Req, NEW r, Private(t, r)
    PROVE  CaseInv'
  <1>1. /\ req'[t] = r /\ \A u \in Req \ {t} : req'[u] = req[u]
        /\ req' \in [Req -> Requests] /\ DOMAIN req = Req
    BY DEF Private, CaseInv, RequestInv, Whole
  <1>2. RowInv'
    BY DEF Private, CaseInv, RowInv, Database
  <1>3. RequestInv'
    <2>1. \A u \in Req : Whole(u, req'[u])
      BY <1>1 DEF Private, CaseInv, RequestInv
    <2>2. Linked(t)'
      BY <1>1 DEF Private, Linked, Database, Known
    <2>3. \A u \in Req \ {t} : Linked(u)'
      BY <1>1 DEF Private, CaseInv, RequestInv, Linked, Database, Known
    <2> QED
      BY <1>1, <2>1, <2>2, <2>3 DEF Private, RequestInv
  <1>4. KeysApart'
    BY <1>1 DEF Private, CaseInv, KeysApart
  <1>5. BillInv'
    <2> SUFFICES ASSUME NEW id \in billed'
                 PROVE  /\ id \in Ids /\ req'[id[1]].pc # "idle"
                        /\ req'[id[1]].pc \notin {"done", "failed"} => id \in IdsOf(req'[id[1]].made)
      BY DEF BillInv
    <2>1. CASE id \notin billed
      BY <1>1, <2>1 DEF Private
    <2>2. CASE id \in billed
      <3>1. /\ id \in Ids /\ id[1] \in Req /\ req[id[1]].pc # "idle"
            /\ req[id[1]].pc \notin {"done", "failed"} => id \in IdsOf(req[id[1]].made)
        BY <2>2 DEF CaseInv, BillInv, Ids
      <3>2. CASE id[1] = t
        BY <1>1, <3>1, <3>2 DEF Private
      <3>3. CASE id[1] # t
        BY <1>1, <3>1, <3>3
      <3> QED
        BY <3>2, <3>3
    <2> QED
      BY <2>1, <2>2
  <1>6. OneApplicationEach' /\ TaskSaysWhatTheLogSays'
    BY DEF Private, CaseInv, OneApplicationEach, TaskSaysWhatTheLogSays, Database
  <1>7. RunsAreWhole'
    <2>1. UNCHANGED <<agentRuns, ledger, tasks>>
      BY DEF Private, Database
    <2>2. \A run \in agentRuns : run.id[1] \in Req \ {t} /\ req'[run.id[1]] = req[run.id[1]]
      <3>1. \A run \in agentRuns : run.id[1] \in Req /\ req[run.id[1]].pc = "done"
        BY DEF CaseInv, RunsAreWhole, RowInv, RunRow, Ids
      <3> QED
        BY <1>1, <3>1 DEF Private
    <2>3. \A id \in billed' : req'[id[1]].pc = "done" => id \in ledger'
      <3> SUFFICES ASSUME NEW id \in billed', req'[id[1]].pc = "done"
                   PROVE  id \in ledger'
        OBVIOUS
      <3>1. id[1] \in Req
        BY <1>5 DEF BillInv, Ids
      <3>2. id[1] # t
        BY <1>1 DEF Private
      <3>3. id \in billed
        BY <3>2 DEF Private
      <3> QED
        BY <1>1, <2>1, <3>1, <3>2, <3>3 DEF CaseInv, RunsAreWhole
    <2> QED
      BY <2>1, <2>2, <2>3 DEF CaseInv, RunsAreWhole
  <1> QED
    BY <1>2, <1>3, <1>4, <1>5, <1>6, <1>7 DEF CaseInv

(* What a request that goes on leaves alone. *)
LEMMA GoesIsPrivate ==
    ASSUME CaseInv, NEW t \in Req, NEW r, Goes(t, r),
           req[t].pc \notin {"done", "failed"}, r.pc \notin {"idle", "done"},
           blobs \subseteq blobs', blobs' \subseteq Req,
           Whole(t, r), Len(r.log) = Len(req[t].log), r.rows.docs \subseteq blobs',
           r.op = "resolve" => IdsOf(r.rows.tasks) \subseteq IdsOf(tasks),
           \A a \in r.rows.apps :
              /\ ~Known(a.external)
              /\ \A u \in Req \ {t} : \A b \in req[u].rows.apps : b.external # a.external,
           r.pc # "failed" => IdsOf(req[t].made) \subseteq IdsOf(r.made),
           \A id \in billed' \ billed : id \in Ids /\ id[1] = t /\ id \in IdsOf(r.made)
    PROVE  CaseInv'
  <1>1. UNCHANGED Database /\ UNCHANGED <<entries, appended>> /\ req' = [req EXCEPT ![t] = r]
    BY DEF Goes, appendVars
  <1>2. appended \in [Req -> Nat] /\ Len(req[t].log) = appended[t]
    BY DEF CaseInv, RequestInv, Linked
  <1>3. Private(t, r)
    BY <1>1, <1>2 DEF Private
  <1> QED
    BY <1>3, PrivateStep

(* A request as it is before it has written anything. *)
LEMMA FreshIsWhole ==
    ASSUME NEW t, NEW r \in Requests, r.rows = NoRows, r.log = <<>>, r.made = {},
           r.pc \in {"insert", "scanned", "agents", "failed", "idle", "done"},
           r.pc = "insert" => r.x \in External /\ r.op = "create",
           r.pc = "scanned" => r.op = "upload",
           r.pc = "agents" => r.op \in {"appraise", "run"}
    PROVE  Whole(t, r)
  <1>1. /\ r.rows.apps = {} /\ r.rows.docs = {} /\ r.rows.runs = {} /\ r.rows.tasks = {}
        /\ Len(r.log) = 0
    BY DEF NoRows
  <1>2. IsFiniteSet(r.made)
    BY FS_EmptySet
  <1> QED
    BY <1>1, <1>2 DEF Whole, IdsOf, Escalated

(* New is a request. *)
LEMMA NewFields ==
    /\ New \in Requests /\ New.rows = NoRows /\ New.log = <<>> /\ New.made = {}
    /\ NoRows \in Rows /\ New.pc = "idle" /\ New.op = "none" /\ New.x = Null
    /\ New.task = Null /\ New.stages = 0
  <1>1. NoRows \in Rows
    BY DEF NoRows, Rows
  <1>2. <<>> \in Seq(LogEntry)
    OBVIOUS
  <1> QED
    BY <1>1, <1>2 DEF New, Requests, Status

(* A request arrives. *)
LEMMA Begins ==
    ASSUME CaseInv, NEW t \in Req, NEW r \in Requests, req[t].pc = "idle", Goes(t, r),
           UNCHANGED <<blobs, billed>>, r.rows = NoRows, r.log = <<>>, r.made = {},
           r.pc \in {"insert", "scanned", "agents"},
           r.pc = "insert" => r.x \in External /\ r.op = "create",
           r.pc = "scanned" => r.op = "upload",
           r.pc = "agents" => r.op \in {"appraise", "run"}
    PROVE  CaseInv'
  <1>1. Whole(t, r)
    BY FreshIsWhole
  <1>2. req[t].made = {} /\ req[t].log = <<>>
    BY DEF CaseInv, RequestInv, Whole
  <1>3. blobs \subseteq Req
    BY DEF CaseInv, RowInv
  <1> QED
    BY <1>1, <1>2, <1>3, GoesIsPrivate DEF NoRows, IdsOf

(* A request of any kind arrives, and has stored and written nothing. *)
LEMMA Arrivals ==
    ASSUME CaseInv, NEW t \in Req, Arrive(t)
    PROVE  CaseInv'
  <1> USE NewFields
  <1>1. ASSUME NEW x \in External, CreateApplication(t, x)
        PROVE  CaseInv'
    <2> DEFINE r == [New EXCEPT !.op = "create", !.pc = "insert", !.x = x]
    <2>1. /\ r \in Requests /\ r.rows = NoRows /\ r.log = <<>> /\ r.made = {}
          /\ r.pc = "insert" /\ r.op = "create" /\ r.x \in External
      BY DEF Requests, Status
    <2>2. Goes(t, r) /\ req[t].pc = "idle" /\ UNCHANGED <<blobs, billed>>
      BY <1>1 DEF CreateApplication
    <2> HIDE DEF r
    <2> QED
      BY <2>1, <2>2, Begins
  <1>2. ASSUME NEW x \in External, Appraise(t, x)
        PROVE  CaseInv'
    <2>1. PICK n \in {2, 3} :
             Goes(t, [New EXCEPT !.op = "appraise", !.pc = "agents", !.x = x, !.stages = n])
      BY <1>2 DEF Appraise
    <2> DEFINE r == [New EXCEPT !.op = "appraise", !.pc = "agents", !.x = x, !.stages = n]
    <2>2. /\ r \in Requests /\ r.rows = NoRows /\ r.log = <<>> /\ r.made = {}
          /\ r.pc = "agents" /\ r.op = "appraise"
      <3>1. n \in Nat /\ x \in External \cup {Null}
        OBVIOUS
      <3> QED
        BY <3>1 DEF Requests, Status
    <2>3. Goes(t, r) /\ req[t].pc = "idle" /\ UNCHANGED <<blobs, billed>>
      BY <1>2, <2>1 DEF Appraise
    <2> HIDE DEF r
    <2> QED
      BY <2>2, <2>3, Begins
  <1>3. CASE UploadDocument(t)
    <2> DEFINE r == [New EXCEPT !.op = "upload", !.pc = "scanned"]
    <2>1. /\ r \in Requests /\ r.rows = NoRows /\ r.log = <<>> /\ r.made = {}
          /\ r.pc = "scanned" /\ r.op = "upload"
      BY DEF Requests, Status
    <2>2. Goes(t, r) /\ req[t].pc = "idle" /\ UNCHANGED <<blobs, billed>>
      BY <1>3 DEF UploadDocument
    <2> HIDE DEF r
    <2> QED
      BY <2>1, <2>2, Begins
  <1>4. ASSUME NEW ds, RunOneAgent(t, ds)
        PROVE  CaseInv'
    <2> DEFINE r == [New EXCEPT !.op = "run", !.pc = "agents", !.stages = 1]
    <2>1. /\ r \in Requests /\ r.rows = NoRows /\ r.log = <<>> /\ r.made = {}
          /\ r.pc = "agents" /\ r.op = "run"
      BY DEF Requests, Status
    <2>2. Goes(t, r) /\ req[t].pc = "idle" /\ UNCHANGED <<blobs, billed>>
      BY <1>4 DEF RunOneAgent
    <2> HIDE DEF r
    <2> QED
      BY <2>1, <2>2, Begins
  <1>5. ASSUME NEW k \in tasks, NEW answer \in Resolution, ResolveTask(t, k, answer)
        PROVE  CaseInv'
    <2> DEFINE m == [k EXCEPT !.status = "resolved", !.resolution = answer]
               r == [New EXCEPT !.op = "resolve", !.pc = "tail", !.task = k.id,
                                !.rows.tasks = {m}]
    <2>1. k \in TaskRow /\ k.id \in Ids
      BY DEF CaseInv, RowInv, TaskRow
    <2>2. m \in TaskRow /\ m.id = k.id /\ m.status = "resolved" /\ m.resolution = answer
      BY <2>1 DEF TaskRow
    <2> HIDE DEF m
    <2>3. /\ r.rows = [NoRows EXCEPT !.tasks = {m}] /\ r.op = "resolve" /\ r.pc = "tail"
          /\ r.task = k.id /\ r.made = {} /\ r.log = <<>>
          /\ r = [New EXCEPT !.op = "resolve", !.pc = "tail", !.task = k.id, !.rows = r.rows]
      BY DEF New, NoRows
    <2>4. /\ r.rows \in Rows /\ r.rows.apps = {} /\ r.rows.docs = {} /\ r.rows.runs = {}
          /\ r.rows.tasks = {m}
      BY <2>2, <2>3 DEF NoRows, Rows
    <2>5. Goes(t, r) /\ req[t].pc = "idle" /\ UNCHANGED <<blobs, billed>>
      BY <1>5 DEF ResolveTask, m
    <2> HIDE DEF r
    <2>6. r \in Requests
      BY <2>1, <2>3, <2>4 DEF Requests, Status, New
    <2>7. Whole(t, r)
      BY <2>2, <2>3, <2>4, <2>6, FS_EmptySet DEF Whole
    <2>8. req[t].made = {} /\ req[t].log = <<>>
      BY <2>5 DEF CaseInv, RequestInv, Whole
    <2>9. IdsOf(r.rows.tasks) \subseteq IdsOf(tasks)
      BY <2>2, <2>4 DEF IdsOf
    <2>10. blobs \subseteq Req
      BY DEF CaseInv, RowInv
    <2> QED
      BY <2>3, <2>4, <2>5, <2>7, <2>8, <2>9, <2>10, GoesIsPrivate DEF IdsOf
  <1> QED
    BY <1>1, <1>2, <1>3, <1>4, <1>5 DEF Arrive

(* A request fails: what it wrote is gone, what it stored and billed stays. *)
LEMMA Fails ==
    ASSUME CaseInv, NEW t \in Req, Fail(t), req[t].pc \notin {"done", "failed"}
    PROVE  CaseInv'
  <1> DEFINE r == [New EXCEPT !.op = req[t].op, !.pc = "failed"]
  <1>1. req[t] \in Requests
    BY DEF CaseInv, RequestInv
  <1>2. /\ r \in Requests /\ r.rows = NoRows /\ r.log = <<>> /\ r.made = {}
        /\ r.pc = "failed"
    BY <1>1, NewFields DEF Requests, Status
  <1>3. /\ req' = [req EXCEPT ![t] = r] /\ UNCHANGED <<Database, blobs, billed, entries>>
        /\ appended' = [appended EXCEPT ![t] = 0]
    BY DEF Fail, EntriesRolledBack
  <1> HIDE DEF r
  <1>4. Whole(t, r)
    BY <1>2, FreshIsWhole
  <1>5. /\ appended' \in [Req -> Nat] /\ \A u \in Req \ {t} : appended'[u] = appended[u]
        /\ appended'[t] = 0
    BY <1>3 DEF CaseInv, RequestInv
  <1>6. blobs \subseteq Req
    BY DEF CaseInv, RowInv
  <1>7. Len(r.log) = 0 /\ r.rows.docs = {} /\ r.rows.apps = {} /\ r.rows.tasks = {}
    BY <1>2 DEF NoRows
  <1>8. Private(t, r)
    BY <1>2, <1>3, <1>4, <1>5, <1>6, <1>7 DEF Private, IdsOf
  <1> QED
    BY <1>8, PrivateStep

(* The insert of an application meets its unique key: the row is there, or another request has it. *)
LEMMA Inserts ==
    ASSUME CaseInv, NEW t \in Req, InsertApplication(t)
    PROVE  CaseInv'
  <1>1. /\ Whole(t, req[t]) /\ Linked(t) /\ req[t].pc = "insert"
    BY DEF InsertApplication, CaseInv, RequestInv
  <1>2. CASE Fail(t)
    BY <1>1, <1>2, Fails
  <1>3. CASE ~Fail(t)
    <2> DEFINE a == [external |-> req[t].x, by |-> t]
               r == [req[t] EXCEPT !.pc = "tail", !.rows.apps = {a}]
    <2>1. /\ ~KeyInFlight(t) /\ ~Known(req[t].x)
          /\ Goes(t, r) /\ UNCHANGED <<blobs, billed>>
      BY <1>3 DEF InsertApplication
    <2>2. /\ req[t] \in Requests /\ req[t].rows = NoRows /\ req[t].log = <<>>
          /\ req[t].made = {} /\ req[t].x \in External /\ req[t].op = "create"
      BY <1>1 DEF Whole
    <2>3. a \in AppRow /\ a.external = req[t].x
      BY <2>2 DEF AppRow
    <2> HIDE DEF a
    <2>4. /\ r = [req[t] EXCEPT !.pc = "tail", !.rows = r.rows]
          /\ r.rows = [NoRows EXCEPT !.apps = {a}]
      BY <2>2 DEF Requests, Rows
    <2> HIDE DEF r
    <2>5. /\ r.rows \in Rows /\ r.rows.apps = {a} /\ r.rows.docs = {} /\ r.rows.runs = {}
          /\ r.rows.tasks = {}
      BY <2>3, <2>4 DEF NoRows, Rows
    <2>6. /\ r \in Requests /\ r.pc = "tail" /\ r.op = "create" /\ r.x = req[t].x
          /\ r.log = <<>> /\ r.made = {}
      BY <2>2, <2>4, <2>5 DEF Requests, Status
    <2>7. Whole(t, r)
      BY <2>5, <2>6, FS_EmptySet DEF Whole, IdsOf, Escalated, a
    <2>8. \A u \in Req \ {t} : \A b \in req[u].rows.apps : b.external # a.external
      BY <2>1, <2>3 DEF KeyInFlight
    <2>9. blobs \subseteq Req
      BY DEF CaseInv, RowInv
    <2> QED
      BY <1>1, <2>1, <2>2, <2>3, <2>5, <2>6, <2>7, <2>8, <2>9, GoesIsPrivate DEF IdsOf
  <1> QED
    BY <1>2, <1>3

(* The object is in the store before its row is written. *)
LEMMA Stores ==
    ASSUME CaseInv, NEW t \in Req, StoreDocument(t)
    PROVE  CaseInv'
  <1> DEFINE r == [req[t] EXCEPT !.pc = "tail", !.rows.docs = {t}]
  <1>1. /\ req[t].pc = "scanned" /\ blobs' = blobs \cup {t} /\ Goes(t, r) /\ UNCHANGED billed
    BY DEF StoreDocument
  <1>2. /\ req[t] \in Requests /\ req[t].rows = NoRows /\ req[t].log = <<>>
        /\ req[t].made = {} /\ req[t].op = "upload"
    BY <1>1 DEF CaseInv, RequestInv, Whole
  <1>3. /\ r = [req[t] EXCEPT !.pc = "tail", !.rows = r.rows]
        /\ r.rows = [NoRows EXCEPT !.docs = {t}]
    BY <1>2 DEF Requests, Rows
  <1> HIDE DEF r
  <1>4. /\ r.rows \in Rows /\ r.rows.apps = {} /\ r.rows.docs = {t} /\ r.rows.runs = {}
        /\ r.rows.tasks = {}
    BY <1>3 DEF NoRows, Rows
  <1>5. /\ r \in Requests /\ r.pc = "tail" /\ r.op = "upload" /\ r.log = <<>> /\ r.made = {}
    BY <1>2, <1>3, <1>4 DEF Requests, Status
  <1>6. Whole(t, r)
    BY <1>4, <1>5, FS_EmptySet DEF Whole, IdsOf, Escalated
  <1>7. blobs' \subseteq Req
    BY <1>1 DEF CaseInv, RowInv
  <1> QED
    BY <1>1, <1>2, <1>4, <1>5, <1>6, <1>7, GoesIsPrivate DEF IdsOf

(* A call is billed with the run it was made for. *)
LEMMA RunsAStage ==
    ASSUME CaseInv, NEW t \in Req, RunStage(t)
    PROVE  CaseInv'
  <1> DEFINE q == req[t]
             i == Cardinality(q.made) + 1
             id == <<t, i>>
  <1>1. PICK escalated \in BOOLEAN :
           /\ q.op = "appraise" /\ i = q.stages => escalated
           /\ Goes(t, [q EXCEPT !.made = @ \cup {[id |-> id, escalated |-> escalated]},
                                !.pc = IF i = q.stages THEN "persist" ELSE "agents"])
    BY DEF RunStage
  <1>2. q.pc = "agents" /\ billed' = billed \cup {id} /\ UNCHANGED blobs
    BY DEF RunStage
  <1> DEFINE run == [id |-> id, escalated |-> escalated]
             p == IF i = q.stages THEN "persist" ELSE "agents"
             r == [q EXCEPT !.made = @ \cup {run}, !.pc = p]
  <1>3. Goes(t, r)
    BY <1>1
  <1>4. /\ q \in Requests /\ q.rows = NoRows /\ q.log = <<>> /\ IsFiniteSet(q.made)
        /\ q.op \in {"appraise", "run"} /\ \A a \in q.made : a.id[1] = t
    BY <1>2 DEF CaseInv, RequestInv, Whole
  <1>5. id \in Ids /\ id[1] = t /\ run \in RunRow /\ run.id = id /\ run.escalated = escalated
    BY <1>4, FS_CardinalityType DEF Ids, RunRow
  <1>6. p \in {"agents", "persist"} /\ (p = "persist" /\ q.op = "appraise" => escalated)
    BY <1>1
  <1> HIDE DEF i, id, run, p
  <1>7. /\ r \in Requests /\ r.pc = p /\ r.op = q.op /\ r.rows = NoRows /\ r.log = <<>>
        /\ r.made = q.made \cup {run}
    BY <1>4, <1>5, <1>6 DEF Requests, Status
  <1> HIDE DEF r
  <1>8. IsFiniteSet(r.made)
    BY <1>4, <1>7, FS_AddElement
  <1>9. /\ r.rows.apps = {} /\ r.rows.docs = {} /\ r.rows.runs = {} /\ r.rows.tasks = {}
    BY <1>7 DEF NoRows
  <1>10. r.op = "appraise" /\ r.pc = "persist" => Escalated(r.made) # {}
    BY <1>5, <1>6, <1>7 DEF Escalated
  <1>11. \A a \in r.made : a.id[1] = t
    BY <1>4, <1>5, <1>7
  <1>12. Whole(t, r)
    <2>1. \A k \in 1..Len(r.log) : r.log[k].op # "resolve"
      BY <1>7
    <2>2. IdsOf(r.rows.tasks) = IdsOf(Escalated(r.rows.runs))
      BY <1>9 DEF IdsOf, Escalated
    <2> QED
      BY <1>4, <1>6, <1>7, <1>8, <1>9, <1>10, <1>11, <2>1, <2>2 DEF Whole
  <1>13. blobs \subseteq Req
    BY DEF CaseInv, RowInv
  <1>14. IdsOf(q.made) \subseteq IdsOf(r.made) /\ id \in IdsOf(r.made)
    BY <1>5, <1>7 DEF IdsOf
  <1>15. r.op # "resolve" /\ r.pc \notin {"idle", "done"} /\ q.pc \notin {"done", "failed"}
    BY <1>2, <1>4, <1>6, <1>7
  <1>16. \A j \in billed' \ billed : j \in Ids /\ j[1] = t /\ j \in IdsOf(r.made)
    BY <1>2, <1>5, <1>14
  <1> QED
    BY <1>2, <1>3, <1>4, <1>7, <1>9, <1>12, <1>13, <1>14, <1>15, <1>16, GoesIsPrivate

(* A run is recorded with its task when it escalated. *)
LEMMA Persists ==
    ASSUME CaseInv, NEW t \in Req, PersistRun(t)
    PROVE  CaseInv'
  <1> DEFINE q == req[t]
  <1>1. q.pc = "persist" /\ UNCHANGED <<blobs, billed>>
    BY DEF PersistRun
  <1>2. PICK run \in q.made :
           Goes(t, [q EXCEPT !.pc = "tail",
                       !.rows.runs = @ \cup {run},
                       !.rows.tasks = IF run.escalated
                            THEN @ \cup {[id |-> run.id, status |-> "open", resolution |-> Null]}
                            ELSE @])
    BY DEF PersistRun
  <1> DEFINE k == [id |-> run.id, status |-> "open", resolution |-> Null]
             r == [q EXCEPT !.pc = "tail", !.rows.runs = @ \cup {run},
                       !.rows.tasks = IF run.escalated THEN @ \cup {k} ELSE @]
  <1>3. Goes(t, r)
    BY <1>2
  <1>4. /\ Whole(t, q) /\ Linked(t) /\ q \in Requests /\ q.op \in {"appraise", "run"}
    BY <1>1 DEF CaseInv, RequestInv, Whole
  <1>5. run \in RunRow /\ k \in TaskRow /\ k.id = run.id /\ k.status = "open" /\ k.resolution = Null
    BY <1>4 DEF Requests, RunRow, TaskRow
  <1> HIDE DEF k
  <1>6. /\ r.pc = "tail" /\ r.op = q.op /\ r.x = q.x /\ r.task = q.task /\ r.stages = q.stages
        /\ r.made = q.made /\ r.log = q.log /\ r.rows.apps = q.rows.apps /\ r.rows.docs = q.rows.docs
        /\ r.rows.runs = q.rows.runs \cup {run}
        /\ r.rows.tasks = IF run.escalated THEN q.rows.tasks \cup {k} ELSE q.rows.tasks
    BY <1>4 DEF Requests, Rows
  <1>7. r \in Requests
    <2>1. r.rows.runs \in SUBSET RunRow /\ r.rows.tasks \in SUBSET TaskRow
      BY <1>4, <1>5, <1>6 DEF Requests, Rows
    <2> QED
      BY <1>4, <1>5 DEF Requests, Rows, Status
  <1> HIDE DEF r
  <1>8. Whole(t, r)
    <2>1. r.rows.runs \subseteq r.made
      BY <1>4, <1>6 DEF Whole
    <2>2. IdsOf(r.rows.tasks) = IdsOf(Escalated(r.rows.runs))
      <3>1. IdsOf(q.rows.tasks) = IdsOf(Escalated(q.rows.runs))
        BY <1>4 DEF Whole
      <3>2. CASE run.escalated
        <4>1. Escalated(r.rows.runs) = Escalated(q.rows.runs) \cup {run}
          BY <1>6, <3>2 DEF Escalated
        <4>2. r.rows.tasks = q.rows.tasks \cup {k}
          BY <1>6, <3>2
        <4> QED
          BY <1>5, <3>1, <4>1, <4>2 DEF IdsOf
      <3>3. CASE ~run.escalated
        <4>1. Escalated(r.rows.runs) = Escalated(q.rows.runs)
          BY <1>6, <3>3 DEF Escalated
        <4> QED
          BY <1>6, <3>1, <3>3, <4>1
      <3> QED
        BY <3>2, <3>3
    <2>3. \A n \in r.rows.tasks : n.status = "open" /\ n.resolution = Null
      BY <1>4, <1>5, <1>6 DEF Whole
    <2>4. \A i \in 1..Len(r.log) : r.log[i].op # "resolve"
      BY <1>4, <1>6 DEF Whole
    <2>5. /\ r.rows.apps \subseteq {[external |-> r.x, by |-> t]} /\ r.rows.docs \subseteq {t}
          /\ IsFiniteSet(r.made) /\ \A a \in r.made : a.id[1] = t
      BY <1>4, <1>6 DEF Whole
    <2>6. r.op = "appraise" => Escalated(r.made) # {}
      BY <1>1, <1>4, <1>6 DEF Whole
    <2>7. r.op \in {"appraise", "run"}
      BY <1>4, <1>6
    <2> QED
      BY <1>6, <1>7, <2>1, <2>2, <2>3, <2>4, <2>5, <2>6, <2>7 DEF Whole
  <1>9. /\ r.rows.docs \subseteq blobs
        /\ \A a \in r.rows.apps :
              /\ ~Known(a.external)
              /\ \A u \in Req \ {t} : \A b \in req[u].rows.apps : b.external # a.external
    BY <1>4, <1>6 DEF Linked, CaseInv, KeysApart
  <1>10. blobs \subseteq Req
    BY DEF CaseInv, RowInv
  <1>11. r.op # "resolve" /\ r.pc \notin {"idle", "done"} /\ q.pc \notin {"done", "failed"}
    BY <1>1, <1>4, <1>6
  <1> QED
    BY <1>1, <1>3, <1>6, <1>8, <1>9, <1>10, <1>11, GoesIsPrivate

(* Reading the tail writes nothing. *)
LEMMA ReadsTail ==
    ASSUME CaseInv, NEW t \in Req, ReadTail(t)
    PROVE  CaseInv'
  <1> DEFINE q == req[t]
             r == [q EXCEPT !.pc = "append"]
  <1>1. /\ q.pc = "tail" /\ req' = [req EXCEPT ![t] = r]
        /\ UNCHANGED <<Database, blobs, billed, entries, appended>>
    BY DEF ReadTail, TailRead
  <1>2. Whole(t, q) /\ Linked(t) /\ q \in Requests /\ appended \in [Req -> Nat]
    BY DEF CaseInv, RequestInv
  <1>3. /\ r.pc = "append" /\ r.op = q.op /\ r.x = q.x /\ r.task = q.task
        /\ r.made = q.made /\ r.log = q.log /\ r.rows = q.rows /\ r \in Requests
    BY <1>2 DEF Requests, Status
  <1> HIDE DEF r
  <1>4. Whole(t, r)
    BY <1>1, <1>2, <1>3 DEF Whole
  <1>5. /\ r.rows.docs \subseteq blobs /\ Len(r.log) = appended[t] /\ blobs \subseteq Req
        /\ r.op = "resolve" => IdsOf(r.rows.tasks) \subseteq IdsOf(tasks)
        /\ \A a \in r.rows.apps :
              /\ ~Known(a.external)
              /\ \A u \in Req \ {t} : \A b \in req[u].rows.apps : b.external # a.external
    BY <1>2, <1>3 DEF Linked, CaseInv, KeysApart, RowInv
  <1>6. Private(t, r)
    BY <1>1, <1>2, <1>3, <1>4, <1>5 DEF Private
  <1> QED
    BY <1>6, PrivateStep

(* Each run recorded, each decision, has its audit entry before the commit. *)
LEMMA Appends ==
    ASSUME CaseInv, NEW t \in Req, AppendEntry(t)
    PROVE  CaseInv'
  <1> DEFINE q == req[t]
             more == Cardinality(q.rows.runs) < Cardinality(q.made)
             p == IF more THEN "persist" ELSE "commit"
             e == Entry(q)
             r == [q EXCEPT !.log = @ \o <<e>>, !.pc = p]
  <1>1. /\ q.pc = "append" /\ req' = [req EXCEPT ![t] = r]
        /\ UNCHANGED <<Database, blobs, billed, entries>>
        /\ appended' = [appended EXCEPT ![t] = @ + 1]
    BY DEF AppendEntry, EntryAdded
  <1>2. Whole(t, q) /\ Linked(t) /\ q \in Requests /\ appended \in [Req -> Nat]
    BY DEF CaseInv, RequestInv
  <1>3. /\ e.op = q.op /\ e.about = q.task
        /\ q.op # "resolve" => e.resolution = Null
        /\ q.op = "resolve" => \E k \in q.rows.tasks : /\ q.rows.tasks = {k} /\ k.id = q.task
                                                      /\ e.resolution = k.resolution
                                                      /\ k.resolution \in Resolution
    <2>1. /\ e.op = q.op /\ e.about = q.task
          /\ e.resolution = IF q.op = "resolve"
                THEN (CHOOSE k \in q.rows.tasks : k.id = q.task).resolution ELSE Null
      BY DEF Entry
    <2>2. CASE q.op = "resolve"
      <3>1. PICK k \in q.rows.tasks : /\ q.rows.tasks = {k} /\ k.id = q.task
                                      /\ k.resolution \in Resolution
        BY <1>1, <1>2, <2>2 DEF Whole
      <3>2. (CHOOSE n \in q.rows.tasks : n.id = q.task) = k
        BY <3>1
      <3> QED
        BY <2>1, <2>2, <3>1, <3>2
    <2> QED
      BY <2>1, <2>2
  <1>4. e \in LogEntry /\ e = [op |-> e.op, about |-> e.about, resolution |-> e.resolution]
    <2>1. q.op \in {"create", "upload", "appraise", "run", "resolve"} /\ q.task \in Ids \cup {Null}
      BY <1>1, <1>2 DEF Whole, Requests
    <2>2. e.resolution \in Resolution \cup {Null}
      BY <1>3
    <2>3. e = [op |-> e.op, about |-> e.about, resolution |-> e.resolution]
      BY DEF Entry
    <2> HIDE DEF e
    <2> QED
      BY <1>3, <2>1, <2>2, <2>3 DEF LogEntry
  <1> HIDE DEF e, p
  <1>5. /\ q.log \in Seq(LogEntry) /\ q.log \o <<e>> \in Seq(LogEntry)
        /\ Len(q.log) \in Nat /\ Len(q.log \o <<e>>) = Len(q.log) + 1
        /\ \A i \in 1..Len(q.log) : (q.log \o <<e>>)[i] = q.log[i]
        /\ (q.log \o <<e>>)[Len(q.log) + 1] = e
    <2>1. q.log \in Seq(LogEntry) /\ <<e>> \in Seq(LogEntry) /\ Len(<<e>>) = 1 /\ <<e>>[1] = e
      BY <1>2, <1>4 DEF Requests
    <2> QED
      BY <2>1, ConcatProperties, LenProperties
  <1>6. p \in {"persist", "commit"}
    BY DEF p
  <1>7. /\ r.pc = p /\ r.op = q.op /\ r.x = q.x /\ r.task = q.task
        /\ r.made = q.made /\ r.log = q.log \o <<e>> /\ r.rows = q.rows /\ r \in Requests
    BY <1>2, <1>5, <1>6 DEF Requests, Status
  <1> HIDE DEF r
  <1>8. p = "commit" => q.rows.runs = q.made
    <2>1. /\ IsFiniteSet(q.made) /\ q.rows.runs \subseteq q.made
      BY <1>2 DEF Whole
    <2>2. /\ Cardinality(q.rows.runs) \in Nat /\ Cardinality(q.made) \in Nat
          /\ Cardinality(q.rows.runs) <= Cardinality(q.made)
          /\ Cardinality(q.made) = Cardinality(q.rows.runs) => q.made = q.rows.runs
      BY <2>1, FS_Subset, FS_CardinalityType
    <2> QED
      BY <2>2 DEF p
  <1>9. p = "persist" => q.op \in {"appraise", "run"}
    <2>1. CASE q.made = {}
      <3>1. q.rows.runs = {}
        BY <1>2, <2>1 DEF Whole
      <3> QED
        BY <2>1, <3>1, FS_EmptySet DEF p
    <2>2. CASE q.made # {}
      BY <1>2, <2>2 DEF Whole
    <2> QED
      BY <2>1, <2>2
  <1>10. q.op = "resolve" =>
            /\ r.pc = "commit"
            /\ \E k \in r.rows.tasks :
                  /\ r.rows.tasks = {k}
                  /\ r.log = <<[op |-> "resolve", about |-> r.task, resolution |-> k.resolution]>>
    <2> SUFFICES ASSUME q.op = "resolve"
                 PROVE  /\ r.pc = "commit"
                        /\ \E k \in r.rows.tasks :
                              /\ r.rows.tasks = {k}
                              /\ r.log = <<[op |-> "resolve", about |-> r.task,
                                            resolution |-> k.resolution]>>
      OBVIOUS
    <2>1. r.pc = "commit"
      BY <1>6, <1>7, <1>9
    <2>2. q.log = <<>>
      BY <1>1, <1>2 DEF Whole
    <2>3. r.log = <<e>>
      BY <1>4, <1>7, <2>2
    <2> QED
      BY <1>3, <1>4, <1>7, <2>1, <2>3
  <1>11. q.op # "resolve" => \A i \in 1..Len(r.log) : r.log[i].op # "resolve"
    BY <1>2, <1>3, <1>5, <1>7 DEF Whole
  <1>12. Whole(t, r)
    BY <1>1, <1>2, <1>6, <1>7, <1>8, <1>9, <1>10, <1>11 DEF Whole
  <1>13. /\ r.rows.docs \subseteq blobs /\ blobs \subseteq Req
         /\ r.op = "resolve" => IdsOf(r.rows.tasks) \subseteq IdsOf(tasks)
         /\ \A a \in r.rows.apps :
               /\ ~Known(a.external)
               /\ \A u \in Req \ {t} : \A b \in req[u].rows.apps : b.external # a.external
    BY <1>2, <1>7 DEF Linked, CaseInv, KeysApart, RowInv
  <1>14. /\ Len(r.log) = appended'[t] /\ appended' \in [Req -> Nat]
         /\ \A u \in Req \ {t} : appended'[u] = appended[u]
    BY <1>1, <1>2, <1>5, <1>7 DEF Linked
  <1>15. Private(t, r)
    BY <1>1, <1>6, <1>7, <1>12, <1>13, <1>14 DEF Private
  <1> QED
    BY <1>15, PrivateStep

(* The tasks after a commit have the ids they had and those it writes.     *)
LEMMA TasksKeepTheirIds ==
    ASSUME NEW old, NEW new
    PROVE  IdsOf({k \in old : \A n \in new : n.id # k.id} \cup new) = IdsOf(old) \cup IdsOf(new)
  BY DEF IdsOf

(* A commit publishes all a request has written, and nothing else. *)
LEMMA Commits ==
    ASSUME CaseInv, NEW t \in Req, Commit(t)
    PROVE  CaseInv'
  <1> DEFINE q == req[t]
             r == [New EXCEPT !.op = q.op, !.pc = "done"]
  <1>1. /\ q.pc = "commit" /\ req' = [req EXCEPT ![t] = r]
        /\ apps' = apps \cup q.rows.apps
        /\ docs' = docs \cup q.rows.docs
        /\ agentRuns' = agentRuns \cup q.rows.runs
        /\ ledger' = ledger \cup {run.id : run \in q.rows.runs}
        /\ tasks' = {k \in tasks : \A n \in q.rows.tasks : n.id # k.id} \cup q.rows.tasks
        /\ trail' = trail \o q.log
        /\ entries' = entries + appended[t]
        /\ appended' = [appended EXCEPT ![t] = 0]
        /\ UNCHANGED <<blobs, billed>>
    BY DEF Commit, EntriesCommitted
  <1>2. /\ Whole(t, q) /\ Linked(t) /\ q \in Requests
        /\ appended \in [Req -> Nat] /\ req \in [Req -> Requests]
    BY DEF CaseInv, RequestInv
  <1>3. /\ r \in Requests /\ r.rows = NoRows /\ r.log = <<>> /\ r.made = {}
        /\ r.pc = "done" /\ r.op = q.op
    BY <1>2, NewFields DEF Requests, Status
  <1> HIDE DEF r
  <1>4. /\ req'[t] = r /\ req' \in [Req -> Requests]
        /\ \A u \in Req \ {t} : req'[u] = req[u]
        /\ appended'[t] = 0 /\ appended' \in [Req -> Nat]
        /\ \A u \in Req \ {t} : appended'[u] = appended[u]
    BY <1>1, <1>2, <1>3
  <1>5. q.rows \in Rows
    BY <1>2 DEF Requests
  <1>6. IdsOf(tasks') = IdsOf(tasks) \cup IdsOf(q.rows.tasks)
    BY <1>1, TasksKeepTheirIds
  <1>7. /\ trail \in Seq(LogEntry) /\ q.log \in Seq(LogEntry)
        /\ trail' \in Seq(LogEntry) /\ Len(trail) \in Nat /\ Len(q.log) \in Nat
        /\ Len(trail') = Len(trail) + Len(q.log)
        /\ \A i \in 1..Len(trail) : trail'[i] = trail[i]
        /\ \A i \in 1..Len(q.log) : trail'[Len(trail) + i] = q.log[i]
    <2>1. trail \in Seq(LogEntry) /\ q.log \in Seq(LogEntry)
      BY <1>2 DEF CaseInv, RowInv, Requests
    <2>2. /\ trail' \in Seq(LogEntry) /\ Len(trail') = Len(trail) + Len(q.log)
          /\ \A i \in 1..Len(trail') : trail'[i] = IF i <= Len(trail) THEN trail[i]
                                                   ELSE q.log[i - Len(trail)]
      BY <1>1, <2>1, ConcatProperties
    <2>3. Len(trail) \in Nat /\ Len(q.log) \in Nat
      BY <2>1, LenProperties
    <2>4. \A i \in 1..Len(q.log) : trail'[Len(trail) + i] = q.log[i]
      <3> SUFFICES ASSUME NEW i \in 1..Len(q.log)
                   PROVE  trail'[Len(trail) + i] = q.log[i]
        OBVIOUS
      <3>1. Len(trail) + i \in 1..Len(trail') /\ ~(Len(trail) + i <= Len(trail))
            /\ Len(trail) + i - Len(trail) = i
        BY <2>2, <2>3
      <3> QED
        BY <2>2, <3>1
    <2>5. \A i \in 1..Len(trail) : trail'[i] = trail[i]
      BY <2>2, <2>3
    <2> QED
      BY <2>1, <2>2, <2>3, <2>4, <2>5
  <1>8. q.op = "resolve" =>
           \E k \in q.rows.tasks :
              /\ q.rows.tasks = {k} /\ k.id = q.task
              /\ k.status = "resolved" /\ k.resolution \in Resolution
              /\ Len(q.log) = 1 /\ q.log[1].op = "resolve"
              /\ q.log[1].about = k.id /\ q.log[1].resolution = k.resolution
    <2> SUFFICES ASSUME q.op = "resolve"
                 PROVE  \E k \in q.rows.tasks :
                           /\ q.rows.tasks = {k} /\ k.id = q.task
                           /\ k.status = "resolved" /\ k.resolution \in Resolution
                           /\ Len(q.log) = 1 /\ q.log[1].op = "resolve"
                           /\ q.log[1].about = k.id /\ q.log[1].resolution = k.resolution
      OBVIOUS
    <2>1. PICK k \in q.rows.tasks :
             /\ q.rows.tasks = {k}
             /\ q.log = <<[op |-> "resolve", about |-> q.task, resolution |-> k.resolution]>>
      BY <1>1, <1>2 DEF Whole
    <2>2. k.id = q.task /\ k.status = "resolved" /\ k.resolution \in Resolution
      BY <1>2 DEF Whole
    <2>3. Len(q.log) = 1 /\ q.log[1].op = "resolve" /\ q.log[1].about = k.id
          /\ q.log[1].resolution = k.resolution
      BY <2>1, <2>2
    <2> QED
      BY <2>1, <2>2, <2>3
  <1>9. /\ IsFiniteSet(q.made) /\ q.rows.runs = q.made /\ \A run \in q.rows.runs : run.id[1] = t
        /\ q.op = "appraise" => Escalated(q.rows.runs) # {}
        /\ q.rows.apps \subseteq {[external |-> q.x, by |-> t]} /\ q.rows.docs \subseteq {t}
        /\ q.op # "resolve" =>
              /\ IdsOf(q.rows.tasks) = IdsOf(Escalated(q.rows.runs))
              /\ \A k \in q.rows.tasks : k.status = "open" /\ k.resolution = Null
              /\ \A i \in 1..Len(q.log) : q.log[i].op # "resolve"
        /\ q.op = "resolve" => q.rows.runs = {}
    BY <1>1, <1>2 DEF Whole
  <1>10. /\ q.rows.docs \subseteq blobs /\ Len(q.log) = appended[t]
         /\ q.op = "resolve" => IdsOf(q.rows.tasks) \subseteq IdsOf(tasks)
         /\ \A a \in q.rows.apps : ~Known(a.external)
    BY <1>2 DEF Linked
  <1>11. RowInv'
    <2>1. /\ apps \subseteq AppRow /\ blobs \subseteq Req /\ docs \subseteq blobs
          /\ agentRuns \subseteq RunRow /\ tasks \subseteq TaskRow
          /\ \A k \in tasks : k.status = "resolved" <=> k.resolution \in Resolution
          /\ Len(trail) = entries
          /\ \A i \in 1..Len(trail) : trail[i].op = "resolve" => trail[i].about \in IdsOf(tasks)
      BY DEF CaseInv, RowInv
    <2>2. /\ apps' \subseteq AppRow /\ blobs' \subseteq Req /\ docs' \subseteq blobs'
          /\ agentRuns' \subseteq RunRow /\ tasks' \subseteq TaskRow
      BY <1>1, <1>5, <1>10, <2>1 DEF Rows
    <2>3. \A k \in q.rows.tasks : k.status = "resolved" <=> k.resolution \in Resolution
      BY <1>8, <1>9, CaseFileAssumption
    <2>4. \A k \in tasks' : k.status = "resolved" <=> k.resolution \in Resolution
      BY <1>1, <2>1, <2>3
    <2>5. Len(trail') = entries'
      BY <1>1, <1>7, <1>10, <2>1
    <2>6. ASSUME NEW i \in 1..Len(trail'), trail'[i].op = "resolve"
          PROVE  trail'[i].about \in IdsOf(tasks')
      <3>1. CASE i \in 1..Len(trail)
        BY <1>6, <1>7, <2>1, <2>6, <3>1
      <3>2. CASE i \notin 1..Len(trail)
        <4> DEFINE j == i - Len(trail)
        <4>1. j \in 1..Len(q.log) /\ i = Len(trail) + j
          BY <1>7, <3>2
        <4> HIDE DEF j
        <4>2. trail'[i] = q.log[j]
          BY <1>7, <4>1
        <4>3. q.op = "resolve"
          BY <1>9, <2>6, <4>1, <4>2
        <4>4. PICK k \in q.rows.tasks : Len(q.log) = 1 /\ q.log[1].about = k.id
          BY <1>8, <4>3
        <4>5. j = 1
          BY <4>1, <4>4
        <4>6. k.id \in IdsOf(q.rows.tasks)
          BY <4>4 DEF IdsOf
        <4> QED
          BY <1>6, <4>2, <4>4, <4>5, <4>6
      <3> QED
        BY <3>1, <3>2
    <2> QED
      BY <1>7, <2>2, <2>4, <2>5, <2>6 DEF RowInv
  <1>12. r.rows.apps = {} /\ r.rows.docs = {} /\ r.rows.tasks = {} /\ r.rows.runs = {}
    BY <1>3 DEF NoRows
  <1>13. \A u \in Req \ {t} : \A a \in req[u].rows.apps, b \in q.rows.apps : a.external # b.external
    BY DEF CaseInv, KeysApart
  <1>14. RequestInv'
    <2>1. Whole(t, r)
      BY <1>3, FreshIsWhole
    <2>2. \A u \in Req : Whole(u, req'[u])
      BY <1>4, <2>1 DEF CaseInv, RequestInv
    <2>3. Linked(t)'
      BY <1>3, <1>4, <1>12 DEF Linked, IdsOf
    <2>4. ASSUME NEW u \in Req \ {t}
          PROVE  Linked(u)'
      <3>1. Linked(u)
        BY DEF CaseInv, RequestInv
      <3>2. \A a \in req[u].rows.apps : ~Known(a.external)'
        BY <1>1, <1>13, <3>1 DEF Linked, Known
      <3> QED
        BY <1>1, <1>4, <1>6, <3>1, <3>2 DEF Linked
    <2> QED
      BY <1>4, <2>2, <2>3, <2>4 DEF RequestInv
  <1>15. KeysApart'
    BY <1>4, <1>12 DEF CaseInv, KeysApart
  <1>16. BillInv'
    <2> SUFFICES ASSUME NEW id \in billed
                 PROVE  /\ id \in Ids /\ req'[id[1]].pc # "idle"
                        /\ req'[id[1]].pc \notin {"done", "failed"} => id \in IdsOf(req'[id[1]].made)
      BY <1>1 DEF BillInv
    <2>1. /\ id \in Ids /\ id[1] \in Req /\ req[id[1]].pc # "idle"
          /\ req[id[1]].pc \notin {"done", "failed"} => id \in IdsOf(req[id[1]].made)
      BY DEF CaseInv, BillInv, Ids
    <2>2. CASE id[1] = t
      BY <1>3, <1>4, <2>1, <2>2
    <2>3. CASE id[1] # t
      BY <1>4, <2>1, <2>3
    <2> QED
      BY <2>2, <2>3
  <1>17. OneApplicationEach'
    <2>1. \A a \in apps, b \in q.rows.apps : a.external # b.external
      BY <1>10 DEF Known
    <2>2. \A a, b \in q.rows.apps : a = b
      BY <1>9
    <2> QED
      BY <1>1, <2>1, <2>2 DEF CaseInv, OneApplicationEach
  <1>18. \A run \in agentRuns : run.id[1] \in Req \ {t} /\ req'[run.id[1]] = req[run.id[1]]
    <2>1. \A run \in agentRuns : run.id[1] \in Req /\ req[run.id[1]].pc = "done"
      BY DEF CaseInv, RunsAreWhole, RowInv, RunRow, Ids
    <2> QED
      BY <1>1, <1>4, <2>1
  <1>19. RunsAreWhole'
    <2>1. ledger' = {run.id : run \in agentRuns'}
      BY <1>1 DEF CaseInv, RunsAreWhole
    <2>2. IdsOf(Escalated(agentRuns')) = IdsOf(tasks')
      <3>1. IdsOf(Escalated(agentRuns')) = IdsOf(Escalated(agentRuns)) \cup IdsOf(Escalated(q.rows.runs))
        BY <1>1 DEF IdsOf, Escalated
      <3>2. IdsOf(Escalated(agentRuns)) = IdsOf(tasks)
        BY DEF CaseInv, RunsAreWhole, IdsOf, Escalated
      <3>3. CASE q.op = "resolve"
        <4>1. IdsOf(Escalated(q.rows.runs)) = {}
          BY <1>9, <3>3 DEF IdsOf, Escalated
        <4> QED
          BY <1>6, <1>10, <3>1, <3>2, <3>3, <4>1
      <3>4. CASE q.op # "resolve"
        BY <1>6, <1>9, <3>1, <3>2, <3>4
      <3> QED
        BY <3>3, <3>4
    <2>3. \A run \in agentRuns' : req'[run.id[1]].pc = "done"
      <3>1. \A run \in agentRuns : req'[run.id[1]].pc = "done"
        BY <1>18 DEF CaseInv, RunsAreWhole
      <3>2. \A run \in q.rows.runs : req'[run.id[1]].pc = "done"
        BY <1>3, <1>4, <1>9
      <3> QED
        BY <1>1, <3>1, <3>2
    <2>4. ASSUME NEW run \in agentRuns', req'[run.id[1]].op = "appraise"
          PROVE  \E k \in tasks' : k.id[1] = run.id[1]
      <3>1. CASE run \in agentRuns
        <4>1. PICK k \in tasks : k.id[1] = run.id[1]
          BY <1>18, <2>4, <3>1 DEF CaseInv, RunsAreWhole
        <4>2. k.id \in IdsOf(tasks')
          BY <1>6 DEF IdsOf
        <4> QED
          BY <4>1, <4>2 DEF IdsOf
      <3>2. CASE run \notin agentRuns
        <4>1. run \in q.rows.runs /\ run.id[1] = t /\ q.op = "appraise"
          BY <1>1, <1>3, <1>4, <1>9, <2>4, <3>2
        <4>2. PICK e \in Escalated(q.rows.runs) : TRUE
          BY <1>9, <4>1
        <4>3. e \in q.rows.runs /\ e.id[1] = t /\ e \in Escalated(agentRuns')
          BY <1>1, <1>9, <4>2 DEF Escalated
        <4>4. e.id \in IdsOf(tasks')
          BY <2>2, <4>3 DEF IdsOf
        <4>5. PICK k \in tasks' : k.id = e.id
          BY <4>4 DEF IdsOf
        <4> QED
          BY <4>1, <4>3, <4>5
      <3> QED
        BY <3>1, <3>2
    <2>5. ASSUME NEW id \in billed', req'[id[1]].pc = "done"
          PROVE  id \in ledger'
      <3>1. id \in billed /\ id \in Ids /\ id[1] \in Req
        BY <1>1 DEF CaseInv, BillInv, Ids
      <3>2. CASE id[1] = t
        <4>1. id \in IdsOf(q.made)
          BY <1>1, <3>1, <3>2 DEF CaseInv, BillInv
        <4> QED
          BY <1>1, <1>9, <4>1 DEF IdsOf
      <3>3. CASE id[1] # t
        <4>1. req[id[1]].pc = "done"
          BY <1>4, <2>5, <3>1, <3>3
        <4> QED
          BY <1>1, <3>1, <4>1 DEF CaseInv, RunsAreWhole
      <3> QED
        BY <3>2, <3>3
    <2> QED
      BY <2>1, <2>2, <2>3, <2>4, <2>5 DEF RunsAreWhole, IdsOf, Escalated
  <1>20. TaskSaysWhatTheLogSays'
    <2> DEFINE Now(k) == {i \in 1..Len(trail) : trail[i].op = "resolve" /\ trail[i].about = k.id}
               Next(k) == {i \in 1..Len(trail') : trail'[i].op = "resolve" /\ trail'[i].about = k.id}
    <2>1. ASSUME NEW k \in tasks'
          PROVE  \/ k.status = "open" /\ Next(k) = {}
                 \/ \E i \in Next(k) : /\ \A j \in Next(k) : j <= i
                                       /\ trail'[i].resolution = k.resolution
      <3>1. CASE k \notin q.rows.tasks
        <4>1. k \in tasks /\ \A n \in q.rows.tasks : n.id # k.id
          BY <1>1, <3>1
        <4>2. \A i \in 1..Len(q.log) : ~(q.log[i].op = "resolve" /\ q.log[i].about = k.id)
          BY <1>8, <1>9, <4>1
        <4>3. Next(k) = Now(k)
          <5>1. ASSUME NEW i \in 1..Len(trail'), i \notin 1..Len(trail)
                PROVE  ~(trail'[i].op = "resolve" /\ trail'[i].about = k.id)
            <6> DEFINE j == i - Len(trail)
            <6>1. j \in 1..Len(q.log) /\ i = Len(trail) + j
              BY <1>7, <5>1
            <6> HIDE DEF j
            <6> QED
              BY <1>7, <4>2, <6>1
          <5>2. \A i \in 1..Len(trail) : i \in 1..Len(trail') /\ trail'[i] = trail[i]
            BY <1>7
          <5> QED
            BY <5>1, <5>2
        <4>4. \A i \in Now(k) : trail'[i] = trail[i]
          BY <1>7
        <4>5. \/ k.status = "open" /\ Now(k) = {}
              \/ \E i \in Now(k) : /\ \A j \in Now(k) : j <= i
                                   /\ trail[i].resolution = k.resolution
          BY <4>1 DEF CaseInv, TaskSaysWhatTheLogSays
        <4> HIDE DEF Now, Next
        <4> QED
          BY <4>3, <4>4, <4>5
      <3>2. CASE k \in q.rows.tasks /\ q.op = "resolve"
        <4>1. /\ Len(q.log) = 1 /\ q.log[1].op = "resolve" /\ q.log[1].about = k.id
              /\ q.log[1].resolution = k.resolution
          BY <1>8, <3>2
        <4>2. Len(trail') = Len(trail) + 1 /\ trail'[Len(trail) + 1] = q.log[1]
          BY <1>7, <4>1
        <4>3. Len(trail) + 1 \in Next(k) /\ \A j \in Next(k) : j <= Len(trail) + 1
          BY <1>7, <4>1, <4>2
        <4> HIDE DEF Next
        <4> QED
          BY <4>1, <4>2, <4>3
      <3>3. CASE k \in q.rows.tasks /\ q.op # "resolve"
        <4>1. k.status = "open"
          BY <1>9, <3>3
        <4>2. k.id \in IdsOf(q.rows.runs)
          BY <1>9, <3>3 DEF IdsOf, Escalated
        <4>3. k.id[1] = t
          BY <1>9, <4>2 DEF IdsOf
        <4>4. k.id \notin IdsOf(tasks)
          <5>1. ASSUME NEW id \in IdsOf(tasks)
                PROVE  id[1] # t
            <6>1. id \in {run.id : run \in {a \in agentRuns : a.escalated}}
              BY DEF CaseInv, RunsAreWhole, IdsOf
            <6>2. PICK run \in agentRuns : run.id = id
              BY <6>1
            <6> QED
              BY <1>18, <6>2
          <5> QED
            BY <4>3, <5>1
        <4>5. \A i \in 1..Len(trail') : ~(trail'[i].op = "resolve" /\ trail'[i].about = k.id)
          <5> SUFFICES ASSUME NEW i \in 1..Len(trail')
                       PROVE  ~(trail'[i].op = "resolve" /\ trail'[i].about = k.id)
            OBVIOUS
          <5>1. CASE i \in 1..Len(trail)
            BY <1>7, <4>4, <5>1 DEF CaseInv, RowInv
          <5>2. CASE i \notin 1..Len(trail)
            <6> DEFINE j == i - Len(trail)
            <6>1. j \in 1..Len(q.log) /\ i = Len(trail) + j
              BY <1>7, <5>2
            <6> HIDE DEF j
            <6> QED
              BY <1>7, <1>9, <3>3, <6>1
          <5> QED
            BY <5>1, <5>2
        <4> QED
          BY <4>1, <4>5
      <3> QED
        BY <3>1, <3>2, <3>3
    <2> QED
      BY <2>1 DEF TaskSaysWhatTheLogSays
  <1> QED
    BY <1>11, <1>14, <1>15, <1>16, <1>17, <1>19, <1>20 DEF CaseInv

(* Nothing is lost or made up by any step of any request. *)
LEMMA CaseStep ==
    ASSUME CaseInv, [CaseNext]_<<caseVars, appendVars>>
    PROVE  CaseInv'
  <1>1. CASE UNCHANGED <<caseVars, appendVars>>
    <2> USE <1>1 DEF caseVars, appendVars
    <2>1. RowInv'
      BY DEF CaseInv, RowInv
    <2>4. OneApplicationEach'
      BY DEF CaseInv, OneApplicationEach
    <2>5. RunsAreWhole'
      BY DEF CaseInv, RunsAreWhole
    <2>6. TaskSaysWhatTheLogSays'
      BY DEF CaseInv, TaskSaysWhatTheLogSays
    <2>2. KeysApart' /\ BillInv'
      BY DEF CaseInv, KeysApart, BillInv
    <2>3. RequestInv'
      BY DEF CaseInv, RequestInv, Linked, Known
    <2> QED
      BY <2>1, <2>2, <2>3, <2>4, <2>5, <2>6 DEF CaseInv
  <1>2. ASSUME NEW t \in Req, Step(t)
        PROVE  CaseInv'
    <2>1. CASE AppendRefused(t)
      BY <2>1, Fails DEF AppendRefused
    <2> QED
      BY <1>2, <2>1, Inserts, Stores, RunsAStage, Persists, ReadsTail, Appends, Commits DEF Step
  <1>3. ASSUME NEW t \in Req, Abort(t)
        PROVE  CaseInv'
    BY <1>3, Fails DEF Abort
  <1> QED
    BY <1>1, <1>2, <1>3, Arrivals DEF CaseNext

(* Before any request there are the applications received earlier. *)
LEMMA CaseInitial ==
    ASSUME CaseInit
    PROVE  CaseInv
  <1>1. /\ apps = {[external |-> x, by |-> Null] : x \in Received}
        /\ docs = {} /\ agentRuns = {} /\ ledger = {} /\ tasks = {} /\ trail = <<>>
        /\ blobs = {} /\ billed = {} /\ req = [t \in Req |-> New]
        /\ entries = 0 /\ appended = [t \in Req |-> 0]
    BY DEF CaseInit, AppendInit
  <1>2. RowInv
    BY <1>1, CaseFileAssumption DEF RowInv, AppRow
  <1>3. /\ New.rows.apps = {} /\ New.rows.docs = {} /\ New.rows.tasks = {} /\ New.log = <<>>
        /\ New \in Requests /\ New.op = "none" /\ New.pc = "idle"
    BY NewFields DEF NoRows
  <1>4. \A t \in Req : Whole(t, New)
    BY NewFields, FreshIsWhole
  <1>5. RequestInv
    BY <1>1, <1>3, <1>4 DEF RequestInv, Linked
  <1>6. KeysApart /\ BillInv /\ OneApplicationEach /\ RunsAreWhole /\ TaskSaysWhatTheLogSays
    BY <1>1, <1>3 DEF KeysApart, BillInv, OneApplicationEach, RunsAreWhole,
                      TaskSaysWhatTheLogSays
  <1> QED
    BY <1>2, <1>5, <1>6 DEF CaseInv

(* The inductive invariant holds in every state of the case file. *)
THEOREM CaseInvAlways == CaseSpec => []CaseInv
  BY CaseInitial, CaseStep, PTL DEF CaseSpec

(***************************************************************************)
(* The case file is whole whatever requests meet and wherever they fail:   *)
(* a document row has its object, an external id has one application, runs *)
(* have their ledger rows and tasks, and a task says what its last audit   *)
(* entry says (applications.py, documents.py, persist_run, tasks.py).      *)
(***************************************************************************)
THEOREM CaseInvariantAlways == CaseSpec => []CaseInvariant
  <1>1. ASSUME CaseInv
        PROVE  CaseInvariant
    <2>1. /\ \A a \in apps : a.external \in External
          /\ blobs \subseteq Req /\ docs \subseteq blobs /\ Len(trail) = entries
      BY <1>1 DEF CaseInv, RowInv, AppRow
    <2>2. \A k \in tasks : /\ k.id[1] \in Req /\ k.status \in {"open", "resolved"}
                           /\ k.status = "resolved" <=> k.resolution \in Resolution
      BY <1>1 DEF CaseInv, RowInv, TaskRow, Ids
    <2>3. \A t \in Req : req[t].pc \in Status
      BY <1>1 DEF CaseInv, RequestInv, Requests
    <2> QED
      BY <1>1, <2>1, <2>2, <2>3 DEF CaseInvariant, CaseTypeOK, CaseInv
  <1> QED
    BY <1>1, CaseInvAlways, PTL

(* One request at a time has uncommitted entries. *)
OneAtTheTail == \A t, u \in Req : appended[t] # 0 /\ appended[u] # 0 => t = u

(* An entry joins its own request's, and only when no other has any. *)
LEMMA OneStaysAtTheTail ==
    ASSUME CaseInv, OneAtTheTail, [CaseNext]_<<caseVars, appendVars>>
    PROVE  OneAtTheTail'
  <1> appended \in [Req -> Nat]
    BY DEF CaseInv, RequestInv
  <1>1. ASSUME UNCHANGED appended
        PROVE  OneAtTheTail'
    BY <1>1 DEF OneAtTheTail
  <1>2. ASSUME NEW t \in Req, EntriesRolledBack(t) \/ EntriesCommitted(t)
        PROVE  OneAtTheTail'
    BY <1>2 DEF OneAtTheTail, EntriesRolledBack, EntriesCommitted
  <1>3. ASSUME NEW t \in Req, EntryAdded(t)
        PROVE  OneAtTheTail'
    BY <1>3 DEF OneAtTheTail, EntryAdded
  <1>4. ASSUME NEW t \in Req, Step(t)
        PROVE  OneAtTheTail'
    <2>1. CASE InsertApplication(t)
      BY <1>1, <1>2, <2>1 DEF InsertApplication, Goes, Fail, appendVars
    <2>2. CASE StoreDocument(t) \/ RunStage(t) \/ PersistRun(t)
      BY <1>1, <2>2 DEF StoreDocument, RunStage, PersistRun, Goes, appendVars
    <2>3. CASE ReadTail(t)
      BY <1>1, <2>3 DEF ReadTail, TailRead
    <2>4. CASE AppendEntry(t)
      BY <1>3, <2>4 DEF AppendEntry
    <2>5. CASE AppendRefused(t) \/ Commit(t)
      BY <1>2, <2>5 DEF AppendRefused, Fail, Commit
    <2> QED
      BY <1>4, <2>1, <2>2, <2>3, <2>4, <2>5 DEF Step
  <1>5. ASSUME NEW t \in Req, Abort(t)
        PROVE  OneAtTheTail'
    BY <1>2, <1>5 DEF Abort, Fail
  <1>6. ASSUME NEW t \in Req, Arrive(t)
        PROVE  OneAtTheTail'
    <2>1. UNCHANGED appended
      BY <1>6 DEF Arrive, CreateApplication, Appraise, UploadDocument, RunOneAgent,
                  ResolveTask, Goes, appendVars
    <2> QED
      BY <1>1, <2>1
  <1> QED
    BY <1>1, <1>4, <1>5, <1>6 DEF CaseNext, appendVars

(* A request that has written has an entry to add, or has added it.        *)
LEMMA SomebodyIsFree ==
    ASSUME CaseInv, OneAtTheTail
    PROVE  SomebodyGoesOn
  <1> SUFFICES ASSUME \A t \in Busy : HeldUp(t), Busy # {}
               PROVE  FALSE
    BY DEF SomebodyGoesOn
  <1>1. \A t \in Req : /\ Whole(t, req[t]) /\ Len(req[t].log) = appended[t]
                       /\ appended[t] \in Nat
    BY DEF CaseInv, RequestInv, Linked
  <1>2. ASSUME NEW t \in Req, appended[t] # 0
        PROVE  t \in Busy
    <2>1. req[t].log # <<>>
      BY <1>1, <1>2
    <2> QED
      BY <1>1, <2>1 DEF Whole, Busy
  <1>3. ASSUME NEW t \in Busy, req[t].pc = "append"
        PROVE  FALSE
    <2>1. PICK u \in Req \ {t} : appended[u] # 0
      BY <1>3 DEF HeldUp
    <2>2. HeldUp(u)
      BY <1>2, <2>1
    <2>3. CASE req[u].pc = "insert"
      <3>1. req[u].log = <<>>
        BY <1>1, <2>3 DEF Whole
      <3> QED
        BY <1>1, <2>1, <3>1
    <2>4. CASE \E v \in Req \ {u} : appended[v] # 0
      BY <2>1, <2>4 DEF OneAtTheTail
    <2> QED
      BY <2>2, <2>3, <2>4 DEF HeldUp
  <1>4. \A t \in Busy : req[t].pc = "insert" /\ KeyInFlight(t)
    BY <1>3 DEF HeldUp
  <1>5. \A u \in Req : req[u].rows.apps = {}
    BY <1>1, <1>4 DEF Whole, Busy, NoRows
  <1> QED
    BY <1>4, <1>5 DEF KeyInFlight, Busy

(***************************************************************************)
(* The requests at work on a case file never all wait for each other: an   *)
(* insert waits for an application that another request has written, that  *)
(* one for the end of the audit log, and whoever has entries there waits   *)
(* for nobody (applications.py, runs.py, AuditRepository.append).          *)
(***************************************************************************)
THEOREM CaseRequestsGoOn == CaseSpec => []SomebodyGoesOn
  <1>1. CaseInit => OneAtTheTail
    BY DEF CaseInit, AppendInit, OneAtTheTail
  <1>2. CaseInv /\ OneAtTheTail /\ [CaseNext]_<<caseVars, appendVars>> => OneAtTheTail'
    BY OneStaysAtTheTail
  <1>3. CaseInv /\ OneAtTheTail => SomebodyGoesOn
    BY SomebodyIsFree
  <1> QED
    BY <1>1, <1>2, <1>3, CaseInvAlways, PTL DEF CaseSpec

-----------------------------------------------------------------------------
(* The guards of the provider. *)

-----------------------------------------------------------------------------
(* The client and its breaker.                                             *)

(* The state of the client and its breaker. *)
HttpTypeOK ==
    /\ failures \in Nat /\ open \in BOOLEAN /\ age \in 0..Reset
    /\ sending \in [Caller -> [pc : {"rest", "sent", "backoff"}, tries : 0..Attempts]]
    /\ \A c \in Caller : /\ sending[c].pc = "rest" <=> sending[c].tries = 0
                         /\ sending[c].pc = "backoff" => sending[c].tries < Attempts
    /\ up \in BOOLEAN
    /\ streak \in 0..Threshold /\ leaked \in Nat /\ probes \in 0..2

(* The count of the breaker never runs ahead of the failures there were. *)
CountInv ==
    /\ open <=> failures >= Threshold
    /\ AtMost(failures, Threshold) <= streak

(* While the breaker is open no request starts, so each leak is a resend   *)
(* of its own: a caller, and an attempt that caller is past.               *)
LeakInv ==
    IF open THEN \E S \in SUBSET (Caller \X (2..Attempts)) :
                    /\ IsFiniteSet(S) /\ Cardinality(S) = leaked
                    /\ \A p \in S : sending[p[1]].pc # "rest" => p[2] <= sending[p[1]].tries
            ELSE leaked = 0

HttpInv == HttpTypeOK /\ CountInv /\ LeakInv

(* The three hold of the client throughout. *)
THEOREM HttpInvariance == HttpSpec => []HttpInv
  <1> USE SarvamHTTPAssumption
  <1>1. HttpInit => HttpInv
    <2> SUFFICES ASSUME HttpInit PROVE HttpInv
      OBVIOUS
    <2>1. ~open /\ open \in BOOLEAN /\ up \in BOOLEAN
      BY DEF HttpInit
    <2>2. HttpTypeOK
      BY <2>1 DEF HttpInit, HttpTypeOK, Resting
    <2>3. CountInv
      BY <2>1 DEF HttpInit, CountInv, AtMost
    <2>4. LeakInv
      BY <2>1 DEF HttpInit, LeakInv
    <2> QED
      BY <2>2, <2>3, <2>4 DEF HttpInv
  <1>2. HttpInv /\ [HttpNext]_httpVars => HttpInv'
    <2> SUFFICES ASSUME HttpInv, [HttpNext]_httpVars
                 PROVE  HttpInv'
      OBVIOUS
    <2> USE DEF HttpInv, HttpTypeOK, CountInv, Resting
    <2>1. ASSUME NEW c \in Caller, Answered(c)
          PROVE  HttpInv'
      <3>1. /\ failures' = 0 /\ age' = 0 /\ streak' = 0 /\ leaked' = 0 /\ probes' = 0 /\ up' = up
            /\ sending' = [sending EXCEPT ![c] = Resting]
        BY <2>1 DEF Answered, RecordSuccess, Ends
      <3>2. ~open' /\ open' \in BOOLEAN
        BY <2>1 DEF Answered, RecordSuccess
      <3>3. LeakInv'
        BY <3>1, <3>2 DEF LeakInv
      <3> QED
        BY <3>1, <3>2, <3>3 DEF AtMost
    <2>2. ASSUME NEW c \in Caller, AuthRefused(c) \/ TransientFailure(c)
          PROVE  HttpInv'
      <3>1. RecordFailure /\ sending[c].pc = "sent" /\ up' = up
        BY <2>2 DEF AuthRefused, TransientFailure
      <3>2. /\ sending' \in [Caller -> [pc : {"rest", "sent", "backoff"}, tries : 0..Attempts]]
            /\ \A d \in Caller : d # c => sending'[d] = sending[d]
            /\ \/ sending'[c] = Resting
               \/ sending[c].tries < Attempts
                  /\ sending'[c] = [pc |-> "backoff", tries |-> sending[c].tries]
        <4>1. CASE sending' = [sending EXCEPT ![c] = Resting]
          BY <4>1
        <4>2. CASE sending' = [sending EXCEPT ![c] = IF @.tries = Attempts THEN Resting
                                                    ELSE [@ EXCEPT !.pc = "backoff"]]
          BY <4>2
        <4> QED
          BY <2>2, <4>1, <4>2 DEF AuthRefused, TransientFailure, Ends
      <3>5. open' \in BOOLEAN /\ (open' <=> open \/ failures + 1 >= Threshold)
        BY <3>1, Zenon DEF RecordFailure
      <3>6. /\ failures' = failures + 1 /\ leaked' = leaked /\ probes' = 0
            /\ streak' = AtMost(streak + 1, Threshold) /\ age' \in {age, 0}
        BY <3>1 DEF RecordFailure
      <3>3. HttpTypeOK' /\ CountInv'
        <4>1. failures' >= Threshold <=> open'
          BY <3>5, <3>6
        <4>2. AtMost(failures', Threshold) <= streak' /\ streak' \in 0..Threshold
          BY <3>6 DEF AtMost
        <4>3. HttpTypeOK'
          BY <3>1, <3>2, <3>5, <3>6, <4>2
        <4> QED
          BY <4>1, <4>2, <4>3
      <3>4. LeakInv'
        <4>1. CASE open
          <5>1. PICK S \in SUBSET (Caller \X (2..Attempts)) :
                    /\ IsFiniteSet(S) /\ Cardinality(S) = leaked
                    /\ \A p \in S : sending[p[1]].pc # "rest" => p[2] <= sending[p[1]].tries
            BY <4>1 DEF LeakInv
          <5>2. \A p \in S : sending'[p[1]].pc # "rest" => p[2] <= sending'[p[1]].tries
            BY <3>1, <3>2, <5>1
          <5>3. open' /\ leaked' = leaked
            BY <3>5, <3>6, <4>1
          <5> QED
            BY <5>1, <5>2, <5>3 DEF LeakInv
        <4>2. CASE ~open
          <5>1. leaked' = 0
            BY <3>6, <4>2 DEF LeakInv
          <5>2. {} \in SUBSET (Caller \X (2..Attempts)) /\ IsFiniteSet({}) /\ Cardinality({}) = 0
            BY FS_EmptySet
          <5> QED
            BY <5>1, <5>2 DEF LeakInv
        <4> QED
          BY <4>1, <4>2
      <3> QED
        BY <3>3, <3>4
    <2>3. ASSUME NEW c \in Caller, Request(c)
          PROVE  HttpInv'
      <3>1. ~open' /\ leaked' = 0
        BY <2>3 DEF Request, LetsThrough, LeakInv, Breaker
      <3>2. LeakInv'
        BY <3>1 DEF LeakInv
      <3>4. /\ \/ UNCHANGED <<failures, age>> /\ (open' <=> open)
               \/ failures' = Threshold - 1 /\ age' = 0 /\ open
            /\ open' \in BOOLEAN /\ streak' = streak /\ probes' \in 0..2 /\ up' = up
            /\ sending' = [sending EXCEPT ![c] = [pc |-> "sent", tries |-> 1]]
        <4>1. CASE ~open /\ UNCHANGED Breaker
          <5>1. UNCHANGED <<failures, age, open>> /\ streak' = streak /\ up' = up
            BY <2>3, <4>1 DEF Request, LetsThrough, Breaker
          <5>2. probes' \in 0..2
            BY <2>3 DEF Request, LetsThrough
          <5> QED
            BY <2>3, <4>1, <5>1, <5>2 DEF Request
        <4>2. CASE open /\ open' = FALSE /\ age' = 0 /\ failures' = Threshold - 1
                   /\ probes' = 1 /\ streak' = streak
          <5>1. open' \in BOOLEAN
            BY <4>2
          <5>2. probes' \in 0..2
            BY <4>2
          <5> QED
            BY <2>3, <4>2, <5>1, <5>2 DEF Request
        <4> QED
          BY <2>3, <4>1, <4>2 DEF Request, LetsThrough
      <3>3. HttpTypeOK' /\ CountInv'
        BY <3>1, <3>4 DEF AtMost
      <3> QED
        BY <3>2, <3>3
    <2>4. ASSUME NEW c \in Caller, Resend(c)
          PROVE  HttpInv'
      <3> DEFINE n == sending[c].tries + 1
      <3>1. /\ n \in 2..Attempts /\ sending' = [sending EXCEPT ![c] = [pc |-> "sent", tries |-> n]]
            /\ leaked' = IF open THEN leaked + 1 ELSE leaked
            /\ UNCHANGED <<failures, open, age, up, streak, probes>>
            /\ sending[c].pc # "rest"
        BY <2>4 DEF Resend, Breaker
      <3>2. HttpTypeOK' /\ CountInv'
        BY <3>1
      <3>3. LeakInv'
        <4>1. CASE open
          <5>1. PICK S \in SUBSET (Caller \X (2..Attempts)) :
                    /\ IsFiniteSet(S) /\ Cardinality(S) = leaked
                    /\ \A p \in S : sending[p[1]].pc # "rest" => p[2] <= sending[p[1]].tries
            BY <4>1 DEF LeakInv
          <5> DEFINE T == S \cup {<<c, n>>}
          <5>2. <<c, n>> \notin S
            <6>1. <<c, n>> \in S => n <= sending[c].tries
              BY <3>1, <5>1
            <6> QED
              BY <3>1, <6>1
          <5>3. IsFiniteSet(T) /\ Cardinality(T) = leaked + 1
            BY <5>1, <5>2, FS_AddElement
          <5>4. \A p \in T : sending'[p[1]].pc # "rest" => p[2] <= sending'[p[1]].tries
            <6>1. ASSUME NEW p \in S, p[1] = c
                  PROVE  p[2] <= sending'[p[1]].tries
              <7>1. p[2] <= sending[c].tries /\ p[2] \in 2..Attempts
                BY <3>1, <5>1, <6>1
              <7> QED
                BY <3>1, <6>1, <7>1
            <6>2. ASSUME NEW p \in S, p[1] # c, sending'[p[1]].pc # "rest"
                  PROVE  p[2] <= sending'[p[1]].tries
              BY <3>1, <5>1, <6>2
            <6> QED
              BY <3>1, <6>1, <6>2
          <5>5. T \in SUBSET (Caller \X (2..Attempts))
            BY <3>1
          <5> HIDE DEF T
          <5> QED
            BY <3>1, <4>1, <5>3, <5>4, <5>5 DEF LeakInv
        <4>2. CASE ~open
          BY <3>1, <4>2 DEF LeakInv
        <4> QED
          BY <4>1, <4>2
      <3> QED
        BY <3>2, <3>3
    <2>5. ASSUME NEW c \in Caller, Unrecorded(c)
          PROVE  HttpInv'
      <3>1. /\ sending' = [sending EXCEPT ![c] = Resting]
            /\ UNCHANGED <<failures, open, age, up, streak, leaked, probes>>
        BY <2>5 DEF Unrecorded, Ends, Breaker, History
      <3>2. HttpTypeOK' /\ CountInv'
        BY <3>1
      <3>3. \A p \in Caller \X (2..Attempts) :
              sending'[p[1]].pc # "rest" => sending'[p[1]] = sending[p[1]]
        BY <3>1
      <3>4. LeakInv'
        BY <3>1, <3>3 DEF LeakInv
      <3> QED
        BY <3>2, <3>4
    <2>6. CASE ClockTicks
      BY <2>6 DEF ClockTicks, History, LeakInv
    <2>7. CASE ProviderChanges
      <3>1. up' \in BOOLEAN /\ UNCHANGED <<failures, open, age, sending, streak, leaked, probes>>
        BY <2>7, Zenon DEF ProviderChanges, Breaker, History
      <3> QED
        BY <3>1 DEF LeakInv
    <2>8. CASE UNCHANGED httpVars
      BY <2>8 DEF httpVars, LeakInv
    <2> QED
      BY <2>1, <2>2, <2>3, <2>4, <2>5, <2>6, <2>7, <2>8 DEF HttpNext, AnswerTo
  <1> QED
    BY <1>1, <1>2, PTL DEF HttpSpec

(* The breaker is open only while the provider fails, and what is sent     *)
(* meanwhile is bounded by what was under way.                             *)
THEOREM BreakerSparesAlways == HttpSpec => []BreakerSparesTheProvider
  <1> USE SarvamHTTPAssumption
  <1>1. HttpInv => OpenMeansFailing
    BY DEF HttpInv, HttpTypeOK, CountInv, OpenMeansFailing, AtMost
  <1>2. HttpInv => LeakIsBounded
    <2> SUFFICES ASSUME HttpInv PROVE LeakIsBounded
      OBVIOUS
    <2>1. /\ IsFiniteSet(2..Attempts) /\ Cardinality(2..Attempts) = Attempts - 1
          /\ Cardinality(Caller) \in Nat
      <3>1. Attempts \in Int /\ 2 \in Int
        OBVIOUS
      <3>2. /\ IsFiniteSet(2..Attempts)
            /\ Cardinality(2..Attempts) = IF 2 > Attempts THEN 0 ELSE Attempts - 2 + 1
        BY <3>1, FS_Interval
      <3>3. Cardinality(Caller) \in Nat
        BY FS_CardinalityType
      <3> QED
        BY <3>2, <3>3
    <2>2. /\ IsFiniteSet(Caller \X (2..Attempts))
          /\ Cardinality(Caller \X (2..Attempts)) = Cardinality(Caller) * (Attempts - 1)
      BY <2>1, FS_Product
    <2>3. CASE open
      <3>1. PICK S \in SUBSET (Caller \X (2..Attempts)) : Cardinality(S) = leaked
        BY <2>3 DEF HttpInv, LeakInv
      <3>2. Cardinality(S) <= Cardinality(Caller \X (2..Attempts))
        BY <2>2, FS_Subset
      <3> QED
        BY <2>2, <3>1, <3>2 DEF LeakIsBounded
    <2>4. CASE ~open
      <3>1. leaked = 0
        BY <2>4 DEF HttpInv, LeakInv
      <3>2. Cardinality(Caller) * (Attempts - 1) >= 0
        BY <2>1, <2>2, FS_CardinalityType
      <3> QED
        BY <3>1, <3>2 DEF LeakIsBounded
    <2> QED
      BY <2>3, <2>4
  <1> QED
    BY <1>1, <1>2, HttpInvariance, PTL DEF BreakerSparesTheProvider

-----------------------------------------------------------------------------
(* The governor. *)

(* The state of the governor. *)
GovTypeOK ==
    /\ tokens \in 0..Minute
    /\ queues \in [Tenant -> Seq(Call \cup {Gone})]
    /\ order \in Seq(Tenant)
    /\ call \in [Call -> [pc : {"idle", "waiting", "released"}, tenant : Tenant \cup {NoTenant}]]
    /\ \A c \in Call : IF call[c].pc = "idle" THEN call[c] = Idle ELSE call[c].tenant \in Tenant
    /\ cancels \in Nat
    /\ recent \in [1..Minute -> Nat]
    /\ passed \in [Tenant -> [Tenant -> Nat]]
    /\ unserved \in Int

At(c, t) == call[c].pc = "waiting" /\ call[c].tenant = t

(* Which caller stands where, position by position. *)
PlaceInv ==
    /\ \A i, j \in 1..Len(order) : order[i] = order[j] => i = j
    /\ \A t \in Tenant : Queued(t) <=> \E i \in 1..Len(order) : order[i] = t
    /\ \A t \in Tenant : \A i, j \in 1..Len(queues[t]) :
          queues[t][i] = queues[t][j] => i = j \/ queues[t][i] = Gone
    /\ \A t \in Tenant : \A i \in 1..Len(queues[t]) :
          queues[t][i] # Gone => At(queues[t][i], t)
    /\ \A c \in Call, t \in Tenant : At(c, t) => \E i \in 1..Len(queues[t]) : queues[t][i] = c

(* Who had a turn while a tenant waits is behind that tenant now.          *)
TurnInv ==
    \A a, b \in Tenant : Queued(a) =>
        /\ passed[a][b] <= 1
        /\ passed[a][b] = 1 =>
              \A i, j \in 1..Len(order) : order[i] = a /\ order[j] = b => i < j

(* The tokens there are, and those taken in the last k steps, never exceed *)
(* what the bucket held and what was refilled since.                       *)
BucketInv == \A k \in 1..Minute : tokens + Taken[k] * Grain <= Minute + (k - 1)

(* The places of a queue that are held by nobody. *)
GonePlaces == {p \in Tenant \X (Nat \ {0}) : p[2] <= Len(queues[p[1]]) /\ queues[p[1]][p[2]] = Gone}

Released == {c \in Call : call[c].pc = "released"}

(* Each caller that gave up accounts for one place held by nobody or for   *)
(* one token that was drawn and not used.                                  *)
TokenInv ==
    /\ IsFiniteSet(GonePlaces)
    /\ Cardinality(Released) <= unserved
    /\ unserved + Cardinality(GonePlaces) <= Cardinality(Released) + cancels

(* The tenant whose turn it is has a waiter, and what remains once it and *)
(* its oldest waiter are taken off.                                        *)
LEMMA TurnTaker ==
    ASSUME GovTypeOK, PlaceInv, order # <<>>, NEW t, t = Head(order)
    PROVE  /\ t \in Tenant /\ t = order[1] /\ Queued(t)
           /\ Len(order) \in Nat \ {0} /\ Len(queues[t]) \in Nat \ {0}
           /\ Tail(order) \in Seq(Tenant) /\ Len(Tail(order)) = Len(order) - 1
           /\ \A i \in 1..Len(order) - 1 : Tail(order)[i] = order[i + 1]
           /\ Tail(queues[t]) \in Seq(Call \cup {Gone})
           /\ Len(Tail(queues[t])) = Len(queues[t]) - 1
           /\ \A i \in 1..Len(queues[t]) - 1 : Tail(queues[t])[i] = queues[t][i + 1]
           /\ Head(queues[t]) = queues[t][1] /\ Head(queues[t]) \in Call \cup {Gone}
  <1>1. /\ t \in Tenant /\ t = order[1] /\ Len(order) \in Nat \ {0}
        /\ Tail(order) \in Seq(Tenant) /\ Len(Tail(order)) = Len(order) - 1
        /\ \A i \in 1..Len(order) - 1 : Tail(order)[i] = order[i + 1]
    BY HeadTailProperties, EmptySeq DEF GovTypeOK
  <1>2. Queued(t)
    BY <1>1 DEF PlaceInv
  <1>3. queues[t] \in Seq(Call \cup {Gone}) /\ queues[t] # <<>>
    BY <1>1, <1>2 DEF GovTypeOK, Queued
  <1>4. /\ Len(queues[t]) \in Nat \ {0}
        /\ Tail(queues[t]) \in Seq(Call \cup {Gone})
        /\ Len(Tail(queues[t])) = Len(queues[t]) - 1
        /\ \A i \in 1..Len(queues[t]) - 1 : Tail(queues[t])[i] = queues[t][i + 1]
        /\ Head(queues[t]) = queues[t][1] /\ Head(queues[t]) \in Call \cup {Gone}
    BY <1>3, HeadTailProperties, EmptySeq
  <1> QED
    BY <1>1, <1>2, <1>4

(* What one turn of the pump does, position by position. *)
LEMMA TurnGiven ==
    ASSUME GovTypeOK, PlaceInv, PumpReleases, NEW t, t = Head(order)
    PROVE  /\ t \in Tenant /\ t = order[1] /\ Queued(t)
           /\ Len(order) \in Nat \ {0} /\ Len(queues[t]) \in Nat \ {0}
           /\ queues' \in [Tenant -> Seq(Call \cup {Gone})]
           /\ \A u \in Tenant : u # t => queues'[u] = queues[u]
           /\ Len(queues'[t]) = Len(queues[t]) - 1
           /\ \A i \in 1..Len(queues[t]) - 1 : queues'[t][i] = queues[t][i + 1]
           /\ Queued(t)' <=> Len(queues[t]) # 1
           /\ order' \in Seq(Tenant)
           /\ Len(order') = IF Queued(t)' THEN Len(order) ELSE Len(order) - 1
           /\ \A i \in 1..Len(order) - 1 : order'[i] = order[i + 1]
           /\ Queued(t)' => order'[Len(order)] = t
           /\ queues[t][1] \in Call \cup {Gone}
           /\ call' = IF queues[t][1] = Gone THEN call
                      ELSE [call EXCEPT ![queues[t][1]].pc = "released"]
  <1>1. order # <<>>
    BY DEF PumpReleases
  <1> DEFINE left == Tail(queues[t])
  <1>2. /\ queues' = [queues EXCEPT ![t] = left]
        /\ order' = IF left = <<>> THEN Tail(order) ELSE Append(Tail(order), t)
        /\ call' = IF Head(queues[t]) = Gone THEN call
                   ELSE [call EXCEPT ![Head(queues[t])].pc = "released"]
    BY DEF PumpReleases
  <1>3. /\ t \in Tenant /\ t = order[1] /\ Queued(t)
        /\ Len(order) \in Nat \ {0} /\ Len(queues[t]) \in Nat \ {0}
        /\ Tail(order) \in Seq(Tenant) /\ Len(Tail(order)) = Len(order) - 1
        /\ \A i \in 1..Len(order) - 1 : Tail(order)[i] = order[i + 1]
        /\ left \in Seq(Call \cup {Gone})
        /\ Len(left) = Len(queues[t]) - 1
        /\ \A i \in 1..Len(queues[t]) - 1 : left[i] = queues[t][i + 1]
        /\ Head(queues[t]) = queues[t][1] /\ Head(queues[t]) \in Call \cup {Gone}
    BY <1>1, TurnTaker
  <1>4. left = <<>> <=> Len(queues[t]) = 1
    <2> HIDE DEF left
    <2>1. left = <<>> <=> Len(left) = 0
      BY <1>3, EmptySeq
    <2> QED
      BY <1>3, <2>1
  <1> HIDE DEF left
  <1>5. /\ queues' \in [Tenant -> Seq(Call \cup {Gone})] /\ queues'[t] = left
        /\ \A u \in Tenant : u # t => queues'[u] = queues[u]
    BY <1>2, <1>3 DEF GovTypeOK
  <1>6. Queued(t)' <=> left # <<>>
    BY <1>5 DEF Queued
  <1>7. /\ order' \in Seq(Tenant)
        /\ Len(order') = IF Queued(t)' THEN Len(order) ELSE Len(order) - 1
        /\ \A i \in 1..Len(order) - 1 : order'[i] = order[i + 1]
        /\ Queued(t)' => order'[Len(order)] = t
    <2>1. CASE left = <<>>
      BY <1>2, <1>3, <1>6, <2>1
    <2>2. CASE left # <<>>
      <3>1. order' = Append(Tail(order), t)
        BY <1>2, <2>2
      <3>2. /\ order' \in Seq(Tenant) /\ Len(order') = Len(Tail(order)) + 1
            /\ \A i \in 1..Len(Tail(order)) : order'[i] = Tail(order)[i]
            /\ order'[Len(Tail(order)) + 1] = t
        BY <1>3, <3>1, AppendProperties
      <3>3. Queued(t)'
        BY <1>6, <2>2
      <3>4. /\ Len(order') = Len(order)
            /\ \A i \in 1..Len(order) - 1 : order'[i] = order[i + 1]
            /\ order'[Len(order)] = t
        BY <1>3, <3>2
      <3> QED
        BY <3>2, <3>3, <3>4
    <2> QED
      BY <2>1, <2>2
  <1> QED
    BY <1>2, <1>3, <1>4, <1>5, <1>6, <1>7

(* What parking does to the queue and to the rotation. *)
LEMMA Parked ==
    ASSUME GovTypeOK, PlaceInv, NEW c \in Call, NEW t \in Tenant, AcquireWaits(c, t)
    PROVE  /\ queues' \in [Tenant -> Seq(Call \cup {Gone})]
           /\ \A u \in Tenant : u # t => queues'[u] = queues[u]
           /\ Len(queues[t]) \in Nat /\ Len(queues'[t]) = Len(queues[t]) + 1
           /\ \A i \in 1..Len(queues[t]) : queues'[t][i] = queues[t][i]
           /\ queues'[t][Len(queues[t]) + 1] = c
           /\ Queued(t)' /\ \A u \in Tenant : u # t => (Queued(u)' <=> Queued(u))
           /\ order' \in Seq(Tenant) /\ Len(order) \in Nat
           /\ Len(order') = IF Queued(t) THEN Len(order) ELSE Len(order) + 1
           /\ \A i \in 1..Len(order) : order'[i] = order[i]
           /\ ~Queued(t) => order'[Len(order) + 1] = t
  <1>1. /\ queues' = [queues EXCEPT ![t] = Append(@, c)]
        /\ order' = IF Queued(t) THEN order ELSE Append(order, t)
    BY DEF AcquireWaits
  <1>2. queues[t] \in Seq(Call \cup {Gone}) /\ order \in Seq(Tenant)
    BY DEF GovTypeOK
  <1>3. /\ Append(queues[t], c) \in Seq(Call \cup {Gone})
        /\ Append(queues[t], c) # <<>>
        /\ Len(queues[t]) \in Nat /\ Len(Append(queues[t], c)) = Len(queues[t]) + 1
        /\ \A i \in 1..Len(queues[t]) : Append(queues[t], c)[i] = queues[t][i]
        /\ Append(queues[t], c)[Len(queues[t]) + 1] = c
    BY <1>2, AppendProperties
  <1>4. /\ queues' \in [Tenant -> Seq(Call \cup {Gone})] /\ queues'[t] = Append(queues[t], c)
        /\ \A u \in Tenant : u # t => queues'[u] = queues[u]
    BY <1>1, <1>3 DEF GovTypeOK
  <1>5. /\ order' \in Seq(Tenant) /\ Len(order) \in Nat
        /\ Len(order') = IF Queued(t) THEN Len(order) ELSE Len(order) + 1
        /\ \A i \in 1..Len(order) : order'[i] = order[i]
        /\ ~Queued(t) => order'[Len(order) + 1] = t
    BY <1>1, <1>2, AppendProperties
  <1> QED
    BY <1>3, <1>4, <1>5 DEF Queued

(* What giving up does to the queues. *)
LEMMA Vacated ==
    ASSUME GovTypeOK, NEW c \in Call, GiveUp(c)
    PROVE  /\ queues' \in [Tenant -> Seq(Call \cup {Gone})]
           /\ \A t \in Tenant : /\ Len(queues'[t]) = Len(queues[t]) /\ Len(queues[t]) \in Nat
                                /\ Queued(t)' <=> Queued(t)
                                /\ \A i \in 1..Len(queues[t]) :
                                      queues'[t][i] = IF queues[t][i] = c THEN Gone
                                                      ELSE queues[t][i]
  <1>1. ASSUME NEW t \in Tenant
        PROVE  /\ queues'[t] \in Seq(Call \cup {Gone})
               /\ Len(queues'[t]) = Len(queues[t]) /\ Len(queues[t]) \in Nat
               /\ Queued(t)' <=> Queued(t)
               /\ \A i \in 1..Len(queues[t]) :
                     queues'[t][i] = IF queues[t][i] = c THEN Gone ELSE queues[t][i]
    <2>1. /\ queues[t] \in Seq(Call \cup {Gone}) /\ Len(queues[t]) \in Nat
          /\ \A i \in 1..Len(queues[t]) : queues[t][i] \in Call \cup {Gone}
      BY ElementOfSeq, LenProperties DEF GovTypeOK
    <2> DEFINE q == [i \in 1..Len(queues[t]) |-> IF queues[t][i] = c THEN Gone ELSE queues[t][i]]
    <2>2. q \in [1..Len(queues[t]) -> Call \cup {Gone}]
      BY <2>1
    <2>3. q \in Seq(Call \cup {Gone}) /\ Len(q) = Len(queues[t])
      <3> HIDE DEF q
      <3> QED
        BY <2>1, <2>2, SeqDef, LenProperties
    <2>4. queues'[t] = q
      BY DEF GiveUp
    <2> QED
      BY <2>1, <2>3, <2>4, EmptySeq DEF Queued
  <1>2. DOMAIN queues' = Tenant /\ queues' = [t \in Tenant |-> queues'[t]]
    BY DEF GiveUp
  <1> QED
    BY <1>1, <1>2

(* The state keeps its shape. *)
LEMMA GovTypeStep ==
    ASSUME GovTypeOK, PlaceInv, [GovernorNext]_govVars
    PROVE  GovTypeOK'
  <1>1. Limit \in Nat \ {0} /\ Grain \in Nat \ {0} /\ Minute \in Nat \ {0}
    BY GovernorAssumption DEF Minute
  <1>2. CASE UNCHANGED govVars
    BY <1>2 DEF govVars, GovTypeOK
  <1>3. CASE Tick
    <2>1. tokens' \in 0..Minute
      BY <1>1, <1>3 DEF Tick, GovTypeOK, Minute
    <2>2. recent' \in [1..Minute -> Nat]
      <3>1. \A i \in 1..Minute : i # 1 => recent[i - 1] \in Nat
        BY <1>1 DEF GovTypeOK
      <3> QED
        BY <1>3, <3>1 DEF Tick
    <2> QED
      BY <1>3, <2>1, <2>2 DEF Tick, GovTypeOK
  <1>4. ASSUME TryConsume
        PROVE  tokens' \in 0..Minute /\ recent' \in [1..Minute -> Nat]
    <2>1. tokens' \in 0..Minute
      BY <1>1, <1>4 DEF TryConsume, GovTypeOK
    <2>2. recent[1] + 1 \in Nat
      BY <1>1 DEF GovTypeOK
    <2> QED
      BY <1>4, <2>1, <2>2 DEF TryConsume, GovTypeOK
  <1>5. CASE PumpReleases
    <2> DEFINE t == Head(order)
               w == queues[t][1]
    <2>1. /\ t \in Tenant /\ queues' \in [Tenant -> Seq(Call \cup {Gone})]
          /\ order' \in Seq(Tenant) /\ w \in Call \cup {Gone}
          /\ Len(queues[t]) \in Nat \ {0}
          /\ call' = IF w = Gone THEN call ELSE [call EXCEPT ![w].pc = "released"]
      BY <1>5, TurnGiven
    <2>2. /\ call' \in [Call -> [pc : {"idle", "waiting", "released"},
                                 tenant : Tenant \cup {NoTenant}]]
          /\ \A c \in Call : IF call'[c].pc = "idle" THEN call'[c] = Idle
                             ELSE call'[c].tenant \in Tenant
      <3>1. CASE w = Gone
        BY <2>1, <3>1 DEF GovTypeOK
      <3>2. CASE w # Gone
        <4>1. w \in Call /\ call' = [call EXCEPT ![w].pc = "released"]
          BY <2>1, <3>2
        <4>2. At(w, t)
          <5>1. 1 \in 1..Len(queues[t])
            BY <2>1
          <5> QED
            BY <2>1, <3>2, <5>1 DEF PlaceInv
        <4> HIDE DEF w, t
        <4>3. call[w].tenant \in Tenant
          BY <4>1, <4>2, <2>1 DEF At
        <4> QED
          BY <4>1, <4>3 DEF GovTypeOK
      <3> QED
        BY <3>1, <3>2
    <2>3. passed' \in [Tenant -> [Tenant -> Nat]]
      <3>1. passed' = [a \in Tenant |-> IF a = t \/ ~Queued(a) THEN [b \in Tenant |-> 0]
                                       ELSE [passed[a] EXCEPT ![t] = @ + 1]]
        BY <1>5 DEF PumpReleases
      <3> HIDE DEF t
      <3>2. ASSUME NEW a \in Tenant
            PROVE  [passed[a] EXCEPT ![t] = @ + 1] \in [Tenant -> Nat]
        BY <2>1 DEF GovTypeOK
      <3> QED
        BY <3>1, <3>2
    <2>4. TryConsume /\ unserved' = unserved + 1 /\ UNCHANGED cancels
      BY <1>5 DEF PumpReleases
    <2>5. /\ tokens' \in 0..Minute /\ recent' \in [1..Minute -> Nat]
          /\ unserved' \in Int /\ cancels' \in Nat
      BY <2>4, <1>4 DEF GovTypeOK
    <2> HIDE DEF t, w
    <2> QED
      BY <2>1, <2>2, <2>3, <2>5 DEF GovTypeOK
  <1>6. CASE PumpEnds
    BY <1>6 DEF PumpEnds, GovTypeOK
  <1>7. CASE Close
    <2>1. /\ queues' \in [Tenant -> Seq(Call \cup {Gone})]
          /\ order' \in Seq(Tenant)
      BY <1>7 DEF Close
    <2>2. /\ call' \in [Call -> [pc : {"idle", "waiting", "released"},
                                 tenant : Tenant \cup {NoTenant}]]
          /\ \A c \in Call : IF call'[c].pc = "idle" THEN call'[c] = Idle
                             ELSE call'[c].tenant \in Tenant
      BY <1>7 DEF Close, GovTypeOK, Idle
    <2> QED
      BY <1>7, <2>1, <2>2 DEF Close, GovTypeOK
  <1>8. ASSUME NEW c \in Call, Resume(c)
        PROVE  GovTypeOK'
    BY <1>8 DEF Resume, GovTypeOK, Idle
  <1>9. ASSUME NEW c \in Call, GiveUp(c)
        PROVE  GovTypeOK'
    <2>1. queues' \in [Tenant -> Seq(Call \cup {Gone})]
      BY <1>9, Vacated
    <2>2. /\ call' = [call EXCEPT ![c] = Idle] /\ cancels' = cancels + 1
          /\ UNCHANGED <<tokens, order, recent, passed, unserved>>
      BY <1>9 DEF GiveUp
    <2> QED
      BY <2>1, <2>2 DEF GovTypeOK, Idle
  <1>10. ASSUME NEW c \in Call, NEW t \in Tenant, AcquireNow(c, t)
         PROVE  GovTypeOK'
    <2>1. tokens' \in 0..Minute /\ recent' \in [1..Minute -> Nat]
      BY <1>10, <1>4 DEF AcquireNow
    <2> QED
      BY <1>10, <2>1 DEF AcquireNow, GovTypeOK
  <1>11. ASSUME NEW c \in Call, NEW t \in Tenant, AcquireWaits(c, t)
         PROVE  GovTypeOK'
    <2>1. /\ queues' \in [Tenant -> Seq(Call \cup {Gone})]
          /\ order' \in Seq(Tenant)
      BY <1>11, Parked
    <2>2. /\ call' = [call EXCEPT ![c] = [pc |-> "waiting", tenant |-> t]]
          /\ passed' = IF Queued(t) THEN passed
                       ELSE [passed EXCEPT ![t] = [b \in Tenant |-> 0]]
          /\ UNCHANGED <<tokens, cancels, recent, unserved>>
      BY <1>11 DEF AcquireWaits
    <2>3. passed' \in [Tenant -> [Tenant -> Nat]]
      BY <2>2 DEF GovTypeOK
    <2> QED
      BY <2>1, <2>2, <2>3 DEF GovTypeOK
  <1> QED
    BY <1>2, <1>3, <1>5, <1>6, <1>7, <1>8, <1>9, <1>10, <1>11 DEF GovernorNext

(* Everyone keeps standing where the rotation and the queues say. *)
LEMMA PlaceStep ==
    ASSUME GovTypeOK, PlaceInv, [GovernorNext]_govVars
    PROVE  PlaceInv'
  <1>1. ASSUME UNCHANGED <<queues, order>>,
               \A c \in Call, t \in Tenant : At(c, t)' <=> At(c, t)
        PROVE  PlaceInv'
    <2>1. \A t \in Tenant : \A i \in 1..Len(queues[t]) : queues[t][i] \in Call \cup {Gone}
      BY ElementOfSeq DEF GovTypeOK
    <2> QED
      BY <1>1, <2>1 DEF PlaceInv, Queued
  <1>2. CASE UNCHANGED <<queues, order, call>>
    BY <1>1, <1>2 DEF At
  <1>3. ASSUME NEW c \in Call, Resume(c)
        PROVE  PlaceInv'
    <2>1. \A d \in Call, t \in Tenant : At(d, t)' <=> At(d, t)
      BY <1>3 DEF Resume, At, GovTypeOK, Idle
    <2> QED
      BY <1>1, <1>3, <2>1 DEF Resume
  <1>4. ASSUME NEW c \in Call, GiveUp(c)
        PROVE  PlaceInv'
    <2>1. \A t \in Tenant : /\ Len(queues'[t]) = Len(queues[t]) /\ Len(queues[t]) \in Nat
                            /\ Queued(t)' <=> Queued(t)
                            /\ \A i \in 1..Len(queues[t]) :
                                  queues'[t][i] = IF queues[t][i] = c THEN Gone
                                                  ELSE queues[t][i]
      BY <1>4, Vacated
    <2>2. /\ UNCHANGED order /\ c # Gone
          /\ \A d \in Call, t \in Tenant : At(d, t)' <=> At(d, t) /\ d # c
      BY <1>4, GovernorAssumption DEF GiveUp, At, GovTypeOK, Idle
    <2>3. \A t \in Tenant : \A i \in 1..Len(queues[t]) : queues[t][i] \in Call \cup {Gone}
      BY ElementOfSeq DEF GovTypeOK
    <2>4. \A t \in Tenant : Queued(t)' <=> \E i \in 1..Len(order') : order'[i] = t
      BY <2>1, <2>2 DEF PlaceInv
    <2>5. \A t \in Tenant : \A i, j \in 1..Len(queues'[t]) :
             queues'[t][i] = queues'[t][j] => i = j \/ queues'[t][i] = Gone
      BY <2>1 DEF PlaceInv
    <2>6. \A t \in Tenant : \A i \in 1..Len(queues'[t]) :
             queues'[t][i] # Gone => At(queues[t][i], t)'
      <3> SUFFICES ASSUME NEW t \in Tenant, NEW i \in 1..Len(queues'[t]), queues'[t][i] # Gone
                   PROVE  At(queues[t][i], t)'
        OBVIOUS
      <3>1. i \in 1..Len(queues[t]) /\ queues'[t][i] = queues[t][i] /\ queues[t][i] # c
        BY <2>1
      <3>2. At(queues[t][i], t) /\ queues[t][i] \in Call
        BY <3>1, <2>3 DEF PlaceInv
      <3> QED
        BY <3>1, <3>2, <2>2 DEF At
    <2>7. \A d \in Call, t \in Tenant : At(d, t)' => \E i \in 1..Len(queues'[t]) : queues'[t][i] = d
      BY <2>1, <2>2 DEF PlaceInv
    <2> QED
      BY <2>2, <2>4, <2>5, <2>6, <2>7 DEF PlaceInv
  <1>5. ASSUME NEW c \in Call, NEW t \in Tenant, AcquireWaits(c, t)
        PROVE  PlaceInv'
    <2> DEFINE n == Len(queues[t])
    <2>1. /\ \A u \in Tenant : u # t => queues'[u] = queues[u]
          /\ n \in Nat /\ Len(queues'[t]) = n + 1
          /\ \A i \in 1..n : queues'[t][i] = queues[t][i]
          /\ queues'[t][n + 1] = c
          /\ Queued(t)' /\ \A u \in Tenant : u # t => (Queued(u)' <=> Queued(u))
          /\ order' \in Seq(Tenant) /\ Len(order) \in Nat
          /\ Len(order') = IF Queued(t) THEN Len(order) ELSE Len(order) + 1
          /\ \A i \in 1..Len(order) : order'[i] = order[i]
          /\ ~Queued(t) => order'[Len(order) + 1] = t
      BY <1>5, Parked
    <2>2. /\ \A u \in Tenant : ~At(c, u) /\ (At(c, u)' <=> u = t)
          /\ \A d \in Call, u \in Tenant : d # c => (At(d, u)' <=> At(d, u))
      BY <1>5 DEF AcquireWaits, At, GovTypeOK, Idle
    <2>3. \A u \in Tenant : \A i \in 1..Len(queues[u]) :
             queues[u][i] \in Call \cup {Gone} /\ queues[u][i] # c
      <3>1. \A u \in Tenant : \A i \in 1..Len(queues[u]) : queues[u][i] \in Call \cup {Gone}
        BY ElementOfSeq DEF GovTypeOK
      <3> QED
        BY <3>1, <2>2, GovernorAssumption DEF PlaceInv
    <2>4. /\ \A i, j \in 1..Len(order') : order'[i] = order'[j] => i = j
          /\ \A u \in Tenant : Queued(u)' <=> \E i \in 1..Len(order') : order'[i] = u
      <3>1. CASE Queued(t)
        BY <2>1, <3>1 DEF PlaceInv
      <3>2. CASE ~Queued(t)
        <4>1. Len(order') = Len(order) + 1 /\ order'[Len(order) + 1] = t
          BY <2>1, <3>2
        <4>2. \A i \in 1..Len(order) : order[i] # t /\ order'[i] # t
          BY <2>1, <3>2 DEF PlaceInv
        <4>3. \A i, j \in 1..Len(order') : order'[i] = order'[j] => i = j
          BY <2>1, <4>1, <4>2 DEF PlaceInv
        <4>4. \A u \in Tenant : Queued(u)' <=> \E i \in 1..Len(order') : order'[i] = u
          BY <2>1, <4>1, <4>2 DEF PlaceInv
        <4> QED
          BY <4>3, <4>4
      <3> QED
        BY <3>1, <3>2
    <2>5. \A u \in Tenant : \A i, j \in 1..Len(queues'[u]) :
             queues'[u][i] = queues'[u][j] => i = j \/ queues'[u][i] = Gone
      <3> SUFFICES ASSUME NEW u \in Tenant
                   PROVE  \A i, j \in 1..Len(queues'[u]) :
                             queues'[u][i] = queues'[u][j] => i = j \/ queues'[u][i] = Gone
        OBVIOUS
      <3>1. \A i, j \in 1..Len(queues[u]) :
               queues[u][i] = queues[u][j] => i = j \/ queues[u][i] = Gone
        BY DEF PlaceInv
      <3>2. CASE u # t
        BY <2>1, <3>1, <3>2
      <3>3. CASE u = t
        <4> HIDE DEF n
        <4>1. \A i \in 1..n : queues'[u][i] # c /\ queues'[u][i] = queues[u][i]
          BY <2>1, <2>3, <3>3 DEF n
        <4>2. 1..Len(queues'[u]) = 1..(n + 1) /\ queues'[u][n + 1] = c
          BY <2>1, <3>3
        <4>3. \A i, j \in 1..n : queues'[u][i] = queues'[u][j] => i = j \/ queues'[u][i] = Gone
          BY <3>1, <3>3, <4>1 DEF n
        <4> QED
          BY <2>1, <4>1, <4>2, <4>3
      <3> QED
        BY <3>2, <3>3
    <2>6. \A u \in Tenant : \A i \in 1..Len(queues'[u]) :
             queues'[u][i] # Gone => At(queues[u][i], u)'
      <3> SUFFICES ASSUME NEW u \in Tenant, NEW i \in 1..Len(queues'[u]), queues'[u][i] # Gone
                   PROVE  At(queues[u][i], u)'
        OBVIOUS
      <3>1. CASE u = t /\ i = n + 1
        BY <2>1, <2>2, <3>1 DEF At
      <3>2. CASE ~(u = t /\ i = n + 1)
        <4>1. i \in 1..Len(queues[u]) /\ queues'[u][i] = queues[u][i]
          BY <2>1, <3>2
        <4>2. queues[u][i] \in Call /\ queues[u][i] # c /\ At(queues[u][i], u)
          BY <4>1, <2>3 DEF PlaceInv
        <4> QED
          BY <4>1, <4>2, <2>2 DEF At
      <3> QED
        BY <3>1, <3>2
    <2>7. \A d \in Call, u \in Tenant : At(d, u)' => \E i \in 1..Len(queues'[u]) : queues'[u][i] = d
      <3> SUFFICES ASSUME NEW d \in Call, NEW u \in Tenant, At(d, u)'
                   PROVE  \E i \in 1..Len(queues'[u]) : queues'[u][i] = d
        OBVIOUS
      <3>1. CASE d = c
        <4>1. u = t /\ n + 1 \in 1..Len(queues'[u]) /\ queues'[u][n + 1] = d
          BY <2>1, <2>2, <3>1
        <4> QED
          BY <4>1
      <3>2. CASE d # c
        <4>1. PICK i \in 1..Len(queues[u]) : queues[u][i] = d
          BY <2>2, <3>2 DEF PlaceInv
        <4>2. i \in 1..Len(queues'[u]) /\ queues'[u][i] = d
          BY <2>1, <4>1
        <4> QED
          BY <4>2
      <3> QED
        BY <3>1, <3>2
    <2> QED
      BY <2>4, <2>5, <2>6, <2>7 DEF PlaceInv
  <1>6. CASE PumpReleases
    <2>0. PICK t : t = Head(order)
      OBVIOUS
    <2> DEFINE w == queues[t][1]
               n == Len(queues[t])
               m == Len(order)
    <2>a. /\ t \in Tenant /\ t = order[1] /\ Queued(t)
          /\ m \in Nat \ {0} /\ n \in Nat \ {0}
          /\ \A u \in Tenant : u # t => queues'[u] = queues[u]
          /\ Len(queues'[t]) = n - 1
          /\ \A i \in 1..n - 1 : queues'[t][i] = queues[t][i + 1]
          /\ Len(order') = IF Queued(t)' THEN m ELSE m - 1
          /\ \A i \in 1..m - 1 : order'[i] = order[i + 1]
          /\ Queued(t)' => order'[m] = t
          /\ w \in Call \cup {Gone}
          /\ call' = IF w = Gone THEN call ELSE [call EXCEPT ![w].pc = "released"]
      BY <1>6, <2>0, TurnGiven
    <2>1. /\ t \in Tenant /\ t = order[1] /\ Queued(t)
          /\ m \in Nat \ {0} /\ n \in Nat \ {0}
          /\ \A u \in Tenant : u # t => queues'[u] = queues[u]
          /\ Len(queues'[t]) = n - 1
          /\ \A i \in 1..n - 1 : queues'[t][i] = queues[t][i + 1]
          /\ Len(order') = IF Queued(t)' THEN m ELSE m - 1
          /\ \A i \in 1..m - 1 : order'[i] = order[i + 1]
          /\ Queued(t)' => order'[m] = t
          /\ w \in Call \cup {Gone}
      BY <2>a
    <2>2. call' = IF w = Gone THEN call ELSE [call EXCEPT ![w].pc = "released"]
      BY <2>a
    <2>3. w # Gone => At(w, t)
      <3>1. 1 \in 1..n
        BY <2>1
      <3> QED
        BY <2>1, <3>1 DEF PlaceInv
    <2>4. \A u \in Tenant : \A i \in 1..Len(queues[u]) : queues[u][i] \in Call \cup {Gone}
      BY ElementOfSeq DEF GovTypeOK
    <2> HIDE DEF w, n, m
    <2>5. \A d \in Call, u \in Tenant : At(d, u)' <=> At(d, u) /\ d # w
      <3>1. CASE w = Gone
        BY <2>2, <3>1, GovernorAssumption DEF At
      <3>2. CASE w # Gone
        BY <2>1, <2>2, <3>2 DEF At, GovTypeOK
      <3> QED
        BY <3>1, <3>2
    <2>6. \A i, j \in 1..Len(order') : order'[i] = order'[j] => i = j
      <3>1. \A i, j \in 1..m - 1 : order'[i] = order'[j] => i = j
        BY <2>1 DEF PlaceInv, m
      <3>2. \A i \in 1..m - 1 : order'[i] # t
        BY <2>1 DEF PlaceInv, m
      <3> QED
        BY <2>1, <3>1, <3>2
    <2>7. \A u \in Tenant : Queued(u)' <=> \E i \in 1..Len(order') : order'[i] = u
      <3> SUFFICES ASSUME NEW u \in Tenant
                   PROVE  Queued(u)' <=> \E i \in 1..Len(order') : order'[i] = u
        OBVIOUS
      <3>1. CASE u = t
        <4>1. \A i \in 1..m - 1 : order'[i] # t
          BY <2>1 DEF PlaceInv, m
        <4> QED
          BY <2>1, <3>1, <4>1
      <3>2. CASE u # t
        <4>1. Queued(u)' <=> Queued(u)
          BY <2>1, <3>2 DEF Queued
        <4>2. Queued(u) <=> \E i \in 1..m : order[i] = u
          BY DEF PlaceInv, m
        <4>3. (\E i \in 1..m : order[i] = u) => \E i \in 1..Len(order') : order'[i] = u
          <5> SUFFICES ASSUME NEW i \in 1..m, order[i] = u
                       PROVE  \E k \in 1..Len(order') : order'[k] = u
            OBVIOUS
          <5>1. i - 1 \in 1..m - 1 /\ order'[i - 1] = u
            BY <2>1, <3>2
          <5>2. i - 1 \in 1..Len(order')
            BY <2>1, <5>1
          <5> QED
            BY <5>1, <5>2
        <4>4. (\E i \in 1..Len(order') : order'[i] = u) => \E i \in 1..m : order[i] = u
          <5> SUFFICES ASSUME NEW i \in 1..Len(order'), order'[i] = u
                       PROVE  \E k \in 1..m : order[k] = u
            OBVIOUS
          <5>1. i \in 1..m - 1
            BY <2>1, <3>2
          <5>2. i + 1 \in 1..m /\ order[i + 1] = u
            BY <2>1, <5>1
          <5> QED
            BY <5>2
        <4> QED
          BY <4>1, <4>2, <4>3, <4>4
      <3> QED
        BY <3>1, <3>2
    <2>8. \A u \in Tenant : \A i \in 1..Len(queues'[u]) :
             \E k \in 1..Len(queues[u]) :
                /\ queues'[u][i] = queues[u][k]
                /\ k = IF u = t THEN i + 1 ELSE i
      <3> SUFFICES ASSUME NEW u \in Tenant, NEW i \in 1..Len(queues'[u])
                   PROVE  \E k \in 1..Len(queues[u]) : /\ queues'[u][i] = queues[u][k]
                                                       /\ k = IF u = t THEN i + 1 ELSE i
        OBVIOUS
      <3>1. CASE u = t
        <4>1. i + 1 \in 1..Len(queues[u]) /\ queues'[u][i] = queues[u][i + 1]
          BY <2>1, <3>1 DEF n
        <4> QED
          BY <3>1, <4>1
      <3>2. CASE u # t
        BY <2>1, <3>2
      <3> QED
        BY <3>1, <3>2
    <2>9. \A u \in Tenant : \A i, j \in 1..Len(queues'[u]) :
             queues'[u][i] = queues'[u][j] => i = j \/ queues'[u][i] = Gone
      <3> SUFFICES ASSUME NEW u \in Tenant, NEW i \in 1..Len(queues'[u]),
                          NEW j \in 1..Len(queues'[u]), queues'[u][i] = queues'[u][j],
                          queues'[u][i] # Gone
                   PROVE  i = j
        OBVIOUS
      <3>1. PICK k \in 1..Len(queues[u]) : /\ queues'[u][i] = queues[u][k]
                                           /\ k = IF u = t THEN i + 1 ELSE i
        BY <2>8
      <3>2. PICK l \in 1..Len(queues[u]) : /\ queues'[u][j] = queues[u][l]
                                           /\ l = IF u = t THEN j + 1 ELSE j
        BY <2>8
      <3>3. k = l
        <4>1. queues[u][k] = queues[u][l] /\ queues[u][k] # Gone
          BY <3>1, <3>2
        <4> QED
          BY <4>1 DEF PlaceInv
      <3> QED
        BY <3>1, <3>2, <3>3
    <2>10. \A u \in Tenant : \A i \in 1..Len(queues'[u]) :
             queues'[u][i] # Gone => At(queues[u][i], u)'
      <3> SUFFICES ASSUME NEW u \in Tenant, NEW i \in 1..Len(queues'[u]), queues'[u][i] # Gone
                   PROVE  At(queues[u][i], u)'
        OBVIOUS
      <3>1. PICK k \in 1..Len(queues[u]) : /\ queues'[u][i] = queues[u][k]
                                           /\ k = IF u = t THEN i + 1 ELSE i
        BY <2>8
      <3>2. queues[u][k] \in Call /\ At(queues[u][k], u)
        BY <3>1, <2>4 DEF PlaceInv
      <3>3. queues[u][k] # w
        <4>1. CASE u = t
          <5>1. 1 \in 1..Len(queues[t]) /\ k \in 1..Len(queues[t]) /\ k # 1
            BY <2>1, <3>1, <4>1 DEF n
          <5> QED
            BY <2>1, <3>1, <4>1, <5>1 DEF PlaceInv, w
        <4>2. CASE u # t
          BY <2>1, <2>3, <3>1, <3>2, <4>2 DEF At
        <4> QED
          BY <4>1, <4>2
      <3>4. call'[queues[u][k]].pc = "waiting" /\ call'[queues[u][k]].tenant = u
        BY <3>2, <3>3, <2>5 DEF At
      <3> QED
        BY <3>1, <3>4 DEF At
    <2>11. \A d \in Call, u \in Tenant : At(d, u)' => \E i \in 1..Len(queues'[u]) : queues'[u][i] = d
      <3> SUFFICES ASSUME NEW d \in Call, NEW u \in Tenant, At(d, u)'
                   PROVE  \E i \in 1..Len(queues'[u]) : queues'[u][i] = d
        OBVIOUS
      <3>1. PICK k \in 1..Len(queues[u]) : queues[u][k] = d
        BY <2>5 DEF PlaceInv
      <3>2. d # w
        BY <2>5
      <3>3. CASE u = t
        <4>1. k - 1 \in 1..n - 1 /\ queues'[t][k - 1] = d /\ Len(queues'[t]) = n - 1
          BY <2>1, <3>1, <3>2, <3>3 DEF n, w
        <4> QED
          BY <3>3, <4>1
      <3>4. CASE u # t
        BY <2>1, <3>1, <3>4
      <3> QED
        BY <3>3, <3>4
    <2> QED
      BY <2>6, <2>7, <2>9, <2>10, <2>11 DEF PlaceInv
  <1>7. CASE Close
    <2>1. /\ order' = <<>> /\ \A t \in Tenant : queues'[t] = <<>>
          /\ \A c \in Call, t \in Tenant : ~At(c, t)'
      BY <1>7 DEF Close, At, Idle, GovTypeOK
    <2> QED
      BY <2>1 DEF PlaceInv, Queued
  <1>8. CASE UNCHANGED govVars \/ Tick \/ PumpEnds
    BY <1>2, <1>8 DEF govVars, Tick, PumpEnds
  <1>9. ASSUME NEW c \in Call, NEW t \in Tenant, AcquireNow(c, t)
        PROVE  PlaceInv'
    BY <1>2, <1>9 DEF AcquireNow
  <1> QED
    BY <1>3, <1>4, <1>5, <1>6, <1>7, <1>8, <1>9 DEF GovernorNext

(* Taking turns keeps whoever had one behind everyone who waits. *)
LEMMA TurnStep ==
    ASSUME GovTypeOK, PlaceInv, TurnInv, [GovernorNext]_govVars
    PROVE  TurnInv'
  <1>1. ASSUME UNCHANGED <<order, passed>>, \A t \in Tenant : Queued(t)' => Queued(t)
        PROVE  TurnInv'
    BY <1>1 DEF TurnInv
  <1>2. CASE UNCHANGED <<queues, order, passed>>
    BY <1>1, <1>2 DEF Queued
  <1>3. CASE UNCHANGED govVars \/ Tick \/ PumpEnds
    BY <1>2, <1>3 DEF govVars, Tick, PumpEnds
  <1>4. ASSUME NEW c \in Call, Resume(c)
        PROVE  TurnInv'
    BY <1>2, <1>4 DEF Resume
  <1>5. ASSUME NEW c \in Call, GiveUp(c)
        PROVE  TurnInv'
    <2>1. \A t \in Tenant : Queued(t)' => Queued(t)
      BY <1>5, Vacated
    <2> QED
      BY <1>1, <1>5, <2>1 DEF GiveUp
  <1>6. CASE Close
    BY <1>6 DEF Close, TurnInv, Queued
  <1>7. ASSUME NEW c \in Call, NEW t \in Tenant, AcquireNow(c, t)
        PROVE  TurnInv'
    BY <1>2, <1>7 DEF AcquireNow
  <1>8. ASSUME NEW c \in Call, NEW t \in Tenant, AcquireWaits(c, t)
        PROVE  TurnInv'
    <2> DEFINE m == Len(order)
    <2>1. /\ \A u \in Tenant : u # t => (Queued(u)' <=> Queued(u))
          /\ m \in Nat
          /\ Len(order') = IF Queued(t) THEN m ELSE m + 1
          /\ \A i \in 1..m : order'[i] = order[i]
          /\ ~Queued(t) => order'[m + 1] = t
      BY <1>8, Parked
    <2>2. passed' = IF Queued(t) THEN passed
                    ELSE [passed EXCEPT ![t] = [b \in Tenant |-> 0]]
      BY <1>8 DEF AcquireWaits
    <2> HIDE DEF m
    <2> SUFFICES ASSUME NEW a \in Tenant, NEW b \in Tenant, Queued(a)'
                 PROVE  /\ passed'[a][b] <= 1
                        /\ passed'[a][b] = 1 =>
                              \A i, j \in 1..Len(order') :
                                 order'[i] = a /\ order'[j] = b => i < j
      BY DEF TurnInv
    <2>3. CASE Queued(a)
      <3>1. passed'[a] = passed[a]
        BY <2>2, <2>3 DEF GovTypeOK
      <3>2. /\ passed[a][b] <= 1
            /\ passed[a][b] = 1 => \A i, j \in 1..m : order[i] = a /\ order[j] = b => i < j
        BY <2>3 DEF TurnInv, m
      <3>3. ASSUME passed[a][b] = 1, NEW i \in 1..Len(order'), NEW j \in 1..Len(order'),
                   order'[i] = a, order'[j] = b
            PROVE  i < j
        <4>1. i \in 1..m /\ order[i] = a
          BY <2>1, <2>3, <3>3
        <4>2. CASE j \in 1..m
          BY <2>1, <3>2, <3>3, <4>1, <4>2
        <4>3. CASE j \notin 1..m
          BY <2>1, <4>1, <4>3
        <4> QED
          BY <4>2, <4>3
      <3> QED
        BY <3>1, <3>2, <3>3
    <2>4. CASE ~Queued(a)
      <3>1. a = t
        BY <2>1, <2>4
      <3>2. passed'[a][b] = 0
        BY <2>2, <2>4, <3>1 DEF GovTypeOK
      <3> QED
        BY <3>2
    <2> QED
      BY <2>3, <2>4
  <1>9. CASE PumpReleases
    <2>0. PICK t : t = Head(order)
      OBVIOUS
    <2> DEFINE m == Len(order)
    <2>1. /\ t \in Tenant /\ t = order[1] /\ m \in Nat \ {0}
          /\ \A u \in Tenant : u # t => queues'[u] = queues[u]
          /\ Len(order') = IF Queued(t)' THEN m ELSE m - 1
          /\ \A i \in 1..m - 1 : order'[i] = order[i + 1]
          /\ Queued(t)' => order'[m] = t
      BY <1>9, <2>0, TurnGiven
    <2>2. passed' = [a \in Tenant |->
                        IF a = t \/ ~Queued(a) THEN [b \in Tenant |-> 0]
                        ELSE [passed[a] EXCEPT ![t] = @ + 1]]
      BY <1>9, <2>0 DEF PumpReleases
    <2>3. \A u \in Tenant : u # t => (Queued(u)' <=> Queued(u))
      BY <2>1 DEF Queued
    <2> HIDE DEF m
    <2>4. \A i \in 1..m - 1 : order'[i] # t
      BY <2>1 DEF PlaceInv, m
    <2> SUFFICES ASSUME NEW a \in Tenant, NEW b \in Tenant, Queued(a)'
                 PROVE  /\ passed'[a][b] <= 1
                        /\ passed'[a][b] = 1 =>
                              \A i, j \in 1..Len(order') :
                                 order'[i] = a /\ order'[j] = b => i < j
      BY DEF TurnInv
    <2>5. CASE a = t
      <3>1. passed'[a][b] = 0
        BY <2>2, <2>5
      <3> QED
        BY <3>1
    <2>6. CASE a # t
      <3>1. /\ Queued(a)
            /\ passed'[a] = [passed[a] EXCEPT ![t] = @ + 1]
            /\ passed[a] \in [Tenant -> Nat]
        BY <2>2, <2>3, <2>6 DEF GovTypeOK
      <3>2. \A i \in 1..Len(order') : order'[i] = a => i \in 1..m - 1 /\ order[i + 1] = a
        BY <2>1, <2>6
      <3>3. CASE b = t
        <4>1. PICK k \in 1..m : order[k] = a
          BY <3>1 DEF PlaceInv, m
        <4>2. passed[a][t] <= 1 /\ passed[a][t] # 1
          <5>1. 1 \in 1..m /\ ~(k < 1)
            BY <2>1, <4>1
          <5> QED
            BY <2>1, <3>1, <4>1, <5>1 DEF TurnInv, m
        <4>3. passed'[a][b] = 1
          BY <2>1, <3>1, <3>3, <4>2
        <4>4. ASSUME NEW i \in 1..Len(order'), NEW j \in 1..Len(order'),
                     order'[i] = a, order'[j] = b
              PROVE  i < j
          <5>1. i \in 1..m - 1 /\ j \notin 1..m - 1
            BY <2>4, <3>2, <3>3, <4>4
          <5> QED
            BY <2>1, <5>1
        <4> QED
          BY <4>3, <4>4
      <3>4. CASE b # t
        <4>1. passed'[a][b] = passed[a][b]
          BY <3>1, <3>4
        <4>2. /\ passed[a][b] <= 1
              /\ passed[a][b] = 1 => \A i, j \in 1..m : order[i] = a /\ order[j] = b => i < j
          BY <3>1 DEF TurnInv, m
        <4>3. \A i \in 1..Len(order') : order'[i] = b => i \in 1..m - 1 /\ order[i + 1] = b
          BY <2>1, <3>4
        <4>4. ASSUME passed[a][b] = 1, NEW i \in 1..Len(order'), NEW j \in 1..Len(order'),
                     order'[i] = a, order'[j] = b
              PROVE  i < j
          <5>1. /\ i \in 1..m - 1 /\ order[i + 1] = a
                /\ j \in 1..m - 1 /\ order[j + 1] = b
            BY <3>2, <4>3, <4>4
          <5>2. i + 1 \in 1..m /\ j + 1 \in 1..m
            BY <2>1, <5>1
          <5>3. i + 1 < j + 1
            BY <4>2, <4>4, <5>1, <5>2
          <5> QED
            BY <5>1, <5>3
        <4> QED
          BY <4>1, <4>2, <4>4
      <3> QED
        BY <3>3, <3>4
    <2> QED
      BY <2>5, <2>6
  <1> QED
    BY <1>3, <1>4, <1>5, <1>6, <1>7, <1>8, <1>9 DEF GovernorNext

(* The governor starts with a full bucket and nobody waiting. *)
LEMMA GovInitial ==
    ASSUME GovernorInit
    PROVE  GovTypeOK /\ PlaceInv /\ TurnInv
  <1>1. Limit \in Nat \ {0} /\ Grain \in Nat \ {0} /\ Minute \in Nat \ {0}
    BY GovernorAssumption DEF Minute
  <1>2. GovTypeOK
    BY <1>1 DEF GovernorInit, GovTypeOK, Idle, Minute
  <1>3. PlaceInv
    BY DEF GovernorInit, PlaceInv, At, Queued, Idle
  <1>4. TurnInv
    BY DEF GovernorInit, TurnInv, Queued
  <1> QED
    BY <1>2, <1>3, <1>4

(* Places, read as the sets the property speaks of. *)
LEMMA PlacesAreExact ==
    ASSUME GovTypeOK, PlaceInv
    PROVE  RotationIsExact
  <1>1. {order[i] : i \in 1..Len(order)} = {t \in Tenant : Queued(t)}
    <2>1. \A i \in 1..Len(order) : order[i] \in Tenant
      BY ElementOfSeq DEF GovTypeOK
    <2> QED
      BY <2>1 DEF PlaceInv
  <1>2. ASSUME NEW c \in Call, NEW t \in Tenant
        PROVE  Cardinality({i \in 1..Len(queues[t]) : queues[t][i] = c})
                  = IF call[c] = [pc |-> "waiting", tenant |-> t] THEN 1 ELSE 0
    <2> DEFINE P == {i \in 1..Len(queues[t]) : queues[t][i] = c}
    <2>0. c # Gone
      BY GovernorAssumption
    <2>1. call[c] = [pc |-> "waiting", tenant |-> t] <=> At(c, t)
      BY DEF At, GovTypeOK
    <2>2. CASE At(c, t)
      <3>1. PICK i \in 1..Len(queues[t]) : queues[t][i] = c
        BY <2>2 DEF PlaceInv
      <3>2. P = {i}
        BY <2>0, <3>1 DEF PlaceInv
      <3> QED
        BY <2>1, <2>2, <3>2, FS_Singleton
    <2>3. CASE ~At(c, t)
      <3>1. P = {}
        BY <2>0, <2>3 DEF PlaceInv
      <3> QED
        BY <2>1, <2>3, <3>1, FS_EmptySet
    <2> QED
      BY <2>2, <2>3
  <1> QED
    BY <1>1, <1>2 DEF RotationIsExact, PlaceInv

(* Every set of numbers has a least one: induction, without a predicate.   *)
LEMMA LeastNatural ==
    ASSUME NEW S \in SUBSET Nat, S # {}
    PROVE  \E m \in S : \A n \in S : m <= n
  <1> DEFINE R == {p \in Nat \X Nat : p[1] < p[2]}
  <1>1. IsWellFoundedOn(R, Nat)
    BY NatLessThanWellFounded DEF OpToRel
  <1>2. PICK m \in S : \A n \in S : ~(<<n, m>> \in R)
    <2> HIDE DEF R
    <2> QED
      BY <1>1, WFMin
  <1>3. ASSUME NEW n \in S
        PROVE  m <= n
    <2>1. n \in Nat /\ m \in Nat
      OBVIOUS
    <2>2. n < m => <<n, m>> \in R
      BY <2>1, Zenon
    <2> QED
      BY <1>2, <2>1, <2>2
  <1> QED
    BY <1>3

(* T[k] is the sum of the first k elements of r. *)
Sums(T, N, r) ==
    /\ T[0] = 0
    /\ \A k \in 1..N : T[k] = T[k - 1] + r[k]

(* The sums of naturals are naturals. *)
LEMMA SumsAreNatural ==
    ASSUME NEW N \in Nat, NEW r \in [1..N -> Nat], NEW T, Sums(T, N, r)
    PROVE  \A k \in 0..N : T[k] \in Nat
  <1> DEFINE S == {k \in 0..N : T[k] \notin Nat}
  <1>1. CASE S = {}
    BY <1>1
  <1>2. CASE S # {}
    <2>1. PICK k \in S : \A n \in S : k <= n
      <3>1. S \in SUBSET Nat
        OBVIOUS
      <3> HIDE DEF S
      <3> QED
        BY <1>2, <3>1, LeastNatural
    <2>2. k \in 1..N
      BY DEF Sums
    <2>3. T[k - 1] \in Nat
      <3>1. k - 1 \in 0..N /\ k - 1 \notin S
        BY <2>1, <2>2
      <3> QED
        BY <3>1
    <2> QED
      BY <2>2, <2>3 DEF Sums
  <1> QED
    BY <1>1, <1>2

(* There are sums of every length. *)
LEMMA SumsExist ==
    ASSUME NEW N \in Nat, NEW r \in [1..N -> Nat]
    PROVE  \E T : Sums(T, N, r)
  <1> DEFINE S == {n \in 0..N : ~\E T : Sums(T, n, r)}
  <1>1. CASE S = {}
    <2>1. N \in 0..N
      OBVIOUS
    <2> QED
      BY <1>1, <2>1
  <1>2. CASE S # {}
    <2>1. PICK n \in S : \A k \in S : n <= k
      <3>1. S \in SUBSET Nat
        OBVIOUS
      <3> HIDE DEF S
      <3> QED
        BY <1>2, <3>1, LeastNatural
    <2>2. CASE n = 0
      <3>1. Sums([k \in 0..0 |-> 0], 0, r)
        BY DEF Sums
      <3> QED
        BY <2>2, <3>1
    <2>3. CASE n # 0
      <3>1. n - 1 \in 0..N /\ n - 1 \notin S
        BY <2>1, <2>3
      <3>2. PICK T : Sums(T, n - 1, r)
        BY <3>1
      <3> DEFINE U == [k \in 0..n |-> IF k = n THEN T[n - 1] + r[n] ELSE T[k]]
      <3>3. Sums(U, n, r)
        <4>1. /\ U[n] = T[n - 1] + r[n]
              /\ \A k \in 0..n - 1 : U[k] = T[k]
          OBVIOUS
        <4> HIDE DEF U
        <4>2. n \in 1..N /\ T[0] = 0 /\ \A k \in 1..n - 1 : T[k] = T[k - 1] + r[k]
          BY <2>3, <3>2 DEF Sums
        <4>3. U[0] = 0
          BY <4>1, <4>2
        <4>4. ASSUME NEW k \in 1..n
              PROVE  U[k] = U[k - 1] + r[k]
          <5>1. k - 1 \in 0..n - 1 /\ U[k - 1] = T[k - 1]
            BY <4>1, <4>2
          <5>2. CASE k = n
            BY <4>1, <5>1, <5>2
          <5>3. CASE k # n
            <6>1. k \in 1..n - 1 /\ k \in 0..n - 1
              BY <4>2, <5>3
            <6> QED
              BY <4>1, <4>2, <5>1, <6>1
          <5> QED
            BY <5>2, <5>3
        <4> QED
          BY <4>1, <4>3, <4>4 DEF Sums
      <3> QED
        BY <3>3
    <2> QED
      BY <2>2, <2>3
  <1> QED
    BY <1>1, <1>2

(* The function defined by that recursion is those sums. *)
LEMMA SumsDefined ==
    ASSUME NEW N \in Nat, NEW r \in [1..N -> Nat], NEW T,
           T = CHOOSE f : f = [k \in 0..N |-> IF k = 0 THEN 0 ELSE f[k - 1] + r[k]]
    PROVE  Sums(T, N, r)
  <1>1. PICK W : Sums(W, N, r)
    BY SumsExist
  <1> DEFINE U == [k \in 0..N |-> W[k]]
  <1>2. U = [k \in 0..N |-> U[k]] /\ \A k \in 0..N : U[k] = W[k]
    OBVIOUS
  <1> HIDE DEF U
  <1>3. U = [k \in 0..N |-> IF k = 0 THEN 0 ELSE U[k - 1] + r[k]]
    <2> DEFINE V == [k \in 0..N |-> IF k = 0 THEN 0 ELSE U[k - 1] + r[k]]
    <2>1. \A k \in 0..N : U[k] = V[k]
      <3> SUFFICES ASSUME NEW k \in 0..N
                   PROVE  U[k] = V[k]
        OBVIOUS
      <3>1. V[k] = IF k = 0 THEN 0 ELSE U[k - 1] + r[k]
        OBVIOUS
      <3> HIDE DEF V
      <3>2. CASE k = 0
        BY <1>1, <1>2, <3>1, <3>2 DEF Sums
      <3>3. CASE k # 0
        <4>1. k \in 1..N /\ k - 1 \in 0..N
          BY <3>3
        <4>2. W[k] = W[k - 1] + r[k]
          BY <1>1, <4>1 DEF Sums
        <4> QED
          BY <1>2, <3>1, <3>3, <4>1, <4>2
      <3> QED
        BY <3>2, <3>3
    <2>2. V = [k \in 0..N |-> V[k]]
      OBVIOUS
    <2> HIDE DEF V
    <2>3. [k \in 0..N |-> U[k]] = [k \in 0..N |-> V[k]]
      BY <2>1
    <2>4. U = V
      BY <1>2, <2>2, <2>3
    <2> QED
      BY <2>4 DEF V
  <1>4. T = [k \in 0..N |-> IF k = 0 THEN 0 ELSE T[k - 1] + r[k]]
    BY <1>3
  <1>5. \A k \in 0..N : T[k] = IF k = 0 THEN 0 ELSE T[k - 1] + r[k]
    BY <1>4
  <1> QED
    BY <1>5 DEF Sums

(* s is r a step later, and s is r with one more in the current step. *)
Shifted(N, r, s) == s[1] = 0 /\ \A i \in 2..N : s[i] = r[i - 1]
Grown(N, r, s) == s[1] = r[1] + 1 /\ \A i \in 2..N : s[i] = r[i]

(* The sums before and after a step. *)
Windows(N, r, T, s, U) ==
    /\ N \in Nat \ {0} /\ r \in [1..N -> Nat] /\ s \in [1..N -> Nat]
    /\ Sums(T, N, r) /\ Sums(U, N, s)

(* When time passes the sums move up by one step. *)
LEMMA SumsShift ==
    ASSUME NEW N, NEW r, NEW T, NEW s, NEW U, Windows(N, r, T, s, U), Shifted(N, r, s)
    PROVE  \A k \in 1..N : U[k] = T[k - 1]
  <1> DEFINE S == {k \in 1..N : U[k] # T[k - 1]}
  <1>w. /\ N \in Nat \ {0} /\ r \in [1..N -> Nat] /\ s \in [1..N -> Nat]
        /\ Sums(T, N, r) /\ Sums(U, N, s)
    BY DEF Windows
  <1>1. CASE S # {}
    <2>1. PICK k \in S : \A n \in S : k <= n
      <3>1. S \in SUBSET Nat
        BY <1>w
      <3> HIDE DEF S
      <3> QED
        BY <1>1, <3>1, LeastNatural
    <2>2. U[1] = T[0]
      BY <1>w DEF Sums, Shifted
    <2>3. k \in 2..N
      BY <1>w, <2>2
    <2>4. U[k - 1] = T[k - 1 - 1]
      <3>1. k - 1 \in 1..N /\ k - 1 \notin S
        BY <1>w, <2>1, <2>3
      <3> QED
        BY <3>1
    <2>5. U[k] = U[k - 1] + s[k] /\ T[k - 1] = T[k - 1 - 1] + r[k - 1]
      BY <1>w, <2>3 DEF Sums
    <2>6. s[k] = r[k - 1]
      BY <2>3 DEF Shifted
    <2> QED
      BY <1>w, <2>6, <2>3, <2>4, <2>5
  <1> QED
    BY <1>1

(* A token taken now counts in every window. *)
LEMMA SumsGrow ==
    ASSUME NEW N, NEW r, NEW T, NEW s, NEW U, Windows(N, r, T, s, U), Grown(N, r, s)
    PROVE  \A k \in 1..N : U[k] = T[k] + 1
  <1> DEFINE S == {k \in 1..N : U[k] # T[k] + 1}
  <1>0. s[1] = r[1] + 1 /\ \A i \in 2..N : s[i] = r[i]
    BY DEF Grown
  <1>w. /\ N \in Nat \ {0} /\ r \in [1..N -> Nat] /\ s \in [1..N -> Nat]
        /\ Sums(T, N, r) /\ Sums(U, N, s)
    BY DEF Windows
  <1>1. CASE S # {}
    <2>1. PICK k \in S : \A n \in S : k <= n
      <3>1. S \in SUBSET Nat
        BY <1>w
      <3> HIDE DEF S
      <3> QED
        BY <1>1, <3>1, LeastNatural
    <2>0. Sums(U, N, s) /\ \A i \in 0..N : T[i] \in Nat
      BY <1>w, SumsAreNatural
    <2>2. U[1] = T[1] + 1
      <3>1. U[1] = U[0] + s[1] /\ U[0] = 0 /\ T[1] = T[0] + r[1] /\ T[0] = 0
        BY <1>w, <2>0 DEF Sums
      <3>2. r[1] \in Nat
        BY <1>w
      <3> QED
        BY <3>1, <3>2, <1>0
    <2>3. k \in 2..N
      BY <1>w, <2>2
    <2>4. U[k - 1] = T[k - 1] + 1
      <3>1. k - 1 \in 1..N /\ k - 1 \notin S
        BY <1>w, <2>1, <2>3
      <3> QED
        BY <3>1
    <2>5. U[k] = U[k - 1] + s[k] /\ T[k] = T[k - 1] + r[k] /\ s[k] = r[k]
      BY <1>w, <2>0, <2>3, <1>0 DEF Sums
    <2>6. T[k - 1] \in Nat /\ r[k] \in Nat
      BY <1>w, <2>0, <2>3
    <2> QED
      BY <2>3, <2>4, <2>5, <2>6
  <1> QED
    BY <1>1

(* Taken is the sums of the recent steps. *)
LEMMA TakenSums ==
    ASSUME GovTypeOK
    PROVE  Sums(Taken, Minute, recent)
  <1>1. Minute \in Nat
    BY GovernorAssumption DEF Minute
  <1>2. Taken = CHOOSE f : f = [k \in 0..Minute |-> IF k = 0 THEN 0 ELSE f[k - 1] + recent[k]]
    BY DEF Taken
  <1> QED
    BY <1>1, <1>2, SumsDefined DEF GovTypeOK

(* What the bucket has and has given never exceeds what it was given.      *)
LEMMA BucketStep ==
    ASSUME GovTypeOK, GovTypeOK', BucketInv, [GovernorNext]_govVars
    PROVE  BucketInv'
  <1>1. Limit \in Nat \ {0} /\ Grain \in Nat \ {0} /\ Minute \in Nat \ {0}
    BY GovernorAssumption DEF Minute
  <1>2. Sums(Taken, Minute, recent) /\ \A k \in 0..Minute : Taken[k] \in Nat
    BY <1>1, TakenSums, SumsAreNatural DEF GovTypeOK
  <1>3. Sums(Taken', Minute, recent')
    <2>1. Taken' = CHOOSE f : f = [k \in 0..Minute |-> IF k = 0 THEN 0 ELSE f[k - 1] + recent'[k]]
      BY DEF Taken
    <2> QED
      BY <1>1, <2>1, SumsDefined DEF GovTypeOK
  <1>r. recent \in [1..Minute -> Nat] /\ recent' \in [1..Minute -> Nat]
    BY DEF GovTypeOK
  <1>w. Windows(Minute, recent, Taken, recent', Taken')
    BY <1>1, <1>2, <1>3, <1>r DEF Windows
  <1>4. CASE UNCHANGED <<tokens, recent>>
    BY <1>4 DEF BucketInv, Taken
  <1>5. CASE TryConsume
    <2>1. \A k \in 1..Minute : Taken'[k] = Taken[k] + 1
      <3>1. Grown(Minute, recent, recent')
        BY <1>1, <1>5, <1>r DEF TryConsume, Grown
      <3> QED
        BY <1>w, <3>1, SumsGrow
    <2> SUFFICES ASSUME NEW k \in 1..Minute
                 PROVE  tokens' + Taken'[k] * Grain <= Minute + (k - 1)
      BY DEF BucketInv
    <2>2. tokens' = tokens - Grain /\ tokens + Taken[k] * Grain <= Minute + (k - 1)
      BY <1>5 DEF TryConsume, BucketInv
    <2>3. Taken'[k] = Taken[k] + 1 /\ Taken[k] \in Nat /\ tokens \in Nat
      BY <1>1, <1>2, <2>1 DEF GovTypeOK
    <2>4. (Taken[k] + 1) * Grain = Taken[k] * Grain + Grain
      BY <1>1, <2>3
    <2> QED
      BY <1>1, <2>2, <2>3, <2>4
  <1>6. CASE Tick
    <2>1. \A k \in 1..Minute : Taken'[k] = Taken[k - 1]
      <3>1. Shifted(Minute, recent, recent')
        BY <1>1, <1>6 DEF Tick, Shifted
      <3> QED
        BY <1>w, <3>1, SumsShift
    <2> SUFFICES ASSUME NEW k \in 1..Minute
                 PROVE  tokens' + Taken'[k] * Grain <= Minute + (k - 1)
      BY DEF BucketInv
    <2>2. CASE k = 1
      <3>1. Taken'[k] = 0
        BY <1>1, <1>2, <2>1, <2>2 DEF Sums
      <3>2. tokens' \in 0..Minute
        BY DEF GovTypeOK
      <3>3. Taken'[k] * Grain = 0
        BY <1>1, <3>1
      <3> QED
        BY <1>1, <2>2, <3>2, <3>3
    <2>3. CASE k # 1
      <3>1. k - 1 \in 1..Minute
        BY <1>1, <2>3
      <3>2. tokens + Taken[k - 1] * Grain <= Minute + (k - 1 - 1)
        BY <3>1 DEF BucketInv
      <3>3. tokens' <= tokens + 1 /\ tokens \in Nat /\ tokens' \in Nat
        BY <1>1, <1>6 DEF Tick, GovTypeOK, Minute
      <3>4. Taken'[k] = Taken[k - 1] /\ Taken[k - 1] \in Nat
        BY <1>2, <2>1, <3>1
      <3>5. Taken[k - 1] * Grain \in Nat
        BY <1>1, <3>4
      <3> QED
        BY <1>1, <3>2, <3>3, <3>4, <3>5
    <2> QED
      BY <2>2, <2>3
  <1> QED
    BY <1>4, <1>5, <1>6
    DEF GovernorNext, govVars, PumpReleases, PumpEnds, Close, Resume, GiveUp, AcquireNow, AcquireWaits

(* A full bucket has given nothing. *)
LEMMA BucketInitial ==
    ASSUME GovernorInit
    PROVE  BucketInv
  <1>1. Limit \in Nat \ {0} /\ Grain \in Nat \ {0} /\ Minute \in Nat \ {0}
    BY GovernorAssumption DEF Minute
  <1>2. Sums(Taken, Minute, recent)
    BY GovInitial, TakenSums
  <1>3. Sums([k \in 0..Minute |-> 0], Minute, recent)
    BY <1>1 DEF GovernorInit, Sums
  <1> DEFINE S == {k \in 0..Minute : Taken[k] # 0}
  <1>4. S = {}
    <2> SUFFICES ASSUME S # {}
                 PROVE  FALSE
      OBVIOUS
    <2>1. PICK k \in S : \A n \in S : k <= n
      <3>1. S \in SUBSET Nat
        OBVIOUS
      <3> HIDE DEF S
      <3> QED
        BY <3>1, LeastNatural
    <2>2. k \in 1..Minute
      BY <1>2 DEF Sums
    <2>3. Taken[k - 1] = 0
      <3>1. k - 1 \in 0..Minute /\ k - 1 \notin S
        BY <1>1, <2>1, <2>2
      <3> QED
        BY <3>1
    <2> QED
      BY <1>2, <2>2, <2>3 DEF Sums, GovernorInit
  <1>5. \A k \in 1..Minute : Taken[k] = 0
    BY <1>4
  <1> QED
    BY <1>1, <1>5 DEF BucketInv, GovernorInit, Minute

(* A set of places that fit in another when those of t move up one has no *)
(* more elements than the other.                                           *)
LEMMA PlacesMoveUp ==
    ASSUME NEW G, NEW H, IsFiniteSet(H), NEW T, NEW t, G \subseteq T \X Nat,
           \A p \in G : p[1] = t => <<t, p[2] + 1>> \in H,
           \A p \in G : p[1] # t => p \in H
    PROVE  IsFiniteSet(G) /\ Cardinality(G) <= Cardinality(H)
  <1> DEFINE f == [p \in G |-> IF p[1] = t THEN <<t, p[2] + 1>> ELSE p]
  <1>1. \A p \in G : f[p] = IF p[1] = t THEN <<t, p[2] + 1>> ELSE p
    OBVIOUS
  <1>2. f \in [G -> H]
    OBVIOUS
  <1> HIDE DEF f
  <1>3. ASSUME NEW p \in G, NEW q \in G, f[p] = f[q]
        PROVE  p = q
    <2>1. p = <<p[1], p[2]>> /\ q = <<q[1], q[2]>> /\ p[2] \in Nat /\ q[2] \in Nat
      OBVIOUS
    <2>2. f[p][1] = p[1] /\ f[q][1] = q[1]
      <3>1. ASSUME NEW z \in G
            PROVE  f[z][1] = z[1]
        <4>1. CASE z[1] = t
          <5>1. f[z] = <<t, z[2] + 1>>
            BY <1>1, <4>1
          <5>2. <<t, z[2] + 1>>[1] = t
            OBVIOUS
          <5> QED
            BY <4>1, <5>1, <5>2
        <4>2. CASE z[1] # t
          BY <1>1, <4>2
        <4> QED
          BY <4>1, <4>2
      <3> QED
        BY <3>1
    <2>3. p[1] = q[1]
      BY <1>3, <2>2
    <2>4. CASE p[1] = t
      <3>1. <<t, p[2] + 1>> = <<t, q[2] + 1>>
        BY <1>1, <1>3, <2>3, <2>4
      <3>2. p[2] + 1 = q[2] + 1
        BY <3>1
      <3>3. p[2] = q[2]
        BY <2>1, <3>2
      <3> QED
        BY <2>1, <2>3, <3>3
    <2>5. CASE p[1] # t
      BY <1>1, <1>3, <2>3, <2>5
    <2> QED
      BY <2>4, <2>5
  <1>4. f \in Injection(G, H)
    BY <1>2, <1>3 DEF Injection, IsInjective
  <1> QED
    BY <1>4, FS_Injection

(* Callers that hold an unused token are as many as numbers can count.     *)
LEMMA ReleasedFinite ==
    IsFiniteSet(Released) /\ Cardinality(Released) \in Nat
  <1>1. Released \subseteq Call
    BY DEF Released
  <1> QED
    BY <1>1, GovernorAssumption, FS_Subset, FS_CardinalityType

(* No token is lost but with a caller that gave up. *)
LEMMA TokenStep ==
    ASSUME GovTypeOK, PlaceInv, TokenInv, [GovernorNext]_govVars
    PROVE  TokenInv'
  <1> DEFINE R == Cardinality(Released)
             G == Cardinality(GonePlaces)
  <1>1. /\ R \in Nat /\ IsFiniteSet(Released)
        /\ IsFiniteSet(GonePlaces) /\ G \in Nat
        /\ unserved \in Int /\ cancels \in Nat
        /\ R <= unserved /\ unserved + G <= R + cancels
    BY ReleasedFinite, FS_CardinalityType DEF TokenInv, GovTypeOK
  <1>2. GonePlaces \subseteq Tenant \X Nat
    BY DEF GonePlaces
  <1>3. \A c \in Call : c # Gone
    BY GovernorAssumption
  <1>u. ASSUME UNCHANGED <<unserved, cancels>>, Released' = Released, GonePlaces' = GonePlaces
        PROVE  TokenInv'
    BY <1>u DEF TokenInv
  <1>4. CASE UNCHANGED <<queues, call, cancels, unserved>>
    <2>1. Released' = Released /\ GonePlaces' = GonePlaces
      BY <1>4 DEF Released, GonePlaces
    <2> QED
      BY <1>4, <1>u, <2>1
  <1>5. CASE UNCHANGED govVars \/ Tick \/ PumpEnds
    BY <1>4, <1>5 DEF govVars, Tick, PumpEnds
  <1>6. ASSUME NEW c \in Call, NEW t \in Tenant, AcquireNow(c, t)
        PROVE  TokenInv'
    BY <1>4, <1>6 DEF AcquireNow
  <1>7. ASSUME NEW c \in Call, Resume(c)
        PROVE  TokenInv'
    <2>1. Released' = Released \ {c} /\ c \in Released /\ GonePlaces' = GonePlaces
      BY <1>7 DEF Resume, Released, GonePlaces, GovTypeOK, Idle
    <2>2. Cardinality(Released') = R - 1
      BY <1>1, <2>1, FS_RemoveElement
    <2>3. unserved' = unserved - 1 /\ cancels' = cancels
      BY <1>7 DEF Resume
    <2> HIDE DEF R, G
    <2>4. Cardinality(GonePlaces') = G /\ IsFiniteSet(GonePlaces')
      BY <1>1, <2>1 DEF G
    <2> QED
      BY <1>1, <2>2, <2>3, <2>4 DEF TokenInv
  <1>8. ASSUME NEW c \in Call, GiveUp(c)
        PROVE  TokenInv'
    <2>1. \A t \in Tenant : /\ Len(queues'[t]) = Len(queues[t]) /\ Len(queues[t]) \in Nat
                            /\ \A i \in 1..Len(queues[t]) :
                                  queues'[t][i] = IF queues[t][i] = c THEN Gone
                                                  ELSE queues[t][i]
      BY <1>8, Vacated
    <2>2. cancels' = cancels + 1 /\ unserved' = unserved /\ Released' = Released \ {c}
      BY <1>8 DEF GiveUp, Released, GovTypeOK, Idle
    <2>3. CASE c \in Released
      <3>1. \A t \in Tenant : ~At(c, t)
        BY <2>3 DEF Released, At
      <3>2. \A t \in Tenant : \A i \in 1..Len(queues[t]) : queues[t][i] # c
        BY <1>3, <3>1 DEF PlaceInv
      <3>3. GonePlaces' = GonePlaces
        BY <2>1, <3>2 DEF GonePlaces
      <3>4. Cardinality(Released') = R - 1
        BY <1>1, <2>2, <2>3, FS_RemoveElement
      <3> HIDE DEF R, G
      <3>5. Cardinality(GonePlaces') = G /\ IsFiniteSet(GonePlaces')
        BY <1>1, <3>3 DEF G
      <3> QED
        BY <1>1, <2>2, <3>4, <3>5 DEF TokenInv
    <2>4. CASE c \notin Released
      <3>1. Released' = Released
        BY <2>2, <2>4
      <3>2. PICK x : GonePlaces' \subseteq GonePlaces \cup {x}
        <4> DEFINE P == {p \in Tenant \X (Nat \ {0}) : p[2] <= Len(queues[p[1]])
                                                        /\ queues[p[1]][p[2]] = c}
        <4>1. GonePlaces' \subseteq GonePlaces \cup P
          <5> SUFFICES ASSUME NEW p \in Tenant \X (Nat \ {0}), p[2] <= Len(queues'[p[1]]),
                              queues'[p[1]][p[2]] = Gone
                       PROVE  p \in GonePlaces \cup P
            BY DEF GonePlaces
          <5>1. p[2] \in 1..Len(queues[p[1]]) /\ Len(queues'[p[1]]) = Len(queues[p[1]])
            BY <2>1
          <5>2. queues[p[1]][p[2]] = c \/ queues[p[1]][p[2]] = Gone
            BY <2>1, <5>1
          <5> QED
            BY <5>1, <5>2 DEF GonePlaces
        <4>2. ASSUME NEW p \in P, NEW q \in P
              PROVE  p = q
          <5>1. /\ p = <<p[1], p[2]>> /\ p[1] \in Tenant /\ p[2] \in 1..Len(queues[p[1]])
                /\ q = <<q[1], q[2]>> /\ q[1] \in Tenant /\ q[2] \in 1..Len(queues[q[1]])
                /\ queues[p[1]][p[2]] = c /\ queues[q[1]][q[2]] = c
            BY <2>1
          <5>2. At(c, p[1]) /\ At(c, q[1])
            BY <1>3, <5>1 DEF PlaceInv
          <5>3. p[1] = q[1]
            BY <5>2 DEF At
          <5>4. p[2] = q[2]
            BY <1>3, <5>1, <5>3 DEF PlaceInv
          <5> QED
            BY <5>1, <5>3, <5>4
        <4> HIDE DEF P
        <4>3. CASE P = {}
          BY <4>1, <4>3
        <4>4. CASE P # {}
          <5>1. PICK p : p \in P
            BY <4>4
          <5>2. GonePlaces' \subseteq GonePlaces \cup {p}
            BY <4>1, <4>2, <5>1
          <5> QED
            BY <5>2
        <4> QED
          BY <4>3, <4>4
      <3>3. /\ IsFiniteSet(GonePlaces \cup {x})
            /\ Cardinality(GonePlaces \cup {x}) \in Nat
            /\ Cardinality(GonePlaces \cup {x}) <= G + 1
        <4>1. /\ IsFiniteSet(GonePlaces \cup {x})
              /\ Cardinality(GonePlaces \cup {x}) = IF x \in GonePlaces THEN G ELSE G + 1
          BY <1>1, FS_AddElement
        <4> HIDE DEF R, G
        <4> QED
          BY <1>1, <4>1
      <3>4. /\ IsFiniteSet(GonePlaces')
            /\ Cardinality(GonePlaces') <= Cardinality(GonePlaces \cup {x})
        BY <3>2, <3>3, FS_Subset
      <3>5. Cardinality(GonePlaces') \in Nat
        BY <3>4, FS_CardinalityType
      <3> HIDE DEF R, G
      <3>6. Cardinality(Released') = R
        BY <3>1 DEF R
      <3> QED
        BY <1>1, <2>2, <3>3, <3>4, <3>5, <3>6 DEF TokenInv
    <2> QED
      BY <2>3, <2>4
  <1>9. ASSUME NEW c \in Call, NEW t \in Tenant, AcquireWaits(c, t)
        PROVE  TokenInv'
    <2>1. /\ \A u \in Tenant : u # t => queues'[u] = queues[u]
          /\ Len(queues[t]) \in Nat /\ Len(queues'[t]) = Len(queues[t]) + 1
          /\ \A i \in 1..Len(queues[t]) : queues'[t][i] = queues[t][i]
          /\ queues'[t][Len(queues[t]) + 1] = c
      BY <1>9, Parked
    <2>2. GonePlaces' = GonePlaces
      <3> SUFFICES ASSUME NEW u \in Tenant, NEW i \in Nat \ {0}
                   PROVE  i <= Len(queues'[u]) /\ queues'[u][i] = Gone
                             <=> i <= Len(queues[u]) /\ queues[u][i] = Gone
        BY DEF GonePlaces
      <3>1. CASE u # t
        BY <2>1, <3>1
      <3>2. CASE u = t
        BY <1>3, <2>1, <3>2
      <3> QED
        BY <3>1, <3>2
    <2>3. Released' = Released /\ UNCHANGED <<unserved, cancels>>
      BY <1>9 DEF AcquireWaits, Released, GovTypeOK, Idle
    <2> QED
      BY <1>u, <2>2, <2>3
  <1>10. CASE Close
    <2>1. GonePlaces' = {}
      BY <1>10 DEF Close, GonePlaces
    <2>2. Released' = Released /\ UNCHANGED <<unserved, cancels>>
      BY <1>10 DEF Close, Released, GovTypeOK, Idle
    <2>3. IsFiniteSet(GonePlaces') /\ Cardinality(GonePlaces') = 0
      BY <2>1, FS_EmptySet
    <2> HIDE DEF R, G
    <2>4. Cardinality(Released') = R
      BY <2>2 DEF R
    <2> QED
      BY <1>1, <2>2, <2>3, <2>4 DEF TokenInv
  <1>11. CASE PumpReleases
    <2>0. PICK t : t = Head(order)
      OBVIOUS
    <2> DEFINE w == queues[t][1]
               n == Len(queues[t])
               first == <<t, 1>>
    <2>1. /\ t \in Tenant /\ n \in Nat \ {0}
          /\ \A u \in Tenant : u # t => queues'[u] = queues[u]
          /\ Len(queues'[t]) = n - 1
          /\ \A i \in 1..n - 1 : queues'[t][i] = queues[t][i + 1]
          /\ w \in Call \cup {Gone}
          /\ call' = IF w = Gone THEN call ELSE [call EXCEPT ![w].pc = "released"]
      BY <1>11, <2>0, TurnGiven
    <2>2. unserved' = unserved + 1 /\ cancels' = cancels
      BY <1>11 DEF PumpReleases
    <2>3. /\ GonePlaces' \subseteq Tenant \X Nat
          /\ \A p \in GonePlaces' : p[1] = t => <<t, p[2] + 1>> \in GonePlaces \ {first}
          /\ \A p \in GonePlaces' : p[1] # t => p \in GonePlaces \ {first}
      <3> HIDE DEF w
      <3>1. GonePlaces' \subseteq Tenant \X Nat
        BY DEF GonePlaces
      <3>2. ASSUME NEW p \in GonePlaces'
            PROVE  /\ p = <<p[1], p[2]>> /\ p[1] \in Tenant /\ p[2] \in Nat \ {0}
                   /\ p[2] <= Len(queues'[p[1]]) /\ queues'[p[1]][p[2]] = Gone
        BY DEF GonePlaces
      <3>3. ASSUME NEW p \in GonePlaces', p[1] = t
            PROVE  <<t, p[2] + 1>> \in GonePlaces \ {first}
        <4>1. p[2] \in 1..n - 1 /\ queues'[t][p[2]] = Gone
          BY <2>1, <3>2, <3>3
        <4>2. queues[t][p[2] + 1] = Gone /\ p[2] + 1 \in Nat \ {0} /\ p[2] + 1 <= n /\ p[2] + 1 # 1
          BY <2>1, <4>1
        <4>3. <<t, p[2] + 1>> \in GonePlaces
          BY <2>1, <4>2 DEF GonePlaces
        <4> QED
          BY <4>2, <4>3
      <3>4. ASSUME NEW p \in GonePlaces', p[1] # t
            PROVE  p \in GonePlaces \ {first}
        <4>1. p \in GonePlaces
          BY <2>1, <3>2, <3>4 DEF GonePlaces
        <4> QED
          BY <3>4, <4>1
      <3> QED
        BY <3>1, <3>3, <3>4
    <2>4. CASE w = Gone
      <3>1. first \in GonePlaces
        BY <2>1, <2>4 DEF GonePlaces
      <3>2. IsFiniteSet(GonePlaces \ {first}) /\ Cardinality(GonePlaces \ {first}) = G - 1
        BY <1>1, <3>1, FS_RemoveElement
      <3>3. IsFiniteSet(GonePlaces') /\ Cardinality(GonePlaces') <= Cardinality(GonePlaces \ {first})
        <4> HIDE DEF first
        <4> QED
          BY <2>3, <3>2, PlacesMoveUp
      <3>4. Cardinality(GonePlaces') \in Nat
        BY <3>3, FS_CardinalityType
      <3>5. Released' = Released
        BY <2>1, <2>4 DEF Released
      <3> HIDE DEF R, G, first
      <3>6. Cardinality(Released') = R
        BY <3>5 DEF R
      <3> QED
        BY <1>1, <2>2, <3>2, <3>3, <3>4, <3>6 DEF TokenInv
    <2>5. CASE w # Gone
      <3>1. w \in Call /\ call' = [call EXCEPT ![w].pc = "released"] /\ At(w, t)
        <4>1. 1 \in 1..n
          BY <2>1
        <4> QED
          BY <2>1, <2>5, <4>1 DEF PlaceInv
      <3> HIDE DEF w
      <3>2. Released' = Released \cup {w} /\ w \notin Released
        BY <3>1 DEF Released, At, GovTypeOK
      <3>3. Cardinality(Released') = R + 1
        BY <1>1, <3>2, FS_AddElement
      <3>4. IsFiniteSet(GonePlaces \ {first}) /\ Cardinality(GonePlaces \ {first}) <= G
        BY <1>1, FS_Subset
      <3>5. IsFiniteSet(GonePlaces') /\ Cardinality(GonePlaces') <= Cardinality(GonePlaces \ {first})
        <4> HIDE DEF first
        <4> QED
          BY <2>3, <3>4, PlacesMoveUp
      <3>6. Cardinality(GonePlaces') \in Nat /\ Cardinality(GonePlaces \ {first}) \in Nat
        BY <3>4, <3>5, FS_CardinalityType
      <3> HIDE DEF R, G, first
      <3> QED
        BY <1>1, <2>2, <3>3, <3>4, <3>5, <3>6 DEF TokenInv
    <2> QED
      BY <2>4, <2>5
  <1> QED
    BY <1>5, <1>6, <1>7, <1>8, <1>9, <1>10, <1>11 DEF GovernorNext

(* Nobody gave up and nothing was drawn at the start.                      *)
LEMMA TokenInitial ==
    ASSUME GovernorInit
    PROVE  TokenInv
  <1>1. GonePlaces = {} /\ Released = {}
    BY DEF GovernorInit, GonePlaces, Released, Idle
  <1>2. /\ IsFiniteSet(GonePlaces) /\ Cardinality(GonePlaces) = 0
        /\ Cardinality(Released) = 0
    BY <1>1, FS_EmptySet
  <1> QED
    BY <1>2 DEF GovernorInit, TokenInv

(* The four parts of the property, read off the invariants.                *)
LEMMA TokensFollow ==
    ASSUME GovTypeOK, PlaceInv, TurnInv, BucketInv, TokenInv
    PROVE  TokensGoRound
  <1>1. RotationIsExact
    BY PlacesAreExact
  <1>2. FairTurns
    BY DEF TurnInv, FairTurns
  <1>3. NeverFasterThanRefill
    <2>1. Limit \in Nat \ {0} /\ Grain \in Nat \ {0} /\ Minute \in Nat \ {0}
      BY GovernorAssumption DEF Minute
    <2>2. Sums(Taken, Minute, recent) /\ \A k \in 0..Minute : Taken[k] \in Nat
      BY <2>1, TakenSums, SumsAreNatural DEF GovTypeOK
    <2> SUFFICES ASSUME NEW k \in 1..Minute
                 PROVE  Taken[k] * Grain <= Limit * Grain + (k - 1)
      BY DEF NeverFasterThanRefill
    <2>3. tokens + Taken[k] * Grain <= Limit * Grain + (k - 1)
      BY DEF BucketInv, Minute
    <2>4. tokens \in Nat /\ Taken[k] * Grain \in Nat /\ Limit * Grain \in Nat
      BY <2>1, <2>2 DEF GovTypeOK
    <2> QED
      BY <2>1, <2>3, <2>4
  <1>4. OneTokenPerGiveUp
    <2>1. Cardinality(Released) \in Nat /\ Cardinality(GonePlaces) \in Nat
      BY ReleasedFinite, FS_CardinalityType DEF TokenInv
    <2>2. unserved \in Cardinality(Released)..(Cardinality(Released) + cancels)
      BY <2>1 DEF TokenInv, GovTypeOK
    <2> QED
      BY <2>2 DEF OneTokenPerGiveUp, Released
  <1> QED
    BY <1>1, <1>2, <1>3, <1>4 DEF TokensGoRound

(* The governor keeps the property for any callers and tenants, any limit, *)
(* and however many give up.                                               *)
THEOREM TokensGoRoundAlways == GovernorSpec => []TokensGoRound
  <1> DEFINE GovInv == GovTypeOK /\ PlaceInv /\ TurnInv /\ BucketInv /\ TokenInv
  <1>1. GovernorInit => GovInv
    BY GovInitial, BucketInitial, TokenInitial
  <1>2. GovInv /\ [GovernorNext]_govVars => GovInv'
    <2>1. ASSUME GovInv, [GovernorNext]_govVars
          PROVE  GovTypeOK' /\ PlaceInv' /\ TurnInv' /\ TokenInv'
      BY <2>1, GovTypeStep, PlaceStep, TurnStep, TokenStep
    <2>2. ASSUME GovInv, [GovernorNext]_govVars
          PROVE  BucketInv'
      BY <2>1, <2>2, BucketStep
    <2> QED
      BY <2>1, <2>2
  <1>3. GovInv => TokensGoRound
    BY TokensFollow
  <1> QED
    BY <1>1, <1>2, <1>3, PTL DEF GovernorSpec
=============================================================================
