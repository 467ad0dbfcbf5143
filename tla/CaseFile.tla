------------------------------- MODULE CaseFile -------------------------------
(***************************************************************************)
(* The requests that build a lender's case file: an application arrives    *)
(* (routers/applications.py), documents are uploaded (documents.py), the   *)
(* credit pipeline or one agent runs and its runs are recorded (runs.py,   *)
(* agents.py, gravai_core/runs.py), and a person resolves the tasks that   *)
(* escalations raise (tasks.py).                                           *)
(*                                                                         *)
(* One request is one transaction, and appends its audit entries through   *)
(* AuditAppend.  Two things are outside the transaction and stay when it   *)
(* is rolled back: objects put in the blob store, and model calls billed.  *)
(***************************************************************************)
EXTENDS AuditAppend, Sequences, FiniteSets

CONSTANTS External,      \* external ids of applications
          Received,      \* those of applications received earlier
          Resolution,    \* what a person can answer
          Null

ASSUME CaseFileAssumption ==
    Received \subseteq External /\ Null \notin External \cup Resolution \cup Req

VARIABLES apps,      \* committed application rows, by external id and request
          docs,      \* committed document rows, by the request that uploaded
          agentRuns, \* committed agent_run rows
          ledger,    \* committed cost_ledger rows, by the run they belong to
          tasks,     \* committed task rows
          trail,     \* committed audit entries, in order
          blobs,     \* objects in the store, by the request that put them
          billed,    \* model calls made, by the run they were made for
          req        \* where each request is, and what it has written

caseVars == <<apps, docs, agentRuns, ledger, tasks, trail, blobs, billed, req>>

NoRows == [apps |-> {}, docs |-> {}, runs |-> {}, tasks |-> {}]

New == [op |-> "none", pc |-> "idle", x |-> Null, task |-> Null, stages |-> 0,
        made |-> {}, rows |-> NoRows, log |-> <<>>]

CaseInit ==
    /\ apps = {[external |-> x, by |-> Null] : x \in Received}
    /\ docs = {} /\ agentRuns = {} /\ ledger = {} /\ tasks = {} /\ trail = <<>>
    /\ blobs = {} /\ billed = {}
    /\ req = [t \in Req |-> New]
    /\ AppendInit

Known(x) == \E a \in apps : a.external = x

Database == <<apps, docs, agentRuns, ledger, tasks, trail>>

Goes(t, r) ==
    /\ req' = [req EXCEPT ![t] = r]
    /\ UNCHANGED <<Database, appendVars>>

(* session_scope rolls back: neither objects nor bills come back. *)
Fail(t) ==
    /\ req' = [req EXCEPT ![t] = [New EXCEPT !.op = req[t].op, !.pc = "failed"]]
    /\ EntriesRolledBack(t)
    /\ UNCHANGED <<Database, blobs, billed>>

-----------------------------------------------------------------------------
(* create_application: looks for the external id, inserts, audits.         *)

CreateApplication(t, x) ==
    /\ req[t].pc = "idle" /\ ~Known(x)
    /\ Goes(t, [New EXCEPT !.op = "create", !.pc = "insert", !.x = x])
    /\ UNCHANGED <<blobs, billed>>

(* The insert waits for an uncommitted row with its key.                   *)
KeyInFlight(t) ==
    \E u \in Req \ {t} : \E a \in req[u].rows.apps : a.external = req[t].x

(* uq_application_tenant_external *)
InsertApplication(t) ==
    /\ req[t].pc = "insert" /\ ~KeyInFlight(t)
    /\ \/ Known(req[t].x) /\ Fail(t)
       \/ /\ ~Known(req[t].x)
          /\ Goes(t, [req[t] EXCEPT !.pc = "tail",
                         !.rows.apps = {[external |-> req[t].x, by |-> t]}])
          /\ UNCHANGED <<blobs, billed>>

-----------------------------------------------------------------------------
(* upload_document: the scanner clears the bytes or the request ends; the  *)
(* object is stored, then its row is written.                              *)

UploadDocument(t) ==
    /\ req[t].pc = "idle"
    /\ Goes(t, [New EXCEPT !.op = "upload", !.pc = "scanned"])
    /\ UNCHANGED <<blobs, billed>>

StoreDocument(t) ==
    /\ req[t].pc = "scanned"
    /\ blobs' = blobs \cup {t}
    /\ Goes(t, [req[t] EXCEPT !.pc = "tail", !.rows.docs = {t}])
    /\ UNCHANGED billed

-----------------------------------------------------------------------------
(* appraise and run_one: agents run first, each with a model call that is  *)
(* billed; then persist_run writes each run, its ledger rows, its audit    *)
(* entry and, when it escalated, a task.                                   *)

(* The bank statement stage is left out when no transactions were found.   *)
Appraise(t, x) ==
    /\ req[t].pc = "idle" /\ Known(x)
    /\ \E n \in {2, 3} :
          Goes(t, [New EXCEPT !.op = "appraise", !.pc = "agents", !.x = x, !.stages = n])
    /\ UNCHANGED <<blobs, billed>>

(* Every document a run names is resolved to its bytes before it starts.   *)
RunOneAgent(t, ds) ==
    /\ req[t].pc = "idle" /\ ds \subseteq docs /\ ds \subseteq blobs
    /\ Goes(t, [New EXCEPT !.op = "run", !.pc = "agents", !.stages = 1])
    /\ UNCHANGED <<blobs, billed>>

(* One agent of the request runs.  It escalates or not; an appraisal's     *)
(* last stage, which is credit appraisal, always does.                     *)
RunStage(t) ==
    LET r == req[t]
        i == Cardinality(r.made) + 1
        last == i = r.stages
    IN /\ r.pc = "agents"
       /\ \E escalated \in BOOLEAN :
             /\ r.op = "appraise" /\ last => escalated
             /\ LET made == r.made \cup {[id |-> <<t, i>>, escalated |-> escalated]}
                IN Goes(t, [r EXCEPT !.made = made, !.pc = IF last THEN "persist" ELSE "agents"])
       /\ billed' = billed \cup {<<t, i>>}
       /\ UNCHANGED blobs

(* persist_run up to its audit entry; the runs are recorded in order.      *)
PersistRun(t) ==
    LET r == req[t]
        i == Cardinality(r.rows.runs) + 1
    IN /\ r.pc = "persist"
       /\ \E run \in r.made :
             /\ run.id = <<t, i>>
             /\ Goes(t, [r EXCEPT !.pc = "tail",
                   !.rows.runs = @ \cup {run},
                   !.rows.tasks = IF run.escalated
                                  THEN @ \cup {[id |-> run.id, status |-> "open", resolution |-> Null]}
                                  ELSE @])
       /\ UNCHANGED <<blobs, billed>>

-----------------------------------------------------------------------------
(* resolve: the task is read, found open, and assigned; the UPDATE is      *)
(* flushed with the audit entry (autoflush is off).                        *)
ResolveTask(t, k, answer) ==
    /\ req[t].pc = "idle" /\ k \in tasks /\ k.status = "open"
    /\ Goes(t, [New EXCEPT !.op = "resolve", !.pc = "tail", !.task = k.id,
                   !.rows.tasks = {[k EXCEPT !.status = "resolved", !.resolution = answer]}])
    /\ UNCHANGED <<blobs, billed>>

-----------------------------------------------------------------------------
(* The audit entry every one of them ends with, and the commit.            *)

ReadTail(t) ==
    /\ req[t].pc = "tail"
    /\ TailRead(t)
    /\ req' = [req EXCEPT ![t].pc = "append"]
    /\ UNCHANGED <<Database, blobs, billed>>

(* What the entry is about, and for a resolution what it decided. *)
Entry(r) ==
    [op |-> r.op, about |-> r.task,
     resolution |-> IF r.op = "resolve"
                    THEN (CHOOSE k \in r.rows.tasks : k.id = r.task).resolution ELSE Null]

(* Mutant: each recorded run is committed by itself. *)
AppendEntry_CommitsEach(t) ==
    LET r == req[t]
    IN /\ r.pc = "append"
       /\ EntryAdded(t)
       /\ req' = [req EXCEPT ![t] = [r EXCEPT !.log = @ \o <<Entry(r)>>,
                                              !.pc = "commit"]]
       /\ UNCHANGED <<Database, blobs, billed>>

AppendEntry(t) ==
    LET r == req[t]
        more == Cardinality(r.rows.runs) < Cardinality(r.made)
    IN /\ r.pc = "append"
       /\ EntryAdded(t)
       /\ req' = [req EXCEPT ![t] = [r EXCEPT !.log = @ \o <<Entry(r)>>,
                                              !.pc = IF more THEN "persist" ELSE "commit"]]
       /\ UNCHANGED <<Database, blobs, billed>>

(* Mutant: an entry that no longer extends the tail is kept and waits. *)
AppendRefused_Waits(t) == FALSE

AppendRefused(t) == req[t].pc = "append" /\ ~IsLast(t) /\ Fail(t)

Commit(t) ==
    LET r == req[t]
    IN /\ r.pc = "commit"
       /\ apps' = apps \cup r.rows.apps
       /\ docs' = docs \cup r.rows.docs
       /\ agentRuns' = agentRuns \cup r.rows.runs
       /\ ledger' = ledger \cup {run.id : run \in r.rows.runs}
       /\ tasks' = {k \in tasks : \A n \in r.rows.tasks : n.id # k.id} \cup r.rows.tasks
       /\ trail' = trail \o r.log
       /\ EntriesCommitted(t)
       /\ req' = [req EXCEPT ![t] = [New EXCEPT !.op = r.op, !.pc = "done"]]
       /\ UNCHANGED <<blobs, billed>>

(* A provider, the scanner or the store fails, or the process dies. *)
Abort(t) == req[t].pc \notin {"idle", "done", "failed"} /\ Fail(t)

Arrive(t) ==
    \/ \E x \in External : CreateApplication(t, x) \/ Appraise(t, x)
    \/ UploadDocument(t)
    \/ \E ds \in SUBSET docs : RunOneAgent(t, ds)
    \/ \E k \in tasks, answer \in Resolution : ResolveTask(t, k, answer)

Step(t) ==
    \/ InsertApplication(t) \/ StoreDocument(t) \/ RunStage(t) \/ PersistRun(t)
    \/ ReadTail(t) \/ AppendEntry(t) \/ AppendRefused(t) \/ Commit(t)

CaseNext == \E t \in Req : Arrive(t) \/ Step(t) \/ Abort(t)

CaseSpec == CaseInit /\ [][CaseNext]_<<caseVars, appendVars>>

-----------------------------------------------------------------------------
(* Properties *)

Status == {"idle", "insert", "scanned", "agents", "persist", "tail", "append", "commit",
           "done", "failed"}

(* Types; a document row has its stored object, whatever crashes; a task   *)
(* is resolved exactly when it has an answer.                              *)
CaseTypeOK ==
    /\ \A a \in apps : a.external \in External
    /\ blobs \subseteq Req /\ docs \subseteq blobs
    /\ \A k \in tasks : /\ k.id[1] \in Req /\ k.status \in {"open", "resolved"}
                        /\ k.status = "resolved" <=> k.resolution \in Resolution
    /\ \A t \in Req : req[t].pc \in Status
    /\ Len(trail) = entries

(* An external id names one application, however many requests create it.  *)
OneApplicationEach ==
    \A a, b \in apps : a.external = b.external => a = b

(* persist_run: a run, its ledger row, and its task when it escalated, are *)
(* there together or not at all; all runs of an appraisal likewise; and a  *)
(* call billed for a request that was answered is in the ledger.           *)
RunsAreWhole ==
    /\ ledger = {run.id : run \in agentRuns}
    /\ {run.id : run \in {a \in agentRuns : a.escalated}} = {k.id : k \in tasks}
    /\ \A run \in agentRuns : req[run.id[1]].pc = "done"
    /\ \A run \in agentRuns : req[run.id[1]].op = "appraise" =>
          \E k \in tasks : k.id[1] = run.id[1]
    /\ \A id \in billed : req[id[1]].pc = "done" => id \in ledger

(* A task says what the last audit entry about it says, also when two      *)
(* people resolve it together; an open task has no such entry.             *)
TaskSaysWhatTheLogSays ==
    \A k \in tasks :
        LET about == {i \in 1..Len(trail) : trail[i].op = "resolve" /\ trail[i].about = k.id}
        IN \/ k.status = "open" /\ about = {}
           \/ \E i \in about : /\ \A j \in about : j <= i
                               /\ trail[i].resolution = k.resolution

(* What every request may count on of the case file, in one formula.       *)
CaseInvariant == CaseTypeOK /\ OneApplicationEach /\ RunsAreWhole /\ TaskSaysWhatTheLogSays

Busy == {t \in Req : req[t].pc \notin {"idle", "done", "failed"}}

(* An insert waits for its key in flight, an entry for an uncommitted one  *)
(* on its tail.                                                            *)
HeldUp(t) ==
    \/ req[t].pc = "insert" /\ KeyInFlight(t)
    \/ req[t].pc = "append" /\ IsLast(t) /\ \E u \in Req \ {t} : appended[u] # 0

(* Requests hold keys and the end of the audit log while they wait for     *)
(* others', yet never all of those at work wait for each other.            *)
SomebodyGoesOn == Busy # {} => \E t \in Busy : ~HeldUp(t)

(* Among the requests at work one can always take its next step, and       *)
(* nothing but such a wait keeps another from it.  Each has finitely many  *)
(* steps, so each ends.                                                    *)
NoCaseDeadlock == SomebodyGoesOn /\ \A t \in Busy : HeldUp(t) \/ ENABLED Step(t)

=============================================================================
