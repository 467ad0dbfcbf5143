-------------------------------- MODULE Studio --------------------------------
(***************************************************************************)
(* The workflows and versions of one tenant's Agent Studio                 *)
(* (apps/api/.../routers/studio.py): create, duplicate, update, rename,    *)
(* delete, restore, compile, edit, deploy, retire, run by name, test run.  *)
(*                                                                         *)
(* Each request is a transaction at READ COMMITTED: its SELECTs see what   *)
(* is committed when each of them starts, its flush writes the columns the *)
(* handler assigned, waiting for whoever has the same row or the same      *)
(* unique key in flight, and nobody sees its writes before its commit.     *)
(* compile, deploy and retire append to the audit log before they commit.  *)
(*                                                                         *)
(* A request refused by its first SELECT changes nothing and is not a      *)
(* step.  All requests are the owner's; the owner filter is left out.      *)
(***************************************************************************)
EXTENDS AuditAppend, Sequences, FiniteSets

CONSTANTS Workflow, Version,   \* ids of rows, used or still to be used
          Name, Definition,
          Valid,               \* the definitions graph.validate() accepts
          Null,
          Op,                  \* the operations requests ask for
          MaxRequests          \* requests made in one behaviour

ASSUME StudioAssumption ==
    /\ Valid \subseteq Definition
    /\ MaxRequests \in Nat
    /\ IsFiniteSet(Version)
    /\ Null \notin Workflow \cup Version \cup Name \cup Definition \cup Nat
                     \cup {"draft", "deployed", "retired"}

(* The columns the handlers assign, one cell per row and column. *)
Cell == (Workflow \X {"name", "deleted", "draft"})
            \cup (Version \X {"of", "number", "status", "definition"})

VARIABLES db,        \* the committed content of each cell
          req,       \* what each request asked for, and where it is
          runs,      \* committed WorkflowRun rows
          trail,     \* committed audit entries about versions, in order
          started,   \* requests made so far
          inTurn     \* whether requests follow one another, all along

studioVars == <<db, req, runs, trail, started, inTurn, entries, tail, appended>>

Idle == [op |-> "none", pc |-> "idle", w |-> Null, v |-> Null, n |-> Null, d |-> Null,
         writes |-> [c \in {} |-> Null]]

Exists(w) == db[<<w, "name">>] # Null
Visible(w) == Exists(w) /\ ~db[<<w, "deleted">>]
NameOf(w) == db[<<w, "name">>]
Draft(w) == db[<<w, "draft">>]
VersionsOf(w) == {v \in Version : db[<<v, "of">>] = w}
StatusOf(v) == db[<<v, "status">>]
DefinitionOf(v) == db[<<v, "definition">>]

Deployed(w) == {v \in VersionsOf(w) : StatusOf(v) = "deployed"}

InFlight == {t \in Req : req[t].pc # "idle"}
Flushed(t) == req[t].pc \in {"tail", "append", "commit"}
Pending(t) == IF Flushed(t) THEN DOMAIN req[t].writes ELSE {}
RowsOf(cells) == {c[1] : c \in cells}

(* Ids are random: no two requests draw the same one. *)
FreshIds(rows) ==
    {x \in rows : /\ \A c \in Cell : c[1] = x => db[c] = Null
                  /\ \A t \in Req : x \notin {req[t].w, req[t].v}}

(* Bound of the model: a request that will insert a row arrives only while *)
(* there is an id for it and for those that have not drawn theirs.         *)
IdsLeft(rows, ops) ==
    Cardinality(FreshIds(rows)) >
        Cardinality({t \in Req : req[t].op \in ops /\ req[t].pc \in {"claim", "number"}})

StudioInit ==
    /\ db = [c \in Cell |-> Null]
    /\ req = [t \in Req |-> Idle]
    /\ runs = {} /\ trail = <<>> /\ started = 0 /\ inTurn \in BOOLEAN
    /\ AppendInit

-----------------------------------------------------------------------------
(* A request arrives and its first SELECT finds what it names.             *)

Begin(t, r) ==
    /\ req[t].pc = "idle" /\ r.op \in Op
    /\ started < MaxRequests /\ (inTurn => InFlight = {})
    /\ req' = [req EXCEPT ![t] = r]
    /\ started' = started + 1
    /\ UNCHANGED <<db, runs, trail, appendVars>>

Asks(op, pc) == [Idle EXCEPT !.op = op, !.pc = pc]

CreateWorkflow(t, n, d) ==
    /\ IdsLeft(Workflow, {"create", "duplicate"})
    /\ Begin(t, [Asks("create", "claim") EXCEPT !.n = n, !.d = d])

DuplicateWorkflow(t, w, n) ==
    /\ Visible(w) /\ IdsLeft(Workflow, {"create", "duplicate"})
    /\ Begin(t, [Asks("duplicate", "claim") EXCEPT !.n = n, !.d = Draft(w)])

(* PUT with a name, a definition or both; rename is PUT with a name only. *)
UpdateWorkflow(t, w, n, d) ==
    LET renamed == n \notin {Null, NameOf(w)}
        named == IF renamed THEN {<<w, "name">>} ELSE {}
        drawn == IF d # Null THEN {<<w, "draft">>} ELSE {}
    IN /\ Visible(w)
       /\ Begin(t, [Asks("update", IF renamed THEN "claim" ELSE "flush") EXCEPT
                       !.w = w, !.n = n, !.d = d,
                       !.writes = [c \in named \cup drawn |->
                                      IF c[2] = "name" THEN n ELSE d]])

DeleteWorkflow(t, w) ==
    Visible(w) /\ Begin(t, [Asks("delete", "live") EXCEPT !.w = w])

(* Restoring what is not deleted changes nothing. *)
RestoreWorkflow(t, w) ==
    /\ Exists(w) /\ db[<<w, "deleted">>]
    /\ Begin(t, [Asks("restore", "flush") EXCEPT
                    !.w = w, !.writes = [c \in {<<w, "deleted">>} |-> FALSE]])

CompileWorkflow(t, w) ==
    /\ Visible(w) /\ Draft(w) \in Valid /\ IdsLeft(Version, {"compile"})
    /\ Begin(t, [Asks("compile", "number") EXCEPT !.w = w, !.d = Draft(w)])

AskVersion(t, op, v, d) ==
    /\ v \in UNION {VersionsOf(w) : w \in {x \in Workflow : Visible(x)}}
    /\ Begin(t, [Asks(op, "version") EXCEPT !.w = db[<<v, "of">>], !.v = v, !.d = d])

EditVersion(t, v, d) == AskVersion(t, "edit", v, d)
DeployVersion(t, v) == AskVersion(t, "deploy", v, Null)
RetireVersion(t, v) == AskVersion(t, "retire", v, Null)

RunDeployed(t, n) ==
    \E w \in Workflow : /\ Visible(w) /\ NameOf(w) = n
                        /\ Begin(t, [Asks("run", "live") EXCEPT !.w = w])

(* The TEST button: the draft runs, with no version attached. *)
RunDraft(t, w) ==
    /\ Visible(w) /\ Draft(w) \in Valid
    /\ Begin(t, [Asks("test", "commit") EXCEPT !.w = w, !.d = Draft(w)])

-----------------------------------------------------------------------------
(* Later SELECTs, each on what is committed by then.                       *)

Proceed(t, r) ==
    /\ req' = [req EXCEPT ![t] = r]
    /\ UNCHANGED <<db, runs, trail, started, appendVars>>

(* An exception leaves the handler; session_scope rolls back.              *)
Refuse(t) ==
    /\ req' = [req EXCEPT ![t] = Idle]
    /\ EntriesRolledBack(t)
    /\ UNCHANGED <<db, runs, trail, started>>

Held(t) ==
    \E w \in Workflow \ {req[t].w} : Exists(w) /\ NameOf(w) = req[t].n

(* _claim_name: deleted workflows keep their names, and the caller's own   *)
(* row does not count.                                                     *)
ClaimName(t) ==
    /\ req[t].pc = "claim"
    /\ \/ Held(t) /\ Refuse(t)
       \/ /\ ~Held(t) /\ req[t].op = "update"
          /\ Proceed(t, [req[t] EXCEPT !.pc = "flush"])
       \/ /\ ~Held(t) /\ req[t].op # "update"
          /\ \E w \in FreshIds(Workflow) :
                Proceed(t, [req[t] EXCEPT !.pc = "flush", !.w = w,
                    !.writes = [c \in {w} \X {"name", "deleted", "draft"} |->
                                   CASE c[2] = "name" -> req[t].n
                                     [] c[2] = "deleted" -> FALSE
                                     [] c[2] = "draft" -> req[t].d]])

SetStatus(vs, s) == [c \in vs \X {"status"} |-> s]

ReadVersion(t) ==
    LET r == req[t]
        status == StatusOf(r.v)
    IN /\ r.pc = "version"
       /\ \/ /\ r.op = "edit" /\ status = "draft"
             /\ Proceed(t, [r EXCEPT !.pc = "flush",
                               !.writes = [c \in {<<r.v, "definition">>} |-> r.d]])
          \/ /\ r.op = "retire" /\ status = "deployed"
             /\ Proceed(t, [r EXCEPT !.pc = "flush",
                               !.writes = SetStatus({r.v}, "retired")])
          \/ /\ r.op = "deploy" /\ status # "deployed"
             /\ Proceed(t, [r EXCEPT !.pc = "incumbents"])
          \/ /\ r.op = "deploy" /\ status = "deployed"
             /\ Proceed(t, [r EXCEPT !.pc = "tail"])
          \/ /\ \/ r.op = "edit" /\ status # "draft"
                \/ r.op = "retire" /\ status # "deployed"
             /\ Refuse(t)

(* Mutant: promoted first, then every incumbent retired, itself too. *)
ReadIncumbents_PromotedFirst(t) ==
    LET r == req[t]
        incumbents == Deployed(r.w)
    IN /\ r.pc = "incumbents"
       /\ Proceed(t, [r EXCEPT !.pc = "flush",
             !.writes = [c \in (incumbents \cup {r.v}) \X {"status"} |->
                            IF c[1] \in incumbents THEN "retired" ELSE "deployed"]])

(* The incumbents are retired, then the version promoted: if another       *)
(* request has deployed this very version meanwhile, it is among them.     *)
ReadIncumbents(t) ==
    LET r == req[t]
        incumbents == Deployed(r.w)
    IN /\ r.pc = "incumbents"
       /\ Proceed(t, [r EXCEPT !.pc = "flush",
             !.writes = [c \in (incumbents \cup {r.v}) \X {"status"} |->
                            IF c[1] = r.v THEN "deployed" ELSE "retired"]])

(* delete asks for no deployed version, a call by name for exactly one:    *)
(* scalar_one_or_none raises when there are two.                           *)
ReadLive(t) ==
    LET r == req[t]
        live == Deployed(r.w)
        mayRun == Cardinality(live) = 1 /\ \A v \in live : DefinitionOf(v) \in Valid
    IN /\ r.pc = "live"
       /\ \/ /\ r.op = "delete" /\ live = {}
             /\ Proceed(t, [r EXCEPT !.pc = "flush",
                               !.writes = [c \in {<<r.w, "deleted">>} |-> TRUE]])
          \/ /\ r.op = "run" /\ mayRun
             /\ \E v \in live :
                   Proceed(t, [r EXCEPT !.pc = "commit", !.v = v, !.d = DefinitionOf(v)])
          \/ /\ \/ r.op = "delete" /\ live # {}
                \/ r.op = "run" /\ ~mayRun
             /\ Refuse(t)

(* _next_version: one more than the highest minor number so far. *)
NextVersion(w) ==
    LET minors == {db[<<v, "number">>] : v \in VersionsOf(w)}
        highest == CHOOSE k \in minors \cup {-1} : \A j \in minors : j <= k
    IN highest + 1

NumberVersion(t) ==
    LET r == req[t]
    IN /\ r.pc = "number"
       /\ \E v \in FreshIds(Version) :
             Proceed(t, [r EXCEPT !.pc = "flush", !.v = v,
                !.writes = [c \in {v} \X {"of", "number", "status", "definition"} |->
                               CASE c[2] = "of" -> r.w
                                 [] c[2] = "number" -> NextVersion(r.w)
                                 [] c[2] = "status" -> "draft"
                                 [] c[2] = "definition" -> r.d]])

-----------------------------------------------------------------------------
(* Writing                                                                 *)

(* Unique keys a set of cell values stands for: a tenant's name, and a     *)
(* workflow's version number.                                              *)
Keys(f) ==
    {<<"name", f[c]>> : c \in {x \in DOMAIN f : x[2] = "name" /\ f[x] # Null}}
      \cup {<<"version", f[<<c[1], "of">>], f[c]>> :
               c \in {x \in DOMAIN f : x[2] = "number" /\ f[x] # Null}}

Others(t) == [c \in {x \in Cell : x[1] \notin RowsOf(DOMAIN req[t].writes)} |-> db[c]]

(* A row, or a unique key it holds or releases, is in flight with another. *)
Waits(t) ==
    \E u \in Req \ {t} :
        \/ RowsOf(Pending(u)) \cap RowsOf(DOMAIN req[t].writes) # {}
        \/ Pending(u) # {} /\ Keys(req[t].writes)
               \cap (Keys(req[u].writes) \cup Keys([c \in Pending(u) |-> db[c]])) # {}

(* Mutant: the constraints are not there. *)
Violates_Never(t) == FALSE

(* uq_workflow_tenant_name, uq_workflow_version_number *)
Violates(t) == Keys(req[t].writes) \cap Keys(Others(t)) # {}

(* Mutant: retiring leaves no entry. *)
Audited_NotRetire(op) == op \in {"compile", "deploy"}

Audited(op) == op \in {"compile", "deploy", "retire"}

Flush(t) ==
    /\ req[t].pc = "flush" /\ ~Waits(t)
    /\ \/ Violates(t) /\ Refuse(t)
       \/ /\ ~Violates(t)
          /\ Proceed(t, [req[t] EXCEPT
                            !.pc = IF Audited(req[t].op) THEN "tail" ELSE "commit"])

(* AuditRepository.append: the tail is read, then the entry inserted. *)
ReadTail(t) ==
    /\ req[t].pc = "tail"
    /\ TailRead(t)
    /\ req' = [req EXCEPT ![t].pc = "append"]
    /\ UNCHANGED <<db, runs, trail, started>>

AppendEntry(t) ==
    /\ req[t].pc = "append"
    /\ EntryAdded(t)
    /\ req' = [req EXCEPT ![t].pc = "commit"]
    /\ UNCHANGED <<db, runs, trail, started>>

(* Mutant: an entry on a tail that is no longer the last waits. *)
AppendRefused_Waits(t) == FALSE

AppendRefused(t) == req[t].pc = "append" /\ ~IsLast(t) /\ Refuse(t)

Commit(t) ==
    LET r == req[t]
    IN /\ r.pc = "commit"
       /\ db' = [c \in Cell |-> IF c \in DOMAIN r.writes THEN r.writes[c] ELSE db[c]]
       /\ runs' = IF r.op \in {"run", "test"}
                  THEN runs \cup {[version |-> r.v, definition |-> r.d]} ELSE runs
       /\ trail' = IF appended[t] > 0 THEN trail \o <<[op |-> r.op, v |-> r.v]>> ELSE trail
       /\ EntriesCommitted(t)
       /\ req' = [req EXCEPT ![t] = Idle]
       /\ UNCHANGED started

(* The handler raises elsewhere, or the process dies. *)
Abort(t) == req[t].pc # "idle" /\ Refuse(t)

Arrive(t) ==
    \/ \E n \in Name, d \in Definition : CreateWorkflow(t, n, d)
    \/ \E w \in Workflow, n \in Name : DuplicateWorkflow(t, w, n)
    \/ \E w \in Workflow, n \in Name \cup {Null}, d \in Definition \cup {Null} :
          UpdateWorkflow(t, w, n, d)
    \/ \E w \in Workflow : \/ DeleteWorkflow(t, w) \/ RestoreWorkflow(t, w)
                           \/ CompileWorkflow(t, w) \/ RunDraft(t, w)
    \/ \E v \in Version : \/ DeployVersion(t, v) \/ RetireVersion(t, v)
                          \/ \E d \in Definition : EditVersion(t, v, d)
    \/ \E n \in Name : RunDeployed(t, n)

Step(t) ==
    \/ ClaimName(t) \/ ReadVersion(t) \/ ReadIncumbents(t) \/ ReadLive(t)
    \/ NumberVersion(t) \/ Flush(t)
    \/ ReadTail(t) \/ AppendEntry(t) \/ AppendRefused(t) \/ Commit(t)

StudioNext ==
    /\ \E t \in Req : Arrive(t) \/ Step(t) \/ Abort(t)
    /\ UNCHANGED inTurn

StudioSpec == StudioInit /\ [][StudioNext]_studioVars

-----------------------------------------------------------------------------
(* Properties *)

(* Types: a row is there with all its columns or not at all, a version     *)
(* belongs to a workflow that is there, and the trail has every entry.     *)
StudioTypeOK ==
    /\ \A w \in Workflow :
          \/ \A f \in {"name", "deleted", "draft"} : db[<<w, f>>] = Null
          \/ NameOf(w) \in Name /\ Draft(w) \in Definition /\ db[<<w, "deleted">>] \in BOOLEAN
    /\ \A v \in Version :
          \/ \A f \in {"of", "number", "status", "definition"} : db[<<v, f>>] = Null
          \/ /\ db[<<v, "of">>] \in Workflow /\ Exists(db[<<v, "of">>])
             /\ db[<<v, "number">>] \in Nat
             /\ StatusOf(v) \in {"draft", "deployed", "retired"}
             /\ DefinitionOf(v) \in Definition
    /\ Len(trail) = entries

(* A name addresses one workflow of the tenant, whatever creates,          *)
(* duplicates, renames, deletes and restores race for it.                  *)
NamesAreAddresses ==
    \A w, x \in {y \in Workflow : Exists(y)} : NameOf(w) = NameOf(x) => w = x

(* The versions of a workflow are numbered from 0 without gap or repeat,   *)
(* also when two requests compile it at once.                              *)
NumbersAreASequence ==
    \A w \in Workflow :
        {db[<<v, "number">>] : v \in VersionsOf(w)} = 0..(Cardinality(VersionsOf(w)) - 1)

(* Deploying never leaves a name that resolved to a version resolving to   *)
(* none: only a request to retire does.                                    *)
OnlyRetiringUnresolves ==
    \A w \in Workflow :
        Deployed(w) # {} /\ Deployed(w)' = {} =>
            \E t \in Req : req[t].op = "retire" /\ req[t].w = w /\ req[t].pc = "commit"

(* What runs by name was deployed, and the audit log says so. *)
LiveRunsWereDeployed ==
    \A r \in runs : r.version # Null =>
        \E i \in 1..Len(trail) : trail[i].op = "deploy" /\ trail[i].v = r.version

(* A flush waits for a row or a key in flight, an entry for an uncommitted *)
(* one on its tail.                                                        *)
HeldUp(t) ==
    \/ req[t].pc = "flush" /\ Waits(t)
    \/ req[t].pc = "append" /\ IsLast(t) /\ \E u \in Req \ {t} : appended[u] # 0

(* Requests hold rows, keys and the end of the audit log while they wait   *)
(* for others', yet never all of those in flight wait for each other.      *)
SomebodyGoesOn == InFlight # {} => \E t \in InFlight : ~HeldUp(t)

(* Among the requests in flight one can always take its next step, and     *)
(* nothing but such a wait keeps another from it.  Each has finitely many  *)
(* steps, so each ends.                                                    *)
NoRequestsDeadlock == SomebodyGoesOn /\ \A t \in InFlight : HeldUp(t) \/ ENABLED Step(t)

(* models.py: "At most one deployed version per workflow". *)
AtMostOneDeployed == \A w \in Workflow : Cardinality(Deployed(w)) <= 1

(* models.py: "A deployed version is immutable", and a retired one is the  *)
(* record of what earlier runs did.                                        *)
FrozenOnceDeployed ==
    \A v \in Version : StatusOf(v) \in {"deployed", "retired"} =>
        DefinitionOf(v)' = DefinitionOf(v)

(* studio.py on run_deployed: "a workflow with a deployed version cannot   *)
(* be deleted at all".                                                     *)
DeletedIsNotDeployed ==
    \A w \in Workflow : Exists(w) /\ ~Visible(w) => Deployed(w) = {}

(* The last entry about a workflow's versions says which one is live. *)
LastChange(w) ==
    LET about == {i \in 1..Len(trail) :
                     trail[i].op \in {"deploy", "retire"} /\ trail[i].v \in VersionsOf(w)}
    IN {trail[i] : i \in {j \in about : \A k \in about : k <= j}}

(* What is live can be told from the audit log alone. *)
TrailTellsWhatIsLive ==
    \A w \in Workflow :
        Deployed(w) = {e.v : e \in {x \in LastChange(w) : x.op = "deploy"}}

(* What holds however requests race, taken together.                       *)
StudioInvariant ==
    StudioTypeOK /\ NamesAreAddresses /\ NumbersAreASequence /\ LiveRunsWereDeployed

(* What the router documents of the version that is live.                   *)
LiveIsOnRecord == AtMostOneDeployed /\ DeletedIsNotDeployed /\ TrailTellsWhatIsLive

(* Of requests that follow one another: what is live is one version, of a   *)
(* workflow that is there, and the audit log tells which.                  *)
LiveIsOnRecordInTurn == inTurn => LiveIsOnRecord

(* A deployment is kept: nothing but a retirement leaves a name without a   *)
(* version, and, of requests that follow one another, what was deployed is  *)
(* never edited.                                                           *)
DeploymentsAreKept ==
    [][OnlyRetiringUnresolves /\ (inTurn => FrozenOnceDeployed)]_studioVars
=============================================================================
