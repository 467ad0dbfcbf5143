------------------------------- MODULE AuditLog -------------------------------
(***************************************************************************)
(* AuditRepository.append (gravai_core/repositories.py) inside the         *)
(* transactions of session_scope (gravai_core/db.py): each request is one  *)
(* transaction at READ COMMITTED that appends one or more entries to its   *)
(* tenant's chain and commits when its handler returns.                    *)
(*                                                                         *)
(* _tail is `SELECT ... ORDER BY seq DESC LIMIT 1 FOR UPDATE`: the row is  *)
(* chosen from the snapshot the statement starts with (ReadTail), then     *)
(* locked, waiting for its holder if there is one (LockTail).  A row that  *)
(* another transaction inserted meanwhile is not seen.  The insert meets   *)
(* the unique constraint on (tenant_id, seq).  On SQLite (RowLocks FALSE)  *)
(* nothing is locked by the select and the first insert of a transaction   *)
(* takes the database's one write lock.                                    *)
(***************************************************************************)
EXTENDS AuditChain, FiniteSets

CONSTANTS Tenant, Txn,
          TenantOf,      \* the tenant each transaction is bound to
          MaxAppends,    \* entries one request appends at most
          RowLocks       \* the dialect is PostgreSQL

ASSUME TenantOfAssumption == TenantOf \in [Txn -> Tenant]
ASSUME MaxAppendsAssumption == MaxAppends \in Nat
ASSUME RowLocksAssumption == RowLocks \in BOOLEAN

VARIABLES log,     \* per tenant, the committed rows of audit_log
          own,     \* per transaction, the rows it has inserted, uncommitted
          pc,      \* where each transaction is
          tail,    \* the row the transaction's _tail returned, or NoTail
          locks    \* seq numbers of the rows each transaction has locked

auditVars == <<log, own, pc, tail, locks>>

(* The genesis of a chain, for a select that returns no row. *)
NoTail == [seq |-> 0, hash |-> GENESIS_HASH]

Active(t) == pc[t] \notin {"committed", "rolledback"}

Rivals(t) == {u \in Txn \ {t} : TenantOf[u] = TenantOf[t]}

Visible(t) == log[TenantOf[t]] \cup own[t]

Content(t) == <<t, Cardinality(own[t]) + 1>>

AuditInit ==
    /\ log = [x \in Tenant |-> {}]
    /\ own = [t \in Txn |-> {}]
    /\ pc = [t \in Txn |-> "idle"]
    /\ tail = [t \in Txn |-> NoTail]
    /\ locks = [t \in Txn |-> {}]

(* Mutant: the tail is ordered the wrong way round. *)
ReadTail_Oldest(t) ==
    /\ pc[t] = "idle" /\ Cardinality(own[t]) < MaxAppends
    /\ \/ /\ Visible(t) = {}
          /\ tail' = [tail EXCEPT ![t] = NoTail]
          /\ pc' = [pc EXCEPT ![t] = "insert"]
       \/ \E r \in Visible(t) :
             /\ \A q \in Visible(t) : r.seq <= q.seq
             /\ tail' = [tail EXCEPT ![t] = [seq |-> r.seq, hash |-> r.hash]]
             /\ pc' = [pc EXCEPT ![t] = IF RowLocks THEN "lock" ELSE "insert"]
    /\ UNCHANGED <<log, own, locks>>

(* The statement of _tail starts: the newest visible row is the one it     *)
(* will return, whatever commits from here on.                             *)
ReadTail(t) ==
    /\ pc[t] = "idle" /\ Cardinality(own[t]) < MaxAppends
    /\ \/ /\ Visible(t) = {}
          /\ tail' = [tail EXCEPT ![t] = NoTail]
          /\ pc' = [pc EXCEPT ![t] = "insert"]
       \/ \E r \in Visible(t) :
             /\ \A q \in Visible(t) : q.seq <= r.seq
             /\ tail' = [tail EXCEPT ![t] = [seq |-> r.seq, hash |-> r.hash]]
             /\ pc' = [pc EXCEPT ![t] = IF RowLocks THEN "lock" ELSE "insert"]
    /\ UNCHANGED <<log, own, locks>>

LockTail(t) ==
    /\ pc[t] = "lock"
    /\ \A u \in Rivals(t) : tail[t].seq \notin locks[u]
    /\ locks' = [locks EXCEPT ![t] = @ \cup {tail[t].seq}]
    /\ pc' = [pc EXCEPT ![t] = "insert"]
    /\ UNCHANGED <<log, own, tail>>

(* Mutant: the next entry reuses the tail's number. *)
NextRow_SameSeq(t) == AuditRow(tail[t].seq, Content(t), tail[t].hash)

NextRow(t) == AuditRow(tail[t].seq + 1, Content(t), tail[t].hash)

(* Mutant: there is no unique constraint on (tenant_id, seq). *)
Taken_NoConstraint(t) == FALSE

(* The key of the row to insert is already committed: uq_audit_tenant_seq. *)
Taken(t) == \E r \in log[TenantOf[t]] : r.seq = tail[t].seq + 1

(* An insert waits while another transaction's uncommitted row has its key *)
(* (on SQLite, while another transaction is writing at all).               *)
Blocked(t) ==
    IF RowLocks
    THEN \E u \in Rivals(t) : \E r \in own[u] : r.seq = tail[t].seq + 1
    ELSE own[t] = {} /\ \E u \in Txn \ {t} : own[u] # {}

(* Mutant: a rollback that keeps the row locks. *)
Rollback_KeepsLocks(t) ==
    /\ own' = [own EXCEPT ![t] = {}]
    /\ pc' = [pc EXCEPT ![t] = "rolledback"]
    /\ UNCHANGED <<log, tail, locks>>

Rollback(t) ==
    /\ own' = [own EXCEPT ![t] = {}]
    /\ locks' = [locks EXCEPT ![t] = {}]
    /\ pc' = [pc EXCEPT ![t] = "rolledback"]
    /\ UNCHANGED <<log, tail>>

Insert(t) ==
    /\ pc[t] = "insert" /\ ~Blocked(t) /\ ~Taken(t)
    /\ own' = [own EXCEPT ![t] = @ \cup {NextRow(t)}]
    /\ pc' = [pc EXCEPT ![t] = "idle"]
    /\ UNCHANGED <<log, tail, locks>>

(* The unique constraint refuses the row; the exception leaves the handler *)
(* and session_scope rolls the request back.                               *)
InsertRefused(t) ==
    /\ pc[t] = "insert" /\ ~Blocked(t) /\ Taken(t)
    /\ Rollback(t)

(* session_scope commits on clean exit: every row, and every lock released. *)
Commit(t) ==
    /\ pc[t] = "idle" /\ own[t] # {}
    /\ log' = [log EXCEPT ![TenantOf[t]] = @ \cup own[t]]
    /\ own' = [own EXCEPT ![t] = {}]
    /\ locks' = [locks EXCEPT ![t] = {}]
    /\ pc' = [pc EXCEPT ![t] = "committed"]
    /\ UNCHANGED tail

(* The handler raises, or the process dies and the connection with it. *)
Abort(t) ==
    /\ Active(t)
    /\ Rollback(t)

AuditNext ==
    \E t \in Txn : \/ ReadTail(t) \/ LockTail(t) \/ Insert(t) \/ InsertRefused(t)
                   \/ Commit(t) \/ Abort(t)

AuditDone == (\A t \in Txn : ~Active(t)) /\ UNCHANGED auditVars

AuditSpec == AuditInit /\ [][AuditNext]_auditVars

(* A request runs on until it ends; nothing obliges a handler to fail.     *)
AuditFairness ==
    \A t \in Txn : WF_auditVars(ReadTail(t) \/ LockTail(t) \/ Insert(t)
                                \/ InsertRefused(t) \/ Commit(t))

FairAuditSpec == AuditInit /\ [][AuditNext \/ AuditDone]_auditVars /\ AuditFairness

-----------------------------------------------------------------------------
(* Properties *)

(* Types: committed and pending rows are numbered from 1 on. *)
AuditTypeOK ==
    /\ log = [x \in Tenant |-> log[x]] /\ own = [t \in Txn |-> own[t]]
    /\ pc \in [Txn -> {"idle", "lock", "insert", "committed", "rolledback"}]
    /\ \A x \in Tenant : \A r \in log[x] : r.seq \in Nat \ {0}
    /\ \A t \in Txn : \A r \in own[t] : r.seq \in Nat \ {0}
    /\ tail = [t \in Txn |-> tail[t]]
    /\ \A t \in Txn : tail[t].seq \in Nat
    /\ locks \in [Txn -> SUBSET Nat]

(* What the console's "verify integrity" recomputes holds after every      *)
(* interleaving of appends, commits and rollbacks, for every tenant, and   *)
(* the chain starts at 1 with no two rows in one place.                    *)
ChainIntact ==
    \A x \in Tenant :
        /\ VerifyChain(log[x])
        /\ \A r \in log[x] : r.seq = 1 \/ \E q \in log[x] : q.seq = r.seq - 1
        /\ \A q, r \in log[x] : q.seq = r.seq => q = r

(* At most one transaction of a tenant holds uncommitted entries, and they *)
(* extend that tenant's committed chain: what would commit, verifies.      *)
PendingExtendsChain ==
    \A t \in Txn : own[t] # {} =>
        /\ VerifyChain(Visible(t))
        /\ \A q \in log[TenantOf[t]], r \in own[t] : q.seq < r.seq
        /\ \A u \in Rivals(t) : own[u] = {}

(* What appending rests on, taken together: what is committed verifies, and *)
(* so would what is in flight.                                             *)
AuditInvariant == AuditTypeOK /\ ChainIntact /\ PendingExtendsChain

(* The log is append-only: no step removes or changes a committed row, and *)
(* what a step adds comes after everything committed before it.            *)
AppendOnly ==
    [][\A x \in Tenant :
          /\ log[x] \subseteq log'[x]
          /\ \A q \in log[x], r \in log'[x] \ log[x] : q.seq < r.seq]_auditVars

(* Every request ends: waiting for a tail's lock or for a rival's row is   *)
(* never a deadlock.                                                       *)
EveryRequestEnds == \A t \in Txn : <>(~Active(t))

(* AuditAppend for the requests of one tenant. *)
Requests(x) == {t \in Txn : TenantOf[t] = x}

Appending(x) == INSTANCE AuditAppend WITH
                    Req <- Requests(x),
                    entries <- Cardinality(log[x]),
                    tail <- [t \in Requests(x) |-> tail[t].seq],
                    appended <- [t \in Requests(x) |-> Cardinality(own[t])]

(* Rows, hashes, snapshots, locks and the unique constraint together do    *)
(* for the requests of each tenant what AuditAppend says: an entry is      *)
(* added on the current tail only, by one request at a time, and counts    *)
(* when its request commits.  (This is Appending(x)!AppendSpec for every x, *)
(* with the quantifier where TLC can evaluate it.)                         *)
ImplementsAuditAppend ==
    /\ \A x \in Tenant : Appending(x)!AppendInit
    /\ [][\A x \in Tenant : [Appending(x)!AppendNext]_(Appending(x)!appendVars)]_auditVars
=============================================================================
