---------------------------- MODULE AuditLogProofs ----------------------------
(***************************************************************************)
(* The audit chain is intact after every interleaving of any number of     *)
(* requests, tenants and appends, on either dialect, and is append-only;   *)
(* the requests of every tenant append as AuditAppend says; and            *)
(* verification tells what happened to stored rows, whatever was lost or   *)
(* altered.                                                                *)
(*                                                                         *)
(* verify_chain's own condition is not inductive: it says nothing of rows  *)
(* in flight.  The strengthening is that the committed rows of a tenant,   *)
(* and those rows together with what any one transaction has inserted,     *)
(* are chained without a hole down to 1 (Chained), that what is in flight  *)
(* comes after what is committed, and that a transaction about to insert   *)
(* read its tail from the rows it can see.                                 *)
(***************************************************************************)
EXTENDS AuditLog, AuditStorage, FiniteSetTheorems, WellFoundedInduction, TLAPS

Chained(S) ==
    /\ \A r \in S : r.seq \in Nat \ {0} /\ r.hash = ComputeHash(r.seq, r.content, r.prevHash)
    /\ \A q, r \in S : q.seq = r.seq => q = r
    /\ \A r \in S : \A i \in 1..r.seq : \E q \in S : q.seq = i
    /\ \A r \in S : r.seq = 1 => r.prevHash = GENESIS_HASH
    /\ \A q, r \in S : r.seq = q.seq + 1 => r.prevHash = q.hash

TailRead(t) ==
    /\ \/ tail[t].seq = 0 /\ tail[t].hash = GENESIS_HASH
       \/ \E r \in Visible(t) : r.seq = tail[t].seq /\ r.hash = tail[t].hash
    /\ \A r \in own[t] : r.seq <= tail[t].seq

LogChained == \A x \in Tenant : Chained(log[x])

FlightChained ==
    \A t \in Txn :
        /\ Chained(Visible(t))
        /\ \A q \in log[TenantOf[t]], r \in own[t] : q.seq < r.seq
        /\ own[t] # {} => Active(t) /\ \A u \in Rivals(t) : own[u] = {}

TailsRead == \A t \in Txn : pc[t] \in {"lock", "insert"} => TailRead(t)

Inv == AuditTypeOK /\ LogChained /\ FlightChained /\ TailsRead

(* A chained set of rows passes verify_chain and has no hole. *)
LEMMA ChainedVerifies ==
    ASSUME NEW S, Chained(S)
    PROVE  /\ VerifyChain(S)
           /\ \A r \in S : r.seq = 1 \/ \E q \in S : q.seq = r.seq - 1
           /\ \A q, r \in S : q.seq = r.seq => q = r
  <1>1. ASSUME NEW r \in S
        PROVE  r.seq = 1 \/ \E q \in S : q.seq = r.seq - 1
    <2>1. r.seq \in Nat \ {0}
      BY DEF Chained
    <2>2. CASE r.seq # 1
      <3>1. r.seq - 1 \in 1..r.seq
        BY <2>1, <2>2
      <3> QED
        BY <3>1 DEF Chained
    <2> QED
      BY <2>2
  <1>2. ASSUME NEW r \in S
        PROVE  Follows(S, r)
    <2>1. Before(S, r) = {} => r.prevHash = GENESIS_HASH
      <3>1. ASSUME Before(S, r) = {}
            PROVE  r.seq = 1
        <4>1. \A q \in S : q.seq \in Nat \ {0}
          BY DEF Chained
        <4> QED
          BY <1>1, <3>1, <4>1 DEF Before
      <3> QED
        BY <3>1 DEF Chained
    <2>2. ASSUME NEW p \in S, IsPredecessor(S, p, r)
          PROVE  r.seq = p.seq + 1 /\ r.prevHash = p.hash
      <3>1. /\ \A q \in S : q.seq \in Nat \ {0}
            /\ p.seq < r.seq
            /\ \A q \in S : q.seq < r.seq => q.seq <= p.seq
        BY <2>2 DEF IsPredecessor, Before, Chained
      <3>2. PICK q \in S : q.seq = r.seq - 1
        BY <1>1, <3>1
      <3>3. r.seq = p.seq + 1
        BY <3>1, <3>2
      <3> QED
        BY <3>3 DEF Chained
    <2>3. r.hash = ComputeHash(r.seq, r.content, r.prevHash)
      BY DEF Chained
    <2> QED
      BY <2>1, <2>2, <2>3 DEF Follows
  <1>3. \A q, r \in S : q.seq = r.seq => q = r
    BY DEF Chained
  <1> QED
    BY <1>1, <1>2, <1>3 DEF VerifyChain

(* Appending the row after the newest one keeps a chain chained. *)
LEMMA ChainedExtends ==
    ASSUME NEW S, Chained(S), NEW n \in Nat, NEW content, NEW h,
           \A r \in S : r.seq <= n,
           \/ n = 0 /\ h = GENESIS_HASH
           \/ \E r \in S : r.seq = n /\ r.hash = h
    PROVE  Chained(S \cup {AuditRow(n + 1, content, h)})
  <1> DEFINE new == AuditRow(n + 1, content, h)
             T == S \cup {new}
  <1>1. /\ new.seq = n + 1 /\ new.prevHash = h
        /\ new.hash = ComputeHash(new.seq, new.content, new.prevHash)
    BY DEF AuditRow
  <1>2. \A r \in S : r.seq \in Nat \ {0}
    BY DEF Chained
  <1> HIDE DEF new
  <1>3. \A r \in T : r.seq \in Nat \ {0} /\ r.hash = ComputeHash(r.seq, r.content, r.prevHash)
    BY <1>1 DEF Chained
  <1>4. \A q, r \in T : q.seq = r.seq => q = r
    BY <1>1, <1>2 DEF Chained
  <1>5. ASSUME NEW r \in T, NEW i \in 1..r.seq
        PROVE  \E q \in T : q.seq = i
    <2>1. CASE r \in S
      BY <2>1 DEF Chained
    <2>2. CASE r = new /\ i = n + 1
      BY <1>1, <2>2
    <2>3. CASE r = new /\ i \in 1..n
      <3>1. PICK p \in S : p.seq = n
        BY <2>3
      <3>2. \E q \in S : q.seq = i
        BY <2>3, <3>1 DEF Chained
      <3> QED
        BY <3>2
    <2> QED
      BY <1>1, <2>1, <2>2, <2>3
  <1>6. \A r \in T : r.seq = 1 => r.prevHash = GENESIS_HASH
    BY <1>1, <1>2 DEF Chained
  <1>7. ASSUME NEW q \in T, NEW r \in T, r.seq = q.seq + 1
        PROVE  r.prevHash = q.hash
    <2>1. CASE r \in S /\ q \in S
      BY <1>7, <2>1 DEF Chained
    <2>2. CASE r = new /\ q \in S
      BY <1>1, <1>2, <1>7, <2>2 DEF Chained
    <2>3. CASE q = new
      BY <1>1, <1>2, <1>7, <2>3
    <2> QED
      BY <2>1, <2>2, <2>3
  <1> QED
    BY <1>3, <1>4, <1>5, <1>6, <1>7 DEF Chained, new

-----------------------------------------------------------------------------

(* The state stays of its type. *)
THEOREM AuditTypeCorrectness == AuditSpec => []AuditTypeOK
  <1>1. AuditInit => AuditTypeOK
    BY DEF AuditInit, AuditTypeOK, NoTail
  <1>2. AuditTypeOK /\ [AuditNext]_auditVars => AuditTypeOK'
    <2> SUFFICES ASSUME AuditTypeOK, [AuditNext]_auditVars
                 PROVE  AuditTypeOK'
      OBVIOUS
    <2> USE TenantOfAssumption
    <2>1. ASSUME NEW t \in Txn, ReadTail(t)
          PROVE  AuditTypeOK'
      BY <2>1 DEF ReadTail, AuditTypeOK, NoTail, Visible
    <2>2. ASSUME NEW t \in Txn, LockTail(t)
          PROVE  AuditTypeOK'
      BY <2>2 DEF LockTail, AuditTypeOK
    <2>3. ASSUME NEW t \in Txn, Insert(t)
          PROVE  AuditTypeOK'
      <3>1. NextRow(t).seq \in Nat \ {0}
        BY DEF NextRow, AuditRow, AuditTypeOK
      <3> QED
        BY <2>3, <3>1 DEF Insert, AuditTypeOK
    <2>4. ASSUME NEW t \in Txn, InsertRefused(t) \/ Abort(t)
          PROVE  AuditTypeOK'
      BY <2>4 DEF InsertRefused, Abort, Rollback, AuditTypeOK
    <2>5. ASSUME NEW t \in Txn, Commit(t)
          PROVE  AuditTypeOK'
      BY <2>5 DEF Commit, AuditTypeOK
    <2>6. CASE UNCHANGED auditVars
      BY <2>6 DEF AuditTypeOK, auditVars
    <2> QED
      BY <2>1, <2>2, <2>3, <2>4, <2>5, <2>6 DEF AuditNext
  <1> QED
    BY <1>1, <1>2, PTL DEF AuditSpec

(* When a transaction inserts, its tail is the last committed or own row,  *)
(* and no rival has anything in flight.                                    *)
LEMMA InsertIsLast ==
    ASSUME Inv, NEW t \in Txn, Insert(t)
    PROVE  /\ \A r \in Visible(t) : r.seq <= tail[t].seq
           /\ \A u \in Rivals(t) : own[u] = {}
  <1> USE TenantOfAssumption
  <1>1. tail[t].seq \in Nat /\ ~Taken(t) /\ ~Blocked(t) /\ TailRead(t)
    BY DEF Insert, Inv, AuditTypeOK, TailsRead
  <1>2. ASSUME NEW r \in log[TenantOf[t]]
        PROVE  r.seq <= tail[t].seq
    <2>1. Chained(log[TenantOf[t]]) /\ r.seq \in Nat \ {0}
      BY DEF Inv, LogChained, Chained
    <2>2. ASSUME tail[t].seq < r.seq
          PROVE  Taken(t)
      <3>1. tail[t].seq + 1 \in 1..r.seq
        BY <1>1, <2>1, <2>2
      <3> QED
        BY <2>1, <3>1 DEF Chained, Taken
    <2> QED
      BY <1>1, <2>1, <2>2
  <1>3. ASSUME NEW u \in Rivals(t), own[u] # {}
        PROVE  FALSE
    <2>1. u \in Txn /\ TenantOf[u] = TenantOf[t] /\ u # t /\ t \in Rivals(u)
      BY DEF Rivals
    <2>2. own[t] = {}
      BY <1>3, <2>1 DEF Inv, FlightChained
    <2>3. RowLocks
      BY <1>1, <1>3, <2>1, <2>2, RowLocksAssumption DEF Blocked
    <2>4. PICK r \in own[u] : TRUE
      BY <1>3
    <2>5. Chained(Visible(u)) /\ r \in Visible(u) /\ r.seq \in Nat \ {0}
      BY <2>1, <2>4 DEF Inv, FlightChained, Visible, AuditTypeOK
    <2>6. tail[t].seq < r.seq
      <3>1. CASE tail[t].seq = 0
        BY <2>5, <3>1
      <3>2. CASE \E q \in log[TenantOf[t]] : q.seq = tail[t].seq
        BY <2>1, <2>4, <3>2 DEF Inv, FlightChained
      <3> QED
        BY <1>1, <2>2, <3>1, <3>2 DEF TailRead, Visible
    <2>7. tail[t].seq + 1 \in 1..r.seq
      BY <1>1, <2>5, <2>6
    <2>8. PICK q \in Visible(u) : q.seq = tail[t].seq + 1
      BY <2>5, <2>7 DEF Chained
    <2>9. q \in own[u]
      BY <1>1, <2>1, <2>8 DEF Visible, Taken
    <2> QED
      BY <1>1, <2>3, <2>8, <2>9 DEF Blocked
  <1> QED
    BY <1>1, <1>2, <1>3 DEF Visible, TailRead

(* The strengthened invariant holds throughout. *)
THEOREM AuditInvariance == AuditSpec => []Inv
  <1> USE TenantOfAssumption
  <1>1. AuditInit => LogChained /\ FlightChained /\ TailsRead
    BY DEF AuditInit, LogChained, FlightChained, TailsRead, Chained, Visible
  <1>2. Inv /\ AuditTypeOK' /\ [AuditNext]_auditVars
            => (LogChained /\ FlightChained /\ TailsRead)'
    <2> SUFFICES ASSUME Inv, AuditTypeOK', [AuditNext]_auditVars
                 PROVE  (LogChained /\ FlightChained /\ TailsRead)'
      OBVIOUS
    <2>1. ASSUME NEW t \in Txn, ReadTail(t)
          PROVE  (LogChained /\ FlightChained /\ TailsRead)'
      <3>1. UNCHANGED <<log, own>> /\ Active(t)
        BY <2>1 DEF ReadTail, Active
      <3>2. \A u \in Txn \ {t} : tail'[u] = tail[u] /\ pc'[u] = pc[u]
        BY <2>1 DEF ReadTail, Inv, AuditTypeOK
      <3>3. pc'[t] \in {"lock", "insert"}
        BY <2>1 DEF ReadTail, Inv, AuditTypeOK
      <3>4. \A u \in Txn : Visible(u)' = Visible(u)
        BY <3>1 DEF Visible
      <3>5. TailRead(t)'
        <4>1. CASE Visible(t) = {} /\ tail' = [tail EXCEPT ![t] = NoTail]
          BY <3>1, <4>1 DEF TailRead, NoTail, Visible, Inv, AuditTypeOK
        <4>2. ASSUME NEW r \in Visible(t), \A q \in Visible(t) : q.seq <= r.seq,
                     tail' = [tail EXCEPT ![t] = [seq |-> r.seq, hash |-> r.hash]]
              PROVE  TailRead(t)'
          <5>1. tail'[t] = [seq |-> r.seq, hash |-> r.hash]
            BY <4>2 DEF Inv, AuditTypeOK
          <5> QED
            BY <3>1, <4>2, <5>1 DEF TailRead, Visible
        <4> QED
          BY <2>1, <4>1, <4>2 DEF ReadTail
      <3>6. TailsRead'
        BY <3>1, <3>2, <3>4, <3>5 DEF TailsRead, TailRead, Inv
      <3>7. FlightChained'
        BY <3>1, <3>2, <3>3, <3>4 DEF FlightChained, Inv, Active, Rivals
      <3> QED
        BY <3>1, <3>6, <3>7 DEF LogChained, Inv
    <2>2. ASSUME NEW t \in Txn, LockTail(t)
          PROVE  (LogChained /\ FlightChained /\ TailsRead)'
      <3>1. UNCHANGED <<log, own, tail>> /\ pc[t] = "lock"
        BY <2>2 DEF LockTail
      <3>2. pc' = [pc EXCEPT ![t] = "insert"]
        BY <2>2 DEF LockTail
      <3>3. \A u \in Txn : (Active(u)' <=> Active(u)) /\
                (pc'[u] \in {"lock", "insert"} => pc[u] \in {"lock", "insert"})
        BY <3>1, <3>2 DEF Active, Inv, AuditTypeOK
      <3>4. LogChained' /\ TailsRead'
        BY <3>1, <3>3 DEF LogChained, TailsRead, TailRead, Visible, Inv
      <3>5. FlightChained'
        BY <3>1, <3>3 DEF FlightChained, Visible, Rivals, Inv
      <3> QED
        BY <3>4, <3>5
    <2>3. ASSUME NEW t \in Txn, Insert(t)
          PROVE  (LogChained /\ FlightChained /\ TailsRead)'
      <3>1. /\ UNCHANGED <<log, tail>> /\ pc[t] = "insert" /\ tail[t].seq \in Nat
            /\ own' = [own EXCEPT ![t] = @ \cup {NextRow(t)}]
            /\ pc' = [pc EXCEPT ![t] = "idle"]
        BY <2>3 DEF Insert, Inv, AuditTypeOK
      <3>2. /\ own'[t] = own[t] \cup {NextRow(t)} /\ pc'[t] = "idle"
            /\ \A u \in Txn \ {t} : own'[u] = own[u] /\ pc'[u] = pc[u]
        BY <3>1 DEF Inv, AuditTypeOK
      <3>3. /\ \A r \in Visible(t) : r.seq <= tail[t].seq
            /\ \A u \in Rivals(t) : own[u] = {}
        BY <2>3, InsertIsLast
      <3>4. Visible(t)' = Visible(t) \cup {NextRow(t)}
        BY <3>1, <3>2 DEF Visible
      <3>5. NextRow(t).seq = tail[t].seq + 1
        BY DEF NextRow, AuditRow
      <3>6. Chained(Visible(t)')
        <4>1. TailRead(t)
          BY <3>1 DEF TailsRead, Inv
        <4>2. Chained(Visible(t))
          BY DEF FlightChained, Inv
        <4> QED
          BY <3>1, <3>3, <3>4, <4>1, <4>2, ChainedExtends DEF TailRead, NextRow
      <3>7. \A u \in Txn \ {t} : Visible(u)' = Visible(u)
        BY <3>1, <3>2 DEF Visible
      <3>8. \A q \in log[TenantOf[t]] : q.seq < NextRow(t).seq
        <4>1. \A q \in log[TenantOf[t]] : q.seq \in Nat
          BY DEF Inv, LogChained, Chained
        <4> QED
          BY <3>1, <3>3, <3>5, <4>1 DEF Visible
      <3>9. FlightChained'
        <4>1. ASSUME NEW u \in Txn
              PROVE  /\ Chained(Visible(u)')
                     /\ \A q \in log[TenantOf[u]], r \in own'[u] : q.seq < r.seq
                     /\ own'[u] # {} => Active(u)' /\ \A w \in Rivals(u) : own'[w] = {}
          <5>1. CASE u = t
            <6>1. Active(t)'
              BY <3>2 DEF Active
            <6>2. \A w \in Rivals(t) : own'[w] = {}
              BY <3>2, <3>3 DEF Rivals
            <6>3. \A q \in log[TenantOf[t]], r \in own'[t] : q.seq < r.seq
              BY <3>2, <3>8 DEF FlightChained, Inv
            <6> QED
              BY <3>6, <5>1, <6>1, <6>2, <6>3
          <5>2. CASE u \in Rivals(t)
            <6>1. own'[u] = {} /\ u # t
              BY <3>2, <3>3, <5>2 DEF Rivals
            <6> QED
              BY <3>7, <6>1 DEF FlightChained, Inv
          <5>3. CASE u # t /\ u \notin Rivals(t)
            <6>1. t \notin Rivals(u)
              BY <5>3 DEF Rivals
            <6> QED
              BY <3>2, <3>7, <5>3, <6>1 DEF FlightChained, Inv, Active, Rivals
          <5> QED
            BY <5>1, <5>2, <5>3
        <4> QED
          BY <3>1, <4>1 DEF FlightChained
      <3>10. TailsRead'
        BY <3>1, <3>2, <3>7 DEF TailsRead, TailRead, Inv
      <3> QED
        BY <3>1, <3>9, <3>10 DEF LogChained, Inv
    <2>4. ASSUME NEW t \in Txn, InsertRefused(t) \/ Abort(t)
          PROVE  (LogChained /\ FlightChained /\ TailsRead)'
      <3>1. Rollback(t)
        BY <2>4 DEF InsertRefused, Abort
      <3>2. /\ UNCHANGED <<log, tail>> /\ own'[t] = {} /\ pc'[t] = "rolledback"
            /\ \A u \in Txn \ {t} : own'[u] = own[u] /\ pc'[u] = pc[u]
        BY <3>1 DEF Rollback, Inv, AuditTypeOK
      <3>3. Chained(Visible(t)')
        BY <3>2 DEF Visible, LogChained, Inv
      <3>4. \A u \in Txn \ {t} : Visible(u)' = Visible(u)
        BY <3>2 DEF Visible
      <3>5. TailsRead'
        BY <3>2, <3>4 DEF TailsRead, TailRead, Inv
      <3>6. FlightChained'
        BY <3>2, <3>3, <3>4 DEF FlightChained, Inv, Active, Rivals
      <3> QED
        BY <3>2, <3>5, <3>6 DEF LogChained, Inv
    <2>5. ASSUME NEW t \in Txn, Commit(t)
          PROVE  (LogChained /\ FlightChained /\ TailsRead)'
      <3>1. /\ tail' = tail /\ own'[t] = {} /\ pc'[t] = "committed" /\ own[t] # {}
            /\ \A u \in Txn \ {t} : own'[u] = own[u] /\ pc'[u] = pc[u]
            /\ log'[TenantOf[t]] = Visible(t)
            /\ \A x \in Tenant \ {TenantOf[t]} : log'[x] = log[x]
        BY <2>5 DEF Commit, Inv, AuditTypeOK, Visible
      <3>2. \A u \in Rivals(t) : own[u] = {} /\ u # t /\ u \in Txn /\ TenantOf[u] = TenantOf[t]
        BY <3>1 DEF FlightChained, Inv, Rivals
      <3>3. LogChained'
        BY <3>1 DEF LogChained, FlightChained, Inv
      <3>4. ASSUME NEW u \in Txn
            PROVE  /\ Chained(Visible(u)')
                   /\ \A q \in log'[TenantOf[u]], r \in own'[u] : q.seq < r.seq
                   /\ own'[u] # {} => Active(u)' /\ \A w \in Rivals(u) : own'[w] = {}
                   /\ pc'[u] \in {"lock", "insert"} => TailRead(u)'
        <4>1. CASE u = t
          <5>1. Visible(t)' = log'[TenantOf[t]]
            BY <3>1 DEF Visible
          <5> QED
            BY <3>1, <3>3, <4>1, <5>1 DEF LogChained
        <4>2. CASE u \in Rivals(t)
          <5>1. Visible(u)' = log'[TenantOf[u]] /\ own'[u] = {}
            BY <3>1, <3>2, <4>2 DEF Visible
          <5>2. Visible(u) \subseteq Visible(u)'
            BY <3>1, <3>2, <4>2, <5>1 DEF Visible
          <5>3. pc'[u] \in {"lock", "insert"} => TailRead(u)'
            BY <3>1, <3>2, <4>2, <5>1, <5>2 DEF TailRead, TailsRead, Inv
          <5>4. Chained(log'[TenantOf[u]])
            BY <3>3, <4>2 DEF LogChained
          <5> QED
            BY <5>1, <5>3, <5>4
        <4>3. CASE u # t /\ u \notin Rivals(t)
          <5>1. /\ TenantOf[u] # TenantOf[t] /\ t \notin Rivals(u)
                /\ log'[TenantOf[u]] = log[TenantOf[u]] /\ own'[u] = own[u]
                /\ pc'[u] = pc[u]
            BY <3>1, <4>3 DEF Rivals
          <5>2. Visible(u)' = Visible(u)
            BY <5>1 DEF Visible
          <5>3. pc'[u] \in {"lock", "insert"} => TailRead(u)'
            BY <3>1, <5>1, <5>2 DEF TailRead, TailsRead, Inv
          <5>4. own'[u] # {} => Active(u)' /\ \A w \in Rivals(u) : own'[w] = {}
            BY <3>1, <5>1 DEF FlightChained, Inv, Active, Rivals
          <5> QED
            BY <5>1, <5>2, <5>3, <5>4 DEF FlightChained, Inv
        <4> QED
          BY <4>1, <4>2, <4>3
      <3> QED
        BY <3>3, <3>4 DEF FlightChained, TailsRead
    <2>6. CASE UNCHANGED auditVars
      BY <2>6 DEF auditVars, Inv, LogChained, FlightChained, TailsRead, TailRead,
                  Visible, Active, Rivals
    <2> QED
      BY <2>1, <2>2, <2>3, <2>4, <2>5, <2>6 DEF AuditNext
  <1> QED
    BY <1>1, <1>2, AuditTypeCorrectness, PTL DEF AuditSpec, Inv

(* What is committed always verifies, for every tenant. *)
THEOREM ChainIntactAlways == AuditSpec => []ChainIntact
  <1>1. Inv => ChainIntact
    BY ChainedVerifies DEF Inv, LogChained, ChainIntact
  <1> QED
    BY <1>1, AuditInvariance, PTL

(* What is in flight extends what is committed. *)
THEOREM PendingExtendsAlways == AuditSpec => []PendingExtendsChain
  <1>1. Inv => PendingExtendsChain
    BY ChainedVerifies DEF Inv, FlightChained, PendingExtendsChain
  <1> QED
    BY <1>1, AuditInvariance, PTL

(* Both, with the types: the invariant the run checks on a small log.      *)
THEOREM AuditInvariantAlways == AuditSpec => []AuditInvariant
  BY AuditTypeCorrectness, ChainIntactAlways, PendingExtendsAlways, PTL DEF AuditInvariant

(* The log only ever grows at its end. *)
THEOREM LogIsAppendOnly == AuditSpec => AppendOnly
  <1> USE TenantOfAssumption
  <1> DEFINE Grows == \A x \in Tenant :
                         /\ log[x] \subseteq log'[x]
                         /\ \A q \in log[x], r \in log'[x] \ log[x] : q.seq < r.seq
  <1>1. Inv /\ [AuditNext]_auditVars => Grows
    <2> SUFFICES ASSUME Inv, [AuditNext]_auditVars
                 PROVE  Grows
      OBVIOUS
    <2>1. ASSUME NEW t \in Txn, Commit(t)
          PROVE  Grows
      BY <2>1 DEF Commit, Inv, AuditTypeOK, FlightChained
    <2>2. CASE log' = log
      BY <2>2
    <2> QED
      BY <2>1, <2>2 DEF AuditNext, ReadTail, LockTail, Insert, InsertRefused, Abort,
                        Rollback, auditVars
  <1> QED
    BY <1>1, AuditInvariance, PTL DEF AuditSpec, AppendOnly

-----------------------------------------------------------------------------

(* A chained set of rows that ends at n holds n of them. *)
LEMMA ChainLength ==
    ASSUME NEW S, Chained(S), NEW n \in Nat, \A r \in S : r.seq <= n,
           n = 0 \/ \E r \in S : r.seq = n
    PROVE  IsFiniteSet(S) /\ Cardinality(S) = n
  <1> DEFINE f == [i \in 1..n |-> CHOOSE q \in S : q.seq = i]
  <1>1. ASSUME NEW i \in 1..n
        PROVE  f[i] \in S /\ f[i].seq = i
    <2>1. \E q \in S : q.seq = i
      BY DEF Chained
    <2> QED
      BY <2>1
  <1>2. ASSUME NEW r \in S
        PROVE  r.seq \in 1..n /\ f[r.seq] = r
    <2>1. r.seq \in 1..n
      BY DEF Chained
    <2>2. f[r.seq] \in S /\ f[r.seq].seq = r.seq
      BY <1>1, <2>1
    <2> QED
      BY <2>1, <2>2 DEF Chained
  <1> HIDE DEF f
  <1>3. f \in [1..n -> S]
    BY <1>1 DEF f
  <1>4. f \in Bijection(1..n, S)
    BY <1>1, <1>2, <1>3 DEF Bijection, Injection, Surjection, IsInjective
  <1>5. IsFiniteSet(1..n) /\ Cardinality(1..n) = n
    BY FS_Interval
  <1> QED
    BY <1>4, <1>5, FS_Bijection DEF ExistsBijection

(* Everything of the log is finite. *)
AllFinite ==
    /\ \A x \in Tenant : IsFiniteSet(log[x])
    /\ \A t \in Txn : IsFiniteSet(own[t])

(* The log holds finitely many rows, committed or in flight. *)
THEOREM AllFiniteAlways == AuditSpec => []AllFinite
  <1> USE TenantOfAssumption
  <1>1. AuditInit => AllFinite
    BY FS_EmptySet DEF AuditInit, AllFinite
  <1>2. AuditTypeOK /\ AllFinite /\ [AuditNext]_auditVars => AllFinite'
    <2> SUFFICES ASSUME AuditTypeOK, AllFinite, [AuditNext]_auditVars
                 PROVE  AllFinite'
      OBVIOUS
    <2>1. ASSUME NEW t \in Txn, Insert(t)
          PROVE  AllFinite'
      <3>1. IsFiniteSet(own[t] \cup {NextRow(t)})
        BY FS_AddElement DEF AllFinite
      <3> QED
        BY <2>1, <3>1 DEF Insert, AllFinite, AuditTypeOK
    <2>2. ASSUME NEW t \in Txn, Commit(t)
          PROVE  AllFinite'
      <3>1. IsFiniteSet(log[TenantOf[t]] \cup own[t])
        BY FS_Union DEF AllFinite
      <3> QED
        BY <2>2, <3>1, FS_EmptySet DEF Commit, AllFinite, AuditTypeOK
    <2>3. ASSUME NEW t \in Txn, InsertRefused(t) \/ Abort(t)
          PROVE  AllFinite'
      BY <2>3, FS_EmptySet DEF InsertRefused, Abort, Rollback, AllFinite, AuditTypeOK
    <2>4. ASSUME NEW t \in Txn, ReadTail(t) \/ LockTail(t)
          PROVE  AllFinite'
      BY <2>4 DEF ReadTail, LockTail, AllFinite
    <2>5. CASE UNCHANGED auditVars
      BY <2>5 DEF auditVars, AllFinite
    <2> QED
      BY <2>1, <2>2, <2>3, <2>4, <2>5 DEF AuditNext
  <1> QED
    BY <1>1, <1>2, AuditTypeCorrectness, PTL DEF AuditSpec

(* What a request sees is as long as what is committed and what it has     *)
(* inserted, taken together.                                               *)
LEMMA VisibleLength ==
    ASSUME Inv, AllFinite, NEW t \in Txn
    PROVE  /\ Cardinality(log[TenantOf[t]]) \in Nat /\ Cardinality(own[t]) \in Nat
           /\ Cardinality(Visible(t)) = Cardinality(log[TenantOf[t]]) + Cardinality(own[t])
  <1> USE TenantOfAssumption
  <1>1. IsFiniteSet(log[TenantOf[t]]) /\ IsFiniteSet(own[t])
    BY DEF AllFinite
  <1>2. log[TenantOf[t]] \cap own[t] = {}
    <2>1. \A q \in log[TenantOf[t]], r \in own[t] : q.seq < r.seq
      BY DEF Inv, FlightChained
    <2>2. \A q \in log[TenantOf[t]] : q.seq \in Nat
      BY DEF Inv, AuditTypeOK
    <2> QED
      BY <2>1, <2>2
  <1>3. Cardinality(log[TenantOf[t]] \cap own[t]) = 0
    BY <1>2, FS_EmptySet
  <1>4. Cardinality(log[TenantOf[t]]) \in Nat /\ Cardinality(own[t]) \in Nat
    BY <1>1, FS_CardinalityType
  <1>5. Cardinality(Visible(t)) = Cardinality(log[TenantOf[t]]) + Cardinality(own[t])
                                  - Cardinality(log[TenantOf[t]] \cap own[t])
    BY <1>1, FS_Union DEF Visible
  <1> QED
    BY <1>3, <1>4, <1>5

(* What the insert of a request adds to: the tail it read is the length of *)
(* what it sees.                                                           *)
LEMMA TailIsLength ==
    ASSUME Inv, NEW t \in Txn, NEW n \in Nat, \A r \in Visible(t) : r.seq <= n,
           n = 0 \/ \E r \in Visible(t) : r.seq = n
    PROVE  Cardinality(Visible(t)) = n
  BY ChainLength DEF Inv, FlightChained

(* The requests of every tenant append as AuditAppend says. *)
THEOREM AuditImplementsAppend == AuditSpec => ImplementsAuditAppend
  <1> USE TenantOfAssumption
  <1>1. AuditInit => \A x \in Tenant : Appending(x)!AppendInit
    BY FS_EmptySet DEF AuditInit, Appending!AppendInit, Requests, NoTail
  <1>2. Inv /\ AllFinite /\ [AuditNext]_auditVars
        => \A x \in Tenant : [Appending(x)!AppendNext]_(Appending(x)!appendVars)
    <2> SUFFICES ASSUME Inv, AllFinite, [AuditNext]_auditVars, NEW x \in Tenant
                 PROVE  Appending(x)!AppendNext \/ UNCHANGED Appending(x)!appendVars
      OBVIOUS
    <2> USE DEF Requests
    <2>1. CASE UNCHANGED auditVars
      BY <2>1 DEF auditVars, Appending!appendVars
    <2>2. ASSUME NEW t \in Txn \ Requests(x),
                 \/ ReadTail(t) \/ LockTail(t) \/ Insert(t) \/ InsertRefused(t)
                 \/ Commit(t) \/ Abort(t)
          PROVE  UNCHANGED Appending(x)!appendVars
      <3>1. /\ log'[x] = log[x]
            /\ \A u \in Requests(x) : own'[u] = own[u] /\ tail'[u] = tail[u]
        BY <2>2 DEF ReadTail, LockTail, Insert, InsertRefused, Commit, Abort, Rollback,
                    Inv, AuditTypeOK
      <3> QED
        BY <3>1 DEF Appending!appendVars
    <2>3. ASSUME NEW t \in Requests(x), ReadTail(t)
          PROVE  Appending(x)!TailRead(t)
      <3>1. UNCHANGED <<log, own>> /\ t \in Txn /\ TenantOf[t] = x
        BY <2>3 DEF ReadTail
      <3>2. tail'[t].seq = Cardinality(log[x]) + Cardinality(own[t])
        <4>1. CASE Visible(t) = {} /\ tail' = [tail EXCEPT ![t] = NoTail]
          <5>1. tail'[t].seq = 0
            BY <3>1, <4>1 DEF NoTail, Inv, AuditTypeOK
          <5>2. Cardinality(Visible(t)) = 0
            BY <4>1, FS_EmptySet
          <5> QED
            BY <3>1, <5>1, <5>2, VisibleLength
        <4>2. ASSUME NEW r \in Visible(t), \A q \in Visible(t) : q.seq <= r.seq,
                     tail' = [tail EXCEPT ![t] = [seq |-> r.seq, hash |-> r.hash]]
              PROVE  tail'[t].seq = Cardinality(log[x]) + Cardinality(own[t])
          <5>1. tail'[t].seq = r.seq
            BY <3>1, <4>2 DEF Inv, AuditTypeOK
          <5>2. r.seq \in Nat
            BY <3>1 DEF Inv, AuditTypeOK, Visible
          <5> QED
            BY <3>1, <4>2, <5>1, <5>2, TailIsLength, VisibleLength
        <4> QED
          BY <2>3, <4>1, <4>2 DEF ReadTail
      <3>3. \A u \in Txn \ {t} : tail'[u] = tail[u]
        BY <2>3 DEF ReadTail, Inv, AuditTypeOK
      <3> QED
        BY <3>1, <3>2, <3>3 DEF Appending!TailRead
    <2>4. ASSUME NEW t \in Requests(x), LockTail(t)
          PROVE  UNCHANGED Appending(x)!appendVars
      BY <2>4 DEF LockTail, Appending!appendVars
    <2>5. ASSUME NEW t \in Requests(x), Insert(t)
          PROVE  Appending(x)!EntryAdded(t)
      <3>1. /\ t \in Txn /\ TenantOf[t] = x /\ UNCHANGED <<log, tail>>
            /\ tail[t].seq \in Nat /\ TailRead(t)
        BY <2>5 DEF Insert, Inv, AuditTypeOK, TailsRead
      <3>2. /\ \A r \in Visible(t) : r.seq <= tail[t].seq
            /\ \A u \in Rivals(t) : own[u] = {}
        BY <2>5, InsertIsLast
      <3>3. tail[t].seq = Cardinality(log[x]) + Cardinality(own[t])
        BY <3>1, <3>2, TailIsLength, VisibleLength DEF TailRead
      <3>4. \A u \in Requests(x) \ {t} : Cardinality(own[u]) = 0
        BY <3>1, <3>2, FS_EmptySet DEF Rivals
      <3>5. NextRow(t) \notin own[t]
        BY <3>1, <3>2 DEF NextRow, AuditRow, Visible
      <3>6. Cardinality(own'[t]) = Cardinality(own[t]) + 1
        BY <2>5, <3>5, FS_AddElement DEF Insert, Inv, AuditTypeOK, AllFinite
      <3>7. \A u \in Txn \ {t} : own'[u] = own[u]
        BY <2>5 DEF Insert, Inv, AuditTypeOK
      <3> QED
        BY <3>1, <3>3, <3>4, <3>6, <3>7 DEF Appending!EntryAdded, Appending!IsLast
    <2>6. ASSUME NEW t \in Requests(x), Commit(t)
          PROVE  Appending(x)!EntriesCommitted(t)
      <3>1. /\ t \in Txn /\ TenantOf[t] = x /\ tail' = tail /\ own'[t] = {}
            /\ log'[x] = Visible(t) /\ \A u \in Txn \ {t} : own'[u] = own[u]
        BY <2>6 DEF Commit, Inv, AuditTypeOK, Visible
      <3> QED
        BY <3>1, VisibleLength, FS_EmptySet DEF Appending!EntriesCommitted
    <2>7. ASSUME NEW t \in Requests(x), InsertRefused(t) \/ Abort(t)
          PROVE  Appending(x)!EntriesRolledBack(t)
      <3>1. /\ t \in Txn /\ UNCHANGED <<log, tail>> /\ own'[t] = {}
            /\ \A u \in Txn \ {t} : own'[u] = own[u]
        BY <2>7 DEF InsertRefused, Abort, Rollback, Inv, AuditTypeOK
      <3> QED
        BY <3>1, FS_EmptySet DEF Appending!EntriesRolledBack
    <2> QED
      BY <2>1, <2>2, <2>3, <2>4, <2>5, <2>6, <2>7 DEF AuditNext, Appending!AppendNext
  <1>3. AuditInit /\ [](Inv /\ AllFinite) /\ [][AuditNext]_auditVars => ImplementsAuditAppend
    BY <1>1, <1>2, PTL DEF ImplementsAuditAppend
  <1> QED
    BY <1>3, AuditInvariance, AllFiniteAlways, PTL DEF AuditSpec

-----------------------------------------------------------------------------

(* A set of naturals that is not empty has a least element.                *)
LEMMA LeastNatural ==
    ASSUME NEW S \in SUBSET Nat, S # {}
    PROVE  \E m \in S : \A n \in S : m <= n
  <1> DEFINE R == {p \in Nat \X Nat : p[1] < p[2]}
  <1>1. IsWellFoundedOn(R, Nat)
    BY NatLessThanWellFounded DEF OpToRel
  <1>2. PICK m \in S : \A n \in S : ~(<<n, m>> \in R)
    <2> HIDE DEF R
    <2> QED
      BY <1>1, WFMin
  <1>3. ASSUME NEW n \in S
        PROVE  m <= n
    <2>1. n \in Nat /\ m \in Nat
      OBVIOUS
    <2>2. n < m => <<n, m>> \in R
      BY <2>1, Zenon
    <2> QED
      BY <1>2, <2>1, <2>2
  <1> QED
    BY <1>3

(* Rows whose numbers have an upper bound have a newest row.               *)
LEMMA NewestExists ==
    ASSUME NEW S, S # {}, \A r \in S : r.seq \in Nat,
           NEW b \in Nat, \A r \in S : r.seq <= b
    PROVE  \E m \in S : \A r \in S : r.seq <= m.seq
  <1>1. {b - r.seq : r \in S} \in SUBSET Nat /\ {b - r.seq : r \in S} # {}
    OBVIOUS
  <1>2. PICK k \in {b - r.seq : r \in S} : \A j \in {b - r.seq : r \in S} : k <= j
    BY <1>1, LeastNatural
  <1>3. PICK m \in S : k = b - m.seq
    OBVIOUS
  <1>4. ASSUME NEW r \in S
        PROVE  r.seq <= m.seq
    <2>1. k <= b - r.seq
      BY <1>2
    <2> QED
      BY <1>3, <2>1
  <1> QED
    BY <1>4

-----------------------------------------------------------------------------

(* Two entries with one hash are the same entry after the same predecessor. *)
LEMMA HashIsInjective ==
    ASSUME NEW m, NEW c, NEW g, NEW n, NEW d, NEW h,
           ComputeHash(m, c, g) = ComputeHash(n, d, h)
    PROVE  m = n /\ c = d /\ g = h
  <1>1. <<g, m, c>> = <<h, n, d>>
    BY DEF ComputeHash
  <1> QED
    BY <1>1

(* A row as append wrote it: its hash is that of its content, and it names *)
(* the row before it, or the genesis.                                      *)
AsWritten(w) ==
    /\ w.seq \in Nat \ {0}
    /\ w = AuditRow(w.seq, w.content, w.prevHash)
    /\ w.seq = 1 => w.prevHash = GENESIS_HASH
    /\ w.seq # 1 => \E c, h : w.prevHash = ComputeHash(w.seq - 1, c, h)

(* Damage changes the content of a row and nothing else of it; the rows    *)
(* are numbered one by one, up to some number.                             *)
StoredInv ==
    /\ \A w \in written : AsWritten(w)
    /\ \A r \in stored : \E w \in written : r = [w EXCEPT !.content = r.content]
    /\ \A q, r \in stored : q.seq = r.seq => q = r
    /\ \E b \in Nat : \A r \in stored : r.seq <= b

(* What is stored of a row that was written. *)
LEMMA StoredRow ==
    ASSUME StoredInv, NEW r \in stored
    PROVE  /\ r.seq \in Nat \ {0} /\ r = [seq |-> r.seq, content |-> r.content,
                                          prevHash |-> r.prevHash, hash |-> r.hash]
           /\ r.seq = 1 => r.prevHash = GENESIS_HASH
           /\ r.seq # 1 => \E c, h : r.prevHash = ComputeHash(r.seq - 1, c, h)
           /\ \E c : r.hash = ComputeHash(r.seq, c, r.prevHash)
           /\ r.hash = ComputeHash(r.seq, r.content, r.prevHash) <=> r \in written
           /\ \E w \in written : r = [w EXCEPT !.content = r.content]
  <1>1. PICK w \in written : r = [w EXCEPT !.content = r.content]
    BY DEF StoredInv
  <1>2. AsWritten(w)
    BY DEF StoredInv
  <1>3. w = [seq |-> w.seq, content |-> w.content, prevHash |-> w.prevHash,
             hash |-> ComputeHash(w.seq, w.content, w.prevHash)]
    BY <1>2 DEF AsWritten, AuditRow
  <1>4. /\ r.seq = w.seq /\ r.prevHash = w.prevHash
        /\ r.hash = ComputeHash(w.seq, w.content, w.prevHash)
        /\ r = [seq |-> w.seq, content |-> r.content, prevHash |-> w.prevHash,
                hash |-> ComputeHash(w.seq, w.content, w.prevHash)]
    BY <1>1, <1>3
  <1>5. ASSUME r.hash = ComputeHash(r.seq, r.content, r.prevHash)
        PROVE  r \in written
    <2>1. r.content = w.content
      BY <1>4, <1>5 DEF ComputeHash
    <2>2. r = w
      BY <1>3, <1>4, <2>1
    <2> QED
      BY <2>2
  <1>6. ASSUME r \in written
        PROVE  r.hash = ComputeHash(r.seq, r.content, r.prevHash)
    BY <1>6 DEF StoredInv, AsWritten, AuditRow
  <1> QED
    BY <1>1, <1>2, <1>4, <1>5, <1>6 DEF AsWritten

(* The stored rows are always as StoredInv says. *)
THEOREM StoredInvAlways == StorageSpec => []StoredInv
  <1>1. StorageInit => StoredInv
    <2> SUFFICES ASSUME StorageInit PROVE StoredInv
      OBVIOUS
    <2>1. \A r \in stored : r.seq <= 0
      BY DEF StorageInit
    <2> QED
      BY <2>1 DEF StorageInit, StoredInv
  <1>2. StoredInv /\ [StorageNext]_storageVars => StoredInv'
    <2> SUFFICES ASSUME StoredInv, [StorageNext]_storageVars
                 PROVE  StoredInv'
      OBVIOUS
    <2>1. ASSUME NEW c \in Contents, AppendEntry(c)
          PROVE  StoredInv'
      <3>1. PICK n, h, row :
              /\ n \in Nat
              /\ row = AuditRow(n + 1, c, h)
              /\ stored' = stored \cup {row} /\ written' = written \cup {row}
              /\ \A r \in stored : r.seq <= n
              /\ n = 0 => h = GENESIS_HASH
              /\ n # 0 => \E d, g : h = ComputeHash(n, d, g)
        <4>1. CASE stored = {}
          <5>1. /\ stored' = stored \cup {AuditRow(0 + 1, c, GENESIS_HASH)}
                /\ written' = written \cup {AuditRow(0 + 1, c, GENESIS_HASH)}
            BY <2>1, <4>1 DEF AppendEntry
          <5> QED
            BY <4>1, <5>1
        <4>2. CASE stored # {}
          <5> DEFINE last == Newest(stored)
          <5>1. \A r \in stored : r.seq \in Nat
            BY StoredRow
          <5>2. \E m \in stored : \A r \in stored : r.seq <= m.seq
            BY <4>2, <5>1, NewestExists DEF StoredInv
          <5>3. last \in stored /\ \A r \in stored : r.seq <= last.seq
            BY <5>2 DEF Newest
          <5>4. /\ stored' = stored \cup {AuditRow(last.seq + 1, c, last.hash)}
                /\ written' = written \cup {AuditRow(last.seq + 1, c, last.hash)}
            BY <2>1, <4>2 DEF AppendEntry
          <5> HIDE DEF last
          <5>5. last.seq \in Nat \ {0} /\ \E d : last.hash = ComputeHash(last.seq, d, last.prevHash)
            BY <5>3, StoredRow
          <5> QED
            BY <5>3, <5>4, <5>5
        <4> QED
          BY <4>1, <4>2
      <3>2. /\ row.seq = n + 1 /\ row.content = c /\ row.prevHash = h
            /\ row = [row EXCEPT !.content = row.content]
        BY <3>1 DEF AuditRow
      <3>3. AsWritten(row)
        BY <3>1, <3>2 DEF AsWritten
      <3>4. \A r \in stored' : \E w \in written' : r = [w EXCEPT !.content = r.content]
        BY <3>1, <3>2 DEF StoredInv
      <3>5. \A q, r \in stored' : q.seq = r.seq => q = r
        <4>1. \A r \in stored : r.seq \in Nat
          BY StoredRow
        <4> QED
          BY <3>1, <3>2, <4>1 DEF StoredInv
      <3>6. n + 1 \in Nat /\ \A r \in stored' : r.seq <= n + 1
        <4>1. \A r \in stored : r.seq \in Nat
          BY StoredRow
        <4> QED
          BY <3>1, <3>2, <4>1
      <3>7. \A w \in written' : AsWritten(w)
        BY <3>1, <3>3 DEF StoredInv
      <3>8. \A w \in written' : AsWritten(w)'
        BY <3>7 DEF AsWritten
      <3> QED
        BY <3>4, <3>5, <3>6, <3>8 DEF StoredInv
    <2>2. ASSUME NEW r \in stored, LoseRow(r)
          PROVE  StoredInv'
      BY <2>2 DEF LoseRow, StoredInv, AsWritten
    <2>3. ASSUME NEW r \in stored, NEW c \in Contents, AlterRow(r, c)
          PROVE  StoredInv'
      <3> DEFINE new == [r EXCEPT !.content = c]
      <3>1. stored' = (stored \ {r}) \cup {new} /\ written' = written
        BY <2>3 DEF AlterRow
      <3>2. /\ r = [seq |-> r.seq, content |-> r.content, prevHash |-> r.prevHash, hash |-> r.hash]
            /\ \E w \in written : r = [w EXCEPT !.content = r.content]
        BY StoredRow
      <3>3. new.seq = r.seq /\ new.content = c
        BY <3>2
      <3>4. \E w \in written : new = [w EXCEPT !.content = new.content]
        <4>1. PICK w \in written : r = [w EXCEPT !.content = r.content]
          BY <3>2
        <4>2. new = [w EXCEPT !.content = c]
          BY <4>1
        <4> QED
          BY <3>3, <4>2
      <3> HIDE DEF new
      <3> QED
        BY <3>1, <3>3, <3>4 DEF StoredInv, AsWritten
    <2>4. CASE UNCHANGED storageVars
      BY <2>4 DEF storageVars, StoredInv, AsWritten
    <2> QED
      BY <2>1, <2>2, <2>3, <2>4 DEF StorageNext
  <1> QED
    BY <1>1, <1>2, PTL DEF StorageSpec

(* A row is preceded by none, and then verify_chain asks it for the        *)
(* genesis, or by a newest one.                                            *)
LEMMA PredecessorExists ==
    ASSUME StoredInv, NEW r \in stored, Before(stored, r) # {}
    PROVE  \E p \in stored : IsPredecessor(stored, p, r)
  <1>1. \A q \in Before(stored, r) : q.seq \in Nat /\ q.seq <= r.seq
    BY StoredRow DEF Before
  <1>2. r.seq \in Nat
    BY StoredRow
  <1>3. PICK p \in Before(stored, r) : \A q \in Before(stored, r) : q.seq <= p.seq
    BY <1>1, <1>2, NewestExists
  <1> QED
    BY <1>3 DEF IsPredecessor, Before

(* Verification tells what happened to the stored rows: it accepts only    *)
(* what was written, and the row it points at is the first that was        *)
(* altered or that lost the row it was chained to.                         *)
THEOREM VerifyTellsAlways == StorageSpec => []VerifyTellsWhatWasStored
  <1>1. StoredInv => VerifiedRowsWereWritten
    <2> SUFFICES ASSUME StoredInv, VerifyChain(stored), NEW r \in stored
                 PROVE  /\ r \in written
                        /\ r.seq = 1 \/ \E p \in stored :
                              p.seq = r.seq - 1 /\ p.hash = r.prevHash
                        /\ r.seq = 1 => r.prevHash = GENESIS_HASH
      BY DEF VerifiedRowsWereWritten
    <2>1. Follows(stored, r) /\ r.seq \in Nat
      BY StoredRow DEF VerifyChain
    <2>2. r \in written /\ (r.seq = 1 => r.prevHash = GENESIS_HASH)
      BY <2>1, StoredRow DEF Follows
    <2>3. ASSUME r.seq # 1
          PROVE  \E p \in stored : p.seq = r.seq - 1 /\ p.hash = r.prevHash
      <3>1. r.prevHash # GENESIS_HASH
        BY <2>3, StoredRow DEF ComputeHash, GENESIS_HASH
      <3>2. PICK p \in stored : IsPredecessor(stored, p, r)
        BY <2>1, <3>1, PredecessorExists DEF Follows
      <3>3. r.seq = p.seq + 1 /\ r.prevHash = p.hash /\ p.seq \in Nat
        BY <2>1, <3>2, StoredRow DEF Follows
      <3> QED
        BY <3>3
    <2> QED
      BY <2>2, <2>3
  <1>2. StoredInv => FirstBadIsExact
    <2> SUFFICES ASSUME StoredInv, NEW r \in stored, IsFirstBad(stored, r)
                 PROVE  /\ VerifyChain(Before(stored, r)) /\ Before(stored, r) \subseteq written
                        /\ r \notin written \/ \A p \in Before(stored, r) : p.hash # r.prevHash
      BY DEF FirstBadIsExact
    <2>1. ~Follows(stored, r) /\ \A q \in Before(stored, r) : q \in stored /\ Follows(stored, q)
      BY DEF IsFirstBad, Before
    <2>2. VerifyChain(Before(stored, r))
      <3> SUFFICES ASSUME NEW q \in Before(stored, r)
                   PROVE  Follows(Before(stored, r), q)
        BY DEF VerifyChain
      <3>1. \A s \in stored : s.seq \in Nat
        BY StoredRow
      <3>2. Before(Before(stored, r), q) = Before(stored, q)
        BY <3>1 DEF Before
      <3> QED
        BY <2>1, <3>2 DEF Follows, IsPredecessor
    <2>3. Before(stored, r) \subseteq written
      BY <2>1, StoredRow DEF Follows
    <2>4. ASSUME r \in written, NEW p \in Before(stored, r), p.hash = r.prevHash
          PROVE  FALSE
      <3>1. /\ p \in stored /\ p.seq \in Nat \ {0} /\ r.seq \in Nat \ {0} /\ p.seq < r.seq
            /\ r.hash = ComputeHash(r.seq, r.content, r.prevHash)
            /\ p.hash = ComputeHash(p.seq, p.content, p.prevHash)
        BY <2>1, <2>3, <2>4, StoredRow DEF Before
      <3>2. PICK c, h : r.prevHash = ComputeHash(r.seq - 1, c, h)
        BY <3>1, StoredRow
      <3>3. p.seq = r.seq - 1
        <4>1. ComputeHash(p.seq, p.content, p.prevHash) = ComputeHash(r.seq - 1, c, h)
          BY <2>4, <3>1, <3>2
        <4> QED
          BY <4>1, HashIsInjective
      <3>4. ASSUME NEW m \in stored, IsPredecessor(stored, m, r)
            PROVE  m = p
        <4>1. m.seq \in Nat /\ m.seq < r.seq /\ p.seq <= m.seq
          BY <3>4, StoredRow DEF IsPredecessor, Before
        <4> QED
          BY <3>1, <3>3, <4>1 DEF StoredInv
      <3>5. Follows(stored, r)
        BY <2>4, <3>1, <3>3, <3>4 DEF Follows
      <3> QED
        BY <2>1, <3>5
    <2> QED
      BY <2>2, <2>3, <2>4
  <1> QED
    BY <1>1, <1>2, StoredInvAlways, PTL DEF VerifyTellsWhatWasStored
=============================================================================
