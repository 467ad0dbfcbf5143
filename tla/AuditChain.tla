------------------------------ MODULE AuditChain ------------------------------
(***************************************************************************)
(* The hash chain of one tenant's audit log (gravai_core/audit.py): what a *)
(* row is, what its hash covers, and what verify_chain accepts.            *)
(*                                                                         *)
(* SHA-256 over the canonical JSON of an entry and its predecessor's hash  *)
(* is modelled as the pair of the two: injective, which is what the chain  *)
(* relies on.  Canonical JSON and timestamps exist to make it so.          *)
(***************************************************************************)
EXTENDS Integers

(* The hash the first row names: that of no row. *)
GENESIS_HASH == <<>>

(* AuditEntry.compute_hash; the sequence number is hashed content too. *)
ComputeHash(seq, content, prevHash) == <<prevHash, seq, content>>

AuditRow(seq, content, prevHash) ==
    [seq |-> seq, content |-> content, prevHash |-> prevHash,
     hash |-> ComputeHash(seq, content, prevHash)]

Before(rows, r) == {q \in rows : q.seq < r.seq}

(* The row verify_chain has just passed when it reaches r. *)
IsPredecessor(rows, p, r) ==
    p \in Before(rows, r) /\ \A q \in Before(rows, r) : q.seq <= p.seq

(* What verify_chain asks of one row: no gap after the previous row, its   *)
(* prev_hash is the previous row's hash, its hash is what its content      *)
(* hashes to.  The first row is asked for the genesis hash only.           *)
Follows(rows, r) ==
    /\ Before(rows, r) = {} => r.prevHash = GENESIS_HASH
    /\ \A p \in rows : IsPredecessor(rows, p, r) =>
          r.seq = p.seq + 1 /\ r.prevHash = p.hash
    /\ r.hash = ComputeHash(r.seq, r.content, r.prevHash)

VerifyChain(rows) == \A r \in rows : Follows(rows, r)

(* Mutant: verification goes on after a bad row and reports a later one. *)
IsFirstBad_Any(rows, r) == r \in rows /\ ~Follows(rows, r)

(* first_bad_seq *)
IsFirstBad(rows, r) ==
    r \in rows /\ ~Follows(rows, r) /\ \A q \in Before(rows, r) : Follows(rows, q)
=============================================================================
