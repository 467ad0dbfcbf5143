----------------------------- MODULE AuditStorage -----------------------------
(***************************************************************************)
(* What verify_chain (gravai_core/audit.py) tells of a chain whose stored  *)
(* rows are no longer the rows that were written: rows lost by a storage   *)
(* fault or a partial restore, and rows whose content changed underneath.  *)
(* Entries keep being appended after the damage, to whatever tail is left. *)
(***************************************************************************)
EXTENDS AuditChain, FiniteSets

CONSTANTS Contents,    \* what an entry can say
          MaxRows,     \* rows written in one behaviour
          MaxDamage    \* rows lost or altered in one behaviour

ASSUME MaxRows \in Nat /\ MaxDamage \in Nat

VARIABLES written,   \* every row append ever returned
          stored,    \* the rows a select returns now
          damage     \* rows lost or altered so far

storageVars == <<written, stored, damage>>

Newest(rows) == CHOOSE r \in rows : \A q \in rows : q.seq <= r.seq

StorageInit == written = {} /\ stored = {} /\ damage = 0

(* AuditRepository.append on the tail that is stored. *)
AppendEntry(c) ==
    /\ Cardinality(written) < MaxRows
    /\ LET row == IF stored = {} THEN AuditRow(1, c, GENESIS_HASH)
                  ELSE AuditRow(Newest(stored).seq + 1, c, Newest(stored).hash)
       IN /\ stored' = stored \cup {row}
          /\ written' = written \cup {row}
    /\ UNCHANGED damage

LoseRow(r) ==
    /\ damage < MaxDamage
    /\ stored' = stored \ {r}
    /\ damage' = damage + 1
    /\ UNCHANGED written

AlterRow(r, c) ==
    /\ damage < MaxDamage /\ c # r.content
    /\ stored' = (stored \ {r}) \cup {[r EXCEPT !.content = c]}
    /\ damage' = damage + 1
    /\ UNCHANGED written

StorageNext ==
    \/ \E c \in Contents : AppendEntry(c)
    \/ \E r \in stored : LoseRow(r) \/ \E c \in Contents : AlterRow(r, c)

StorageSpec == StorageInit /\ [][StorageNext]_storageVars

-----------------------------------------------------------------------------
(* Properties *)

(* A chain that verifies is one that was written: each row as it was       *)
(* appended, each with the row it was chained to, back to the genesis.     *)
VerifiedRowsWereWritten ==
    VerifyChain(stored) =>
        /\ stored \subseteq written
        /\ \A r \in stored : r.seq = 1 \/ \E p \in stored :
              p.seq = r.seq - 1 /\ p.hash = r.prevHash
        /\ \A r \in stored : r.seq = 1 => r.prevHash = GENESIS_HASH

(* first_bad_seq is exact: what precedes the row it names verifies and is  *)
(* as written; the row itself was altered, or the row it was chained to is *)
(* no longer there.                                                        *)
FirstBadIsExact ==
    \A r \in stored : IsFirstBad(stored, r) =>
        /\ VerifyChain(Before(stored, r)) /\ Before(stored, r) \subseteq written
        /\ r \notin written \/ \A p \in Before(stored, r) : p.hash # r.prevHash

(* The verdict of verify, and the row it points at, tell what happened to   *)
(* the stored rows.                                                        *)
VerifyTellsWhatWasStored == VerifiedRowsWereWritten /\ FirstBadIsExact
=============================================================================
