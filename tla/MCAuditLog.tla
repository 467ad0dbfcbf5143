------------------------------ MODULE MCAuditLog ------------------------------
(***************************************************************************)
(* The chain while it is written, or its stored rows once they are damaged: *)
(* three requests of one tenant, which race for its chain, and one of      *)
(* another tenant, each appending at most MaxAppends entries; or the rows  *)
(* of one chain, with no request left.                                     *)
(***************************************************************************)
EXTENDS AuditLog, AuditStorage, TLC

CONSTANTS t1, t2, t3, other, acme, zenith, Half
VARIABLE half

vars == <<half, auditVars, storageVars>>

MCTenantOf == (t1 :> acme) @@ (t2 :> acme) @@ (t3 :> acme) @@ (other :> zenith)

Init ==
    /\ half \in Half
    /\ StorageInit
    /\ IF half = "log" THEN AuditInit
       ELSE /\ log = [x \in Tenant |-> {}] /\ own = [t \in Txn |-> {}]
            /\ pc = [t \in Txn |-> "committed"]
            /\ tail = [t \in Txn |-> NoTail] /\ locks = [t \in Txn |-> {}]

Next ==
    /\ \/ half = "log" /\ (AuditNext \/ AuditDone) /\ UNCHANGED storageVars
       \/ half = "storage" /\ StorageNext /\ UNCHANGED auditVars
       \/ half = "storage" /\ damage = MaxDamage /\ UNCHANGED <<auditVars, storageVars>>
    /\ UNCHANGED half

Spec == Init /\ [][Next]_vars /\ AuditFairness
=============================================================================
