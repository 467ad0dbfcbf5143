------------------------------ MODULE AuditAppend ------------------------------
(***************************************************************************)
(* What AuditRepository.append promises the requests of one tenant, with   *)
(* rows and hashes left out: an entry is added on the tail its request     *)
(* read, or the request is refused because that tail is no longer the      *)
(* last; what a request added counts when it commits.  AuditLog implements *)
(* this module for every tenant, and the modules of the request handlers   *)
(* that write audit entries build on its actions.                          *)
(***************************************************************************)
EXTENDS Integers

CONSTANT Req       \* requests in flight, one transaction each

VARIABLES entries,   \* length of the committed chain
          tail,      \* per request, the length it last read
          appended   \* per request, entries added and not committed

appendVars == <<entries, tail, appended>>

AppendInit ==
    /\ entries = 0
    /\ tail = [t \in Req |-> 0]
    /\ appended = [t \in Req |-> 0]

TailRead(t) ==
    /\ tail' = [tail EXCEPT ![t] = entries + appended[t]]
    /\ UNCHANGED <<entries, appended>>

IsLast(t) == tail[t] = entries + appended[t]

(* The insert waits for whoever has an uncommitted entry on the same tail. *)
EntryAdded(t) ==
    /\ IsLast(t)
    /\ \A u \in Req \ {t} : appended[u] = 0
    /\ appended' = [appended EXCEPT ![t] = @ + 1]
    /\ UNCHANGED <<entries, tail>>

EntriesCommitted(t) ==
    /\ entries' = entries + appended[t]
    /\ appended' = [appended EXCEPT ![t] = 0]
    /\ UNCHANGED tail

EntriesRolledBack(t) ==
    /\ appended' = [appended EXCEPT ![t] = 0]
    /\ UNCHANGED <<entries, tail>>

AppendNext ==
    \E t \in Req : \/ TailRead(t) \/ EntryAdded(t)
                   \/ EntriesCommitted(t) \/ EntriesRolledBack(t)

AppendSpec == AppendInit /\ [][AppendNext]_appendVars
=============================================================================
