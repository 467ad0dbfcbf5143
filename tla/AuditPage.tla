------------------------------- MODULE AuditPage -------------------------------
(***************************************************************************)
(* The audit explorer (console/audit/page.tsx): the newest links of the    *)
(* chain drawn as a strip, the listing with its filters, the entry that is *)
(* selected, and the verification, which is the API's answer or nothing.   *)
(* Entries go on being recorded, the token may change in another tab, and  *)
(* a verdict may arrive after either.                                      *)
(***************************************************************************)
EXTENDS Integers, FiniteSets

CONSTANTS Tenant,      \* tokens, one for each tenant
          NoToken,     \* no token is held
          Broken,      \* [Tenant -> where its chain does not follow, or 0]
          MaxEntries,  \* bound on the entries of a chain
          PageLimit,   \* how many entries one page of the API holds
          StripLength, \* how many links the strip draws
          ActionOf     \* [sequence numbers -> actions]

ASSUME AuditPageAssumption ==
    /\ NoToken \notin Tenant
    /\ Broken \in [Tenant -> Nat]
    /\ MaxEntries \in Nat \ {0, 1} /\ StripLength \in Nat \ {0} /\ PageLimit \in Nat \ {0}

Log == INSTANCE PageResource WITH NoData <- {}, NoKey <- NoToken

VARIABLES bearer,    \* localStorage's token
          chain,     \* how many entries each tenant has recorded
          audit,     \* useResource("audit:<token>")
          verify,    \* the state of the verification
          verifying, \* the requests to verify that are on their way
          selected,  \* the entry whose detail is shown: [tenant, seq], or Idle
          search     \* the filters: an action, and a sequence number

auditPage == <<audit, verify, verifying, selected, search>>
auditVars == <<bearer, chain, auditPage>>

Idle == [state |-> "idle"]
Nothing == [action |-> "", seq |-> 0]

-----------------------------------------------------------------------------
(* What is drawn.                                                          *)

Largest(S, n) == {i \in S : Cardinality({j \in S : j > i}) < n}

Sequences(entries) == {e.seq : e \in entries}

Listed ==
    {e \in audit.data :
        /\ search.action # "" => ActionOf[e.seq] = search.action
        /\ search.seq # 0 => e.seq = search.seq}

(* The newest links of the whole chain, never of the filtered set.         *)
Strip_Filtered == {e \in Listed : e.seq \in Largest(Sequences(Listed), StripLength)}
Strip == {e \in audit.data : e.seq \in Largest(Sequences(audit.data), StripLength)}

(* linkState: unverified is plain, and a break takes all that follows it.  *)
LinkState(e) ==
    IF verify.state # "done" THEN "plain"
    ELSE IF verify.ok THEN "ok"
    ELSE IF e.seq >= verify.firstBad THEN "bad" ELSE "ok"

AuditReport ==
    IF audit.mode = "loading" THEN "wait"
    ELSE IF audit.failure # "none" THEN "unknown"
    ELSE IF Listed # {} THEN "rows"
    ELSE IF search # Nothing THEN "narrowed" ELSE "none"

StripReport ==
    IF audit.mode = "loading" THEN "wait"
    ELSE IF audit.failure # "none" THEN "unknown"
    ELSE IF Strip = {} THEN "none" ELSE "links"

(* Under the listing, whatever the filters left of it: the page is full.   *)
SaysItStops ==
    audit.mode # "loading" /\ audit.failure = "none" /\ Cardinality(audit.data) >= PageLimit

-----------------------------------------------------------------------------
(* The request for the page, as useResource makes it.                      *)

AuditKey == <<"audit", bearer>>

AuditAsks ==
    /\ Log!EffectDue(audit, AuditKey)
    /\ audit' = Log!RunEffect(audit, AuditKey, bearer)
    /\ UNCHANGED <<bearer, chain, verify, verifying, selected, search>>

PageOf(t) == {[tenant |-> t, seq |-> i] : i \in Largest(1..chain[t], PageLimit)}

AuditArrives ==
    /\ audit.asking /\ audit.token \in Tenant
    /\ audit' = Log!Succeeds(audit, PageOf(audit.token))
    /\ UNCHANGED <<bearer, chain, verify, verifying, selected, search>>

AuditFails ==
    /\ audit.asking
    /\ audit' = Log!Fails(audit, IF audit.token = NoToken THEN "no-token" ELSE "server")
    /\ UNCHANGED <<bearer, chain, verify, verifying, selected, search>>

AuditRetry ==
    /\ audit.failure # "none"
    /\ audit' = Log!Reload(audit)
    /\ UNCHANGED <<bearer, chain, verify, verifying, selected, search>>

-----------------------------------------------------------------------------
(* The verification.                                                       *)

RunVerification ==
    /\ verify.state # "running"
    /\ verify' = [state |-> "running"]
    /\ verifying' = verifying \cup {bearer}
    /\ UNCHANGED <<bearer, chain, audit, selected, search>>

(* The API recomputes the chain of the caller's tenant, up to a break if   *)
(* there is one.                                                           *)
Recomputed(t) ==
    IF Broken[t] # 0 /\ Broken[t] <= chain[t]
    THEN [state |-> "done", ok |-> FALSE, firstBad |-> Broken[t], of |-> t, checked |-> Broken[t] - 1]
    ELSE [state |-> "done", ok |-> TRUE, firstBad |-> 0, of |-> t, checked |-> chain[t]]

VerifyAnswered(t) ==
    /\ t \in verifying /\ t # NoToken
    /\ verify' = Recomputed(t)
    /\ verifying' = verifying \ {t}
    /\ UNCHANGED <<bearer, chain, audit, selected, search>>

VerifyFailed(t) ==
    /\ t \in verifying
    /\ verify' = [state |-> "error"]
    /\ verifying' = verifying \ {t}
    /\ UNCHANGED <<bearer, chain, audit, selected, search>>

-----------------------------------------------------------------------------
(* The reader, other tabs, and the log itself.                             *)

Selects(e) ==
    /\ e \in Strip \cup Listed /\ StripReport = "links"
    /\ selected' = e
    /\ UNCHANGED <<bearer, chain, audit, verify, verifying, search>>

Searches ==
    /\ \E action \in {""} \cup {ActionOf[e.seq] : e \in audit.data}, seq \in {0, MaxEntries} :
           search' = [action |-> action, seq |-> seq]
    /\ UNCHANGED <<bearer, chain, audit, verify, verifying, selected>>

EntryRecorded(t) ==
    /\ chain[t] < MaxEntries
    /\ chain' = [chain EXCEPT ![t] = @ + 1]
    /\ UNCHANGED <<bearer, auditPage>>

BearerChanges ==
    /\ bearer' \in (Tenant \cup {NoToken}) \ {bearer}
    /\ UNCHANGED <<chain, auditPage>>

AuditPageInit ==
    /\ bearer \in Tenant
    /\ chain = [t \in Tenant |-> MaxEntries - 2]
    /\ audit = Log!Mounted
    /\ verify = Idle /\ verifying = {}
    /\ selected = Idle /\ search = Nothing

Verifying ==
    \/ RunVerification
    \/ \E t \in verifying : VerifyAnswered(t) \/ VerifyFailed(t)

AuditPageNext ==
    \/ AuditAsks \/ AuditArrives \/ AuditFails \/ AuditRetry
    \/ Verifying
    \/ Searches
    \/ \E e \in audit.data : Selects(e)
    \/ \E t \in Tenant : EntryRecorded(t)
    \/ BearerChanges

-----------------------------------------------------------------------------
(* A verdict is about the chain of the token it was asked with.             *)
Judged(e) == verify.state = "done" /\ verify.of = e.tenant

(* What is drawn of the chain is evidence: the links of the strip follow   *)
(* one another, whatever the filters hide; of the links of the chain that  *)
(* was verified, red are only those at or after a break it has, and of     *)
(* those none is green but what was recorded since; what is said of        *)
(* nothing was said of an answer; and a listing that does not go back to   *)
(* the first entry says that it stops (console/audit/page.tsx:39, :105,    *)
(* :115, :299 and :326).  After the token has changed, links of another    *)
(* chain are coloured by the verdict too: of those nothing is said.        *)
EvidenceIsTheApis ==
    /\ \A e, f \in Strip :
           f.tenant = e.tenant /\ \A i \in e.seq..f.seq : i \in Sequences(Strip)
    /\ \A e \in Strip : Judged(e) =>
           /\ LinkState(e) = "bad" => Broken[e.tenant] \in 1..e.seq
           /\ LinkState(e) = "ok" =>
                  Broken[e.tenant] \notin 1..e.seq \/ (verify.ok /\ e.seq > verify.checked)
    /\ AuditReport = "none" \/ StripReport = "none" => audit.mode = "live" /\ audit.data = {}
    /\ AuditReport = "rows" /\ 1 \notin Sequences(audit.data) => SaysItStops
=============================================================================
