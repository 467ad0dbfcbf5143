---------------------------- MODULE DocumentUpload ----------------------------
(***************************************************************************)
(* Handing a document to the platform from the console: the upload panel   *)
(* (components/console/DocumentUpload.tsx), the XMLHttpRequest under it     *)
(* (uploadDocument in lib/api.ts), and the two lists the page keeps of what *)
(* was stored and what the next run will carry (console/agents/page.tsx).   *)
(*                                                                         *)
(* An upload outlives the panel that started it: the panel is mounted in   *)
(* whichever agent's card is open, and closing the card does not abort.    *)
(* What the network has sent, what the page has been told, and what the    *)
(* platform keeps are three different things here.                         *)
(***************************************************************************)
EXTENDS Naturals, Sequences, FiniteSets, SequencesExt

CONSTANTS File,        \* files a person may pick
          Empty,       \* those with no content
          Answer,      \* answers to POST /v1/documents: [status, readable]
          MaxUploads,  \* bound on the uploads of one visit; they name the documents
          Null

(* How any call fails, and how an upload does: a GET that came to nothing  *)
(* says less than a person holding a file needs.                           *)
FailureKind == {"no-token", "unauthenticated", "forbidden", "not-implemented", "unreachable",
                "server", "bad-response"}
UploadFailureKind ==
    FailureKind \cup {"empty-part", "too-large", "unsupported-type", "scan-flagged",
                      "no-scanner", "no-answer", "cancelled"}

(* The two halves of a request; the scan is the slow one.                  *)
UploadPhase == {"uploading", "scanning"}

(* What the panel can be.                                                  *)
Panels ==
    [status : UploadPhase \cup {"idle", "selected", "stored", "failed"},
     file : File \cup {Null}, upload : 0..MaxUploads,
     kind : UploadFailureKind \cup {"none"}, reach : {"checking", "up", "down"}]

ASSUME UploadAssumption ==
    /\ Empty \subseteq File /\ MaxUploads \in Nat
    /\ Answer \subseteq [status : Nat, readable : BOOLEAN]
    /\ Null \notin File \cup Answer \cup Panels

VARIABLES token,      \* whether localStorage holds one, as useToken reads it
          panel,      \* the panel on screen, or Null
          uploads,    \* the requests, by number
          documents,  \* the page's documents: what it knows to be stored
          attached    \* the page's attachedIds

uploadVars == <<token, panel, uploads, documents, attached>>
Upload == 1..MaxUploads

NewPanel == [status |-> "idle", file |-> Null, upload |-> 0, kind |-> "none",
             reach |-> "checking"]

(* wire: the body, as the network has it; seen: bodyFullySent, as the page *)
(* was told; kept: what the platform did; settled: how the promise ended.  *)
NotSent == [wire |-> "none", seen |-> FALSE, answer |-> Null, kept |-> FALSE,
            settled |-> "unsent"]

-----------------------------------------------------------------------------
(* What an answer means.                                                   *)

(* uploadDocument's xhr.onload: 201 with an id is the only success.        *)
KindOf(a) ==
    CASE a.status = 201 -> IF a.readable THEN "ok" ELSE "bad-response"
      [] a.status = 400 -> "empty-part"
      [] a.status = 401 -> "unauthenticated"
      [] a.status = 403 -> "forbidden"
      [] a.status \in {404, 405} -> "not-implemented"
      [] a.status = 413 -> "too-large"
      [] a.status = 415 -> "unsupported-type"
      [] a.status = 422 -> IF a.readable THEN "scan-flagged" ELSE "bad-response"
      [] a.status = 503 -> "no-scanner"
      [] OTHER -> IF a.status >= 500 THEN "server" ELSE "bad-response"

(* What UPLOAD_FAILURE_COPY tells a person of the file.                    *)
Tells(kind) == IF kind \in {"server", "bad-response", "no-answer"} THEN "unknown"
               ELSE "nothing was stored"

(* The platform keeps the file exactly when it means to answer 201; an     *)
(* answer in 5xx other than 503 leaves both possible.                      *)
Keeps(a) == IF a.status = 201 THEN {TRUE}
            ELSE IF a.status >= 500 /\ a.status # 503 THEN BOOLEAN ELSE {FALSE}

-----------------------------------------------------------------------------
(* What the panel offers.                                                  *)

Sending == panel # Null /\ panel.status \in UploadPhase
Blocked == panel.reach = "down" \/ ~token \/ panel.reach = "checking"
Accepting == panel # Null /\ ~Blocked /\ ~Sending

(* The sentence of the panel, which its live region repeats once for each  *)
(* step: what it claims of the file.                                       *)
Announces(p) ==
    CASE p.status = "idle"      -> "nothing"
      [] p.status = "selected"  -> "nothing was sent yet"
      [] p.status = "uploading" -> "it is being sent"
      [] p.status = "scanning"  -> "it is being scanned"
      [] p.status = "stored"    -> "it is stored"
      [] p.status = "failed"    -> Tells(p.kind)

(* A document is offered to the next run beside the word "stored", or in   *)
(* the list of those stored earlier this session, unless it is on it; and  *)
(* each that is on it can be taken off.                                    *)
AttachOffered(d) == panel.status = "stored" /\ panel.upload = d /\ ~Contains(attached, d)
Earlier == {d \in documents : panel.status # "stored" \/ d # panel.upload}
EarlierOffered(d) == d \in Earlier /\ ~Contains(attached, d)
Removable == ToSet(attached)

-----------------------------------------------------------------------------
(* Before an upload.                                                       *)

TokenChangesElsewhere ==
    /\ token' = ~token
    /\ UNCHANGED <<panel, uploads, documents, attached>>

(* The probe of /healthz: only a refused connection closes the panel.      *)
ProbeAnswers(up) ==
    /\ panel # Null /\ panel.reach = "checking"
    /\ panel' = [panel EXCEPT !.reach = IF up THEN "up" ELSE "down"]
    /\ UNCHANGED <<token, uploads, documents, attached>>

CheckAgain ==
    /\ panel # Null /\ panel.reach = "down"
    /\ panel' = [panel EXCEPT !.reach = "checking"]
    /\ UNCHANGED <<token, uploads, documents, attached>>

(* Picked or dropped; the first of several is taken.                       *)
Choose(f) ==
    /\ Accepting
    /\ panel' = [NewPanel EXCEPT !.reach = panel.reach, !.status = "selected", !.file = f]
    /\ UNCHANGED <<token, uploads, documents, attached>>

(* send, of a file the console can see is empty.                           *)
SendEmpty ==
    /\ panel # Null /\ ~Blocked /\ panel.status = "selected" /\ panel.file \in Empty
    /\ panel' = [panel EXCEPT !.status = "failed", !.kind = "empty-part", !.file = Null]
    /\ UNCHANGED <<token, uploads, documents, attached>>

Send(u) ==
    /\ panel # Null /\ ~Blocked /\ panel.status = "selected" /\ panel.file \notin Empty
    /\ uploads[u] = NotSent /\ \A v \in 1..(u - 1) : uploads[v] # NotSent
    /\ uploads' = [uploads EXCEPT ![u].wire = "sending", ![u].settled = "no"]
    /\ panel' = [panel EXCEPT !.status = "uploading", !.upload = u, !.file = Null]
    /\ UNCHANGED <<token, documents, attached>>

-----------------------------------------------------------------------------
(* The request.                                                            *)

BodyGoesOut(u) ==
    /\ uploads[u].wire = "sending" /\ uploads[u].settled = "no"
    /\ uploads' = [uploads EXCEPT ![u].wire = "sent"]
    /\ UNCHANGED <<token, panel, documents, attached>>

(* xhr.upload.onload reaches the page some time later.                     *)
BodySeenSent(u) ==
    /\ uploads[u].wire = "sent" /\ ~uploads[u].seen /\ uploads[u].settled = "no"
    /\ uploads' = [uploads EXCEPT ![u].seen = TRUE]
    /\ panel' = IF panel # Null /\ panel.upload = u /\ Sending
                THEN [panel EXCEPT !.status = "scanning"] ELSE panel
    /\ UNCHANGED <<token, documents, attached>>

(* Scanned, then stored or not; nobody need be waiting any more.           *)
ApiDecides(u, a) ==
    /\ uploads[u].wire = "sent" /\ uploads[u].answer = Null
    /\ \E kept \in Keeps(a) :
          uploads' = [uploads EXCEPT ![u].answer = a, ![u].kept = kept]
    /\ UNCHANGED <<token, panel, documents, attached>>

(* Events reach the page in the order the network raised them.             *)
InOrder(u) == uploads[u].settled = "no" /\ (uploads[u].wire = "sent" => uploads[u].seen)

(* Only the panel still showing this attempt says how it ended.            *)
PanelFails(u, kind) ==
    IF panel # Null /\ panel.upload = u
    THEN [panel EXCEPT !.status = "failed", !.kind = kind] ELSE panel

(* The 201: recorded and attached even when the panel has moved on.        *)
StoredArrives(u) ==
    /\ InOrder(u) /\ uploads[u].answer # Null /\ KindOf(uploads[u].answer) = "ok"
    /\ uploads' = [uploads EXCEPT ![u].settled = "ok"]
    /\ documents' = documents \cup {u}
    /\ attached' = IF Contains(attached, u) THEN attached ELSE Append(attached, u)
    /\ panel' = IF panel # Null /\ panel.upload = u
                THEN [panel EXCEPT !.status = "stored"] ELSE panel
    /\ UNCHANGED token

FailureArrives(u) ==
    /\ InOrder(u) /\ uploads[u].answer # Null /\ KindOf(uploads[u].answer) # "ok"
    /\ uploads' = [uploads EXCEPT ![u].settled = "failed"]
    /\ panel' = PanelFails(u, KindOf(uploads[u].answer))
    /\ UNCHANGED <<token, documents, attached>>

(* Mutant: how far the body had gone is not recorded. *)
ConnectionFails_Forgetful(u) ==
    /\ InOrder(u)
    /\ uploads' = [uploads EXCEPT ![u].settled = "failed"]
    /\ panel' = PanelFails(u, "unreachable")
    /\ UNCHANGED <<token, documents, attached>>

(* xhr.onerror and xhr.ontimeout.                                          *)
ConnectionFails(u) ==
    /\ InOrder(u)
    /\ uploads' = [uploads EXCEPT ![u].settled = "failed"]
    /\ panel' = PanelFails(u, IF uploads[u].seen THEN "no-answer" ELSE "unreachable")
    /\ UNCHANGED <<token, documents, attached>>

(* reset, offered as Cancel while the page believes bytes are going out:   *)
(* the abort settles the promise as cancelled, whatever else has happened. *)
Cancel ==
    /\ panel # Null /\ panel.status = "uploading"
    /\ uploads' = [uploads EXCEPT ![panel.upload].settled = "cancelled"]
    /\ panel' = [NewPanel EXCEPT !.reach = panel.reach]
    /\ UNCHANGED <<token, documents, attached>>

(* reset, offered as Clear or Upload another.                              *)
Clear ==
    /\ panel # Null /\ ~Sending /\ panel.status # "idle"
    /\ panel' = [NewPanel EXCEPT !.reach = panel.reach]
    /\ UNCHANGED <<token, uploads, documents, attached>>

Attach(d) ==
    /\ panel # Null /\ (AttachOffered(d) \/ EarlierOffered(d))
    /\ attached' = Append(attached, d)
    /\ UNCHANGED <<token, panel, uploads, documents>>

Detach(d) ==
    /\ panel # Null /\ d \in Removable
    /\ \E i \in 1..Len(attached) : attached[i] = d /\ attached' = RemoveAt(attached, i)
    /\ UNCHANGED <<token, panel, uploads, documents>>

-----------------------------------------------------------------------------

UploadInit ==
    /\ token \in BOOLEAN /\ panel = Null
    /\ uploads = [u \in Upload |-> NotSent]
    /\ documents = {} /\ attached = <<>>

PanelNext ==
    \/ TokenChangesElsewhere
    \/ \E up \in BOOLEAN : ProbeAnswers(up)
    \/ CheckAgain \/ SendEmpty \/ Cancel \/ Clear
    \/ \E f \in File : Choose(f)
    \/ \E d \in Upload : Attach(d) \/ Detach(d)

RequestNext(u) ==
    \/ Send(u) \/ BodyGoesOut(u) \/ BodySeenSent(u)
    \/ \E a \in Answer : ApiDecides(u, a)
    \/ StoredArrives(u) \/ FailureArrives(u) \/ ConnectionFails(u)

(* The upload's timeout is a timer of the browser.                         *)
UploadFairness ==
    \A u \in Upload : WF_uploadVars(BodySeenSent(u)) /\ WF_uploadVars(ConnectionFails(u))

-----------------------------------------------------------------------------

(* A document the platform told the page it stored is never lost to it,    *)
(* though the card was closed, another opened, or a new file chosen before *)
(* the answer came: an open card always has it on the run or a way back on *)
(* to it.  The next run carries only such documents, each once.            *)
(* (send's "recorded even when the panel has moved on"; recordDocument,    *)
(* attachDocument and the two lists.)                                      *)
StoredIsNamed ==
    /\ \A u \in Upload : uploads[u].settled = "ok" => u \in documents /\ uploads[u].kept
    /\ \A u \in documents : uploads[u].kept
    /\ ToSet(attached) \subseteq documents /\ IsInjective(attached)
    /\ panel # Null =>
          \A d \in documents : d \in Removable \/ AttachOffered(d) \/ EarlierOffered(d)

(* What the panel says of the file is so: while it says it is being sent   *)
(* or scanned the request is under way, and scanning means that the body   *)
(* is out; when it says stored, it was, and the page knows the document;   *)
(* when it says nothing was stored, nothing was, and no request still on   *)
(* its way can change that (phaseSentence, UPLOAD_FAILURE_COPY,            *)
(* bodyFullySent).                                                         *)
FateIsTold ==
    panel # Null =>
        LET says == Announces(panel)
            u == uploads[panel.upload] IN
        /\ says \in {"it is being sent", "it is being scanned"} => u.settled = "no"
        /\ says = "it is being scanned" => u.wire = "sent"
        /\ says = "it is stored" => u.kept /\ panel.upload \in documents
        /\ says = "nothing was stored" /\ panel.upload # 0 =>
              ~u.kept /\ (u.wire = "sent" => u.answer # Null)
=============================================================================
