---------------------------- MODULE AgentRunsProofs ----------------------------
(***************************************************************************)
(* The agents page and its upload panel, for any agents, files, answers of *)
(* the API, and number of uploads on their way.                            *)
(***************************************************************************)
EXTENDS AgentRuns, FiniteSetTheorems, SequenceTheorems, TLAPS

Requests ==
    [wire : {"none", "sending", "sent"}, seen : BOOLEAN, answer : Answer \cup {Null},
     kept : BOOLEAN, settled : {"unsent", "no", "ok", "failed", "cancelled"}]

Reports == [reached : Nat, documents : Nat] \cup {Null}

Runs == [documents : Seq(Upload), source : BOOLEAN, payload : Draft \cup {"blank"}]

RunStates ==
    [status : {"idle", "running"}] \cup [status : {"error"}, documentsSent : Nat]
    \cup [status : {"done"}, attached : Seq(Upload), sourceSent : BOOLEAN, report : Reports]

-----------------------------------------------------------------------------
(* The uploads.                                                            *)

(* The variables of the panel and of its requests. *)
UploadTypeOK ==
    /\ token \in BOOLEAN
    /\ panel \in Panels \cup {Null}
    /\ uploads \in [Upload -> Requests]
    /\ documents \subseteq Upload
    /\ attached \in Seq(Upload)

(* The API decides of a body that has gone out whole, and keeps of it what *)
(* its answer means.                                                       *)
Decided(r) ==
    /\ r.answer = Null => ~r.kept
    /\ r.answer # Null => r.wire = "sent" /\ r.kept \in Keeps(r.answer)
    /\ r.settled = "ok" => r.kept
    /\ r.settled = "unsent" => r.wire = "none"

(* A panel that sends waits for the request it names; one that failed      *)
(* tells of a request that is over.                                        *)
Waits(p, up) ==
    /\ p.status \in {"uploading", "scanning", "stored"} => p.upload # 0
    /\ p.status \in {"uploading", "scanning"} => up[p.upload].settled = "no"
    /\ p.status = "scanning" => up[p.upload].wire = "sent"
    /\ p.status = "stored" => up[p.upload].settled = "ok"
    /\ p.status \in {"selected", "idle"} => p.upload = 0
    /\ p.status = "failed" /\ p.upload # 0 =>
          /\ up[p.upload].settled \notin {"unsent", "no"}
          /\ Tells(p.kind) = "nothing was stored" =>
                 /\ ~up[p.upload].kept
                 /\ up[p.upload].wire = "sent" => up[p.upload].answer # Null

UploadInv ==
    /\ UploadTypeOK
    /\ \A u \in Upload : Decided(uploads[u])
    /\ \A u \in documents : uploads[u].kept
    /\ \A u \in Upload : uploads[u].settled = "ok" => u \in documents
    /\ ToSet(attached) \subseteq documents /\ IsInjective(attached)
    /\ panel # Null => Waits(panel, uploads)

-----------------------------------------------------------------------------
(* Sequences without repeats.                                              *)

(* Taking one element off an injective sequence leaves it injective. *)
LEMMA RemoveAtIsInjective ==
    ASSUME NEW S, NEW s \in Seq(S), NEW i \in 1..Len(s), IsInjective(s)
    PROVE  /\ RemoveAt(s, i) \in Seq(S) /\ IsInjective(RemoveAt(s, i))
           /\ ToSet(RemoveAt(s, i)) \subseteq ToSet(s)
  <1> DEFINE a == SubSeq(s, 1, i - 1)
             b == SubSeq(s, i + 1, Len(s))
             t == RemoveAt(s, i)
  <1>1. /\ a \in Seq(S) /\ Len(a) = i - 1 /\ \A k \in 1..(i - 1) : a[k] = s[k]
    BY SubSeqProperties
  <1>2. b \in Seq(S) /\ Len(b) = Len(s) - i /\ \A k \in 1..(Len(s) - i) : b[k] = s[i + k]
    BY SubSeqProperties
  <1>3. t = a \o b
    BY DEF RemoveAt
  <1> HIDE DEF a, b, t
  <1>4. t \in Seq(S) /\ Len(t) = Len(s) - 1
    BY <1>1, <1>2, <1>3, ConcatProperties
  <1>5. \A k \in 1..Len(t) : t[k] = IF k < i THEN s[k] ELSE s[k + 1]
    BY <1>1, <1>2, <1>3, <1>4, ConcatProperties
  <1>6. IsInjective(t)
    <2>1. \A x, y \in 1..Len(s) : s[x] = s[y] => x = y
      BY DEF IsInjective
    <2>2. \A x, y \in 1..Len(t) : t[x] = t[y] => x = y
      BY <1>4, <1>5, <2>1
    <2>3. DOMAIN t = 1..Len(t)
      BY <1>4
    <2> QED
      BY <2>2, <2>3 DEF IsInjective
  <1>7. ToSet(t) \subseteq ToSet(s)
    BY <1>4, <1>5 DEF ToSet
  <1> QED
    BY <1>4, <1>6, <1>7 DEF t

(* Appending an element that is not there leaves it injective. *)
LEMMA AppendIsInjective ==
    ASSUME NEW S, NEW s \in Seq(S), NEW e \in S, IsInjective(s), ~Contains(s, e)
    PROVE  /\ Append(s, e) \in Seq(S) /\ IsInjective(Append(s, e))
           /\ ToSet(Append(s, e)) = ToSet(s) \cup {e}
  <1> DEFINE t == Append(s, e)
  <1>1. /\ t \in Seq(S) /\ Len(t) = Len(s) + 1 /\ t[Len(t)] = e
        /\ \A k \in 1..Len(s) : t[k] = s[k]
    BY AppendProperties
  <1> HIDE DEF t
  <1>2. \A x, y \in 1..Len(s) : s[x] = s[y] => x = y
    BY DEF IsInjective
  <1>3. \A x \in 1..Len(s) : s[x] # e
    BY DEF Contains
  <1>4. \A x, y \in 1..Len(t) : t[x] = t[y] => x = y
    BY <1>1, <1>2, <1>3
  <1>5. DOMAIN t = 1..Len(t) /\ DOMAIN s = 1..Len(s)
    BY <1>1
  <1>6. IsInjective(t)
    BY <1>4, <1>5 DEF IsInjective
  <1>7. ToSet(t) = ToSet(s) \cup {e}
    <2>1. ASSUME NEW x \in ToSet(t) PROVE x \in ToSet(s) \cup {e}
      BY <1>1, <1>5, <2>1 DEF ToSet
    <2>2. ASSUME NEW x \in ToSet(s) \cup {e} PROVE x \in ToSet(t)
      BY <1>1, <1>5, <2>2 DEF ToSet
    <2> QED
      BY <2>1, <2>2
  <1> QED
    BY <1>1, <1>6, <1>7 DEF t

-----------------------------------------------------------------------------
(* The number of an upload that was sent is one of the numbers. *)
LEMMA Numbered ==
    ASSUME NEW n \in 0..MaxUploads, n # 0
    PROVE  n \in Upload
  BY UploadAssumption DEF Upload

(* What answers mean.                                                      *)

(* An answer is shown as a failure of some kind, and when it tells that    *)
(* nothing was stored, nothing was.                                        *)
LEMMA AnswersTell ==
    ASSUME NEW a \in Answer, NEW kept \in Keeps(a)
    PROVE  /\ kept \in BOOLEAN
           /\ KindOf(a) = "ok" => kept
           /\ Tells(KindOf(a)) = "nothing was stored" /\ KindOf(a) # "ok" => ~kept
           /\ KindOf(a) \in {"ok", "bad-response", "empty-part", "unauthenticated", "forbidden",
                            "not-implemented", "too-large", "unsupported-type",
                            "scan-flagged", "no-scanner", "server"}
  <1>1. a.status \in Nat /\ a.readable \in BOOLEAN
    BY UploadAssumption
  <1> DEFINE n == a.status
  <1>2. kept \in BOOLEAN
    BY DEF Keeps
  <1>3. CASE n = 201
    <2>1. kept = TRUE
      BY <1>3 DEF Keeps
    <2>2. KindOf(a) = IF a.readable THEN "ok" ELSE "bad-response"
      BY <1>3 DEF KindOf
    <2> QED
      BY <1>2, <2>1, <2>2 DEF Tells
  <1>4. CASE n # 201 /\ (n < 500 \/ n = 503)
    <2>1. kept = FALSE
      <3>1. n # 201 /\ ~(n >= 500 /\ n # 503)
        BY <1>1, <1>4
      <3>2. Keeps(a) = {FALSE}
        BY <3>1 DEF Keeps
      <3> QED
        BY <3>2
    <2>2. KindOf(a) # "ok" /\ KindOf(a) \in {"bad-response", "empty-part", "unauthenticated",
              "forbidden", "not-implemented", "too-large", "unsupported-type",
              "scan-flagged", "no-scanner", "server"}
      BY <1>1, <1>4 DEF KindOf
    <2> QED
      BY <1>2, <2>1, <2>2
  <1>5. CASE n # 201 /\ n >= 500 /\ n # 503
    <2>1. KindOf(a) = "server"
      BY <1>1, <1>5 DEF KindOf
    <2> QED
      BY <1>2, <2>1 DEF Tells
  <1>6. \/ n = 201
        \/ n # 201 /\ (n < 500 \/ n = 503)
        \/ n # 201 /\ n >= 500 /\ n # 503
    BY <1>1
  <1> QED
    BY <1>3, <1>4, <1>5, <1>6

-----------------------------------------------------------------------------
(* The panel.                                                              *)

(* A new panel waits for nothing. *)
LEMMA NewPanelWaits ==
    ASSUME NEW up
    PROVE  NewPanel \in Panels /\ Waits(NewPanel, up)
  <1>1. 0 \in 0..MaxUploads
    BY UploadAssumption
  <1> QED
    BY <1>1 DEF NewPanel, Panels, UploadPhase, Waits

(* Nor does one over which a file was chosen, or the last attempt cleared. *)
LEMMA ClearedPanelWaits ==
    ASSUME NEW up, NEW p \in Panels, NEW f \in File \cup {Null}
    PROVE  LET q == [NewPanel EXCEPT !.reach = p.reach]
               s == [NewPanel EXCEPT !.reach = p.reach, !.status = "selected", !.file = f]
           IN q \in Panels /\ Waits(q, up) /\ s \in Panels /\ Waits(s, up)
  <1>1. 0 \in 0..MaxUploads
    BY UploadAssumption
  <1> DEFINE q == [NewPanel EXCEPT !.reach = p.reach]
             s == [NewPanel EXCEPT !.reach = p.reach, !.status = "selected", !.file = f]
  <1>2. q = [status |-> "idle", file |-> Null, upload |-> 0, kind |-> "none", reach |-> p.reach]
    BY DEF NewPanel
  <1>4. p.reach \in {"checking", "up", "down"}
    BY DEF Panels, UploadPhase
  <1>3. s \in Panels /\ s.status = "selected" /\ s.upload = 0
    <2>1. NewPanel \in Panels /\ NewPanel.upload = 0
      BY NewPanelWaits DEF NewPanel
    <2> QED
      BY <1>4, <2>1 DEF Panels, UploadPhase
  <1> HIDE DEF q, s
  <1>5. q \in Panels /\ Waits(q, up)
    BY <1>1, <1>2, <1>4 DEF Panels, UploadPhase, Waits
  <1>6. s \in Panels /\ Waits(s, up)
    BY <1>3 DEF Waits
  <1> QED
    BY <1>5, <1>6 DEF q, s

(* A step that changes neither requests nor lists, and leaves a panel that *)
(* waits for nothing new.                                                  *)
LEMMA PanelStep ==
    ASSUME UploadInv, token' \in BOOLEAN, UNCHANGED <<uploads, documents, attached>>,
           panel' \in Panels \cup {Null},
           panel' # Null => Waits(panel', uploads)
    PROVE  UploadInv'
  BY DEF UploadInv, UploadTypeOK

(* No press in the panel and no change of the token breaks it. *)
LEMMA PanelNextKeeps ==
    ASSUME UploadInv, PanelNext
    PROVE  UploadInv'
  <1> USE DEF UploadInv, UploadTypeOK
  <1>1. CASE TokenChangesElsewhere
    BY <1>1, PanelStep DEF TokenChangesElsewhere
  <1>2. ASSUME NEW up \in BOOLEAN, ProbeAnswers(up) PROVE UploadInv'
    <2>1. panel' \in Panels /\ Waits(panel', uploads)
      BY <1>2 DEF ProbeAnswers, Panels, UploadPhase, Waits
    <2> QED
      BY <1>2, <2>1, PanelStep DEF ProbeAnswers
  <1>3. CASE CheckAgain
    <2>1. panel' \in Panels /\ Waits(panel', uploads)
      BY <1>3 DEF CheckAgain, Panels, UploadPhase, Waits
    <2> QED
      BY <1>3, <2>1, PanelStep DEF CheckAgain
  <1>4. CASE SendEmpty
    <2>1. panel' \in Panels /\ Waits(panel', uploads)
      BY <1>4 DEF SendEmpty, Panels, UploadPhase, UploadFailureKind, Waits
    <2> QED
      BY <1>4, <2>1, PanelStep DEF SendEmpty
  <1>5. CASE Clear
    <2>1. panel' \in Panels /\ Waits(panel', uploads)
      BY <1>5, ClearedPanelWaits DEF Clear
    <2> QED
      BY <1>5, <2>1, PanelStep DEF Clear
  <1>6. ASSUME NEW f \in File, Choose(f) PROVE UploadInv'
    <2>1. panel # Null
      BY <1>6 DEF Choose, Accepting
    <2>2. panel' \in Panels /\ Waits(panel', uploads)
      BY <1>6, <2>1, ClearedPanelWaits DEF Choose
    <2> QED
      BY <1>6, <2>2, PanelStep DEF Choose
  <1>7. CASE Cancel
    <2> DEFINE u == panel.upload
    <2>1. panel \in Panels /\ panel # Null /\ u \in Upload /\ uploads[u].settled = "no"
      <3>1. panel # Null /\ panel.status = "uploading"
        BY <1>7 DEF Cancel
      <3>2. panel \in Panels /\ Waits(panel, uploads)
        BY <3>1
      <3>3. u \in 0..MaxUploads /\ u # 0 /\ uploads[u].settled = "no"
        BY <3>1, <3>2 DEF Waits, Panels, UploadPhase
      <3> QED
        BY <3>1, <3>2, <3>3, UploadAssumption DEF Upload
    <2>2. uploads' = [uploads EXCEPT ![u].settled = "cancelled"] /\ UNCHANGED <<token, documents, attached>>
      BY <1>7 DEF Cancel
    <2>3. panel' \in Panels /\ Waits(panel', uploads')
      BY <1>7, <2>1, ClearedPanelWaits DEF Cancel
    <2> HIDE DEF u
    <2>4. uploads' \in [Upload -> Requests]
      BY <2>1, <2>2 DEF Requests
    <2>5. \A v \in Upload : Decided(uploads'[v])
      BY <2>1, <2>2 DEF Decided, Requests
    <2>6. \A v \in documents : uploads'[v].kept
      BY <2>1, <2>2 DEF Requests
    <2>7. \A v \in Upload : uploads'[v].settled = "ok" => v \in documents
      BY <2>1, <2>2 DEF Requests
    <2> QED
      BY <2>2, <2>3, <2>4, <2>5, <2>6, <2>7
  <1>8. ASSUME NEW d \in Upload, Attach(d) PROVE UploadInv'
    <2>1. d \in documents /\ ~Contains(attached, d)
      <3>1. panel # Null /\ (AttachOffered(d) \/ EarlierOffered(d))
        BY <1>8 DEF Attach
      <3>2. panel.status = "stored" => panel.upload \in documents
        <4>1. panel \in Panels /\ Waits(panel, uploads)
          BY <3>1
        <4>2. panel.upload \in 0..MaxUploads
          BY <4>1 DEF Panels, UploadPhase
        <4> QED
          BY <4>1, <4>2, UploadAssumption DEF Waits, Upload
      <3> QED
        BY <3>1, <3>2 DEF AttachOffered, EarlierOffered, Earlier
    <2>2. /\ attached' \in Seq(Upload) /\ IsInjective(attached')
          /\ ToSet(attached') = ToSet(attached) \cup {d}
      BY <1>8, <2>1, AppendIsInjective DEF Attach
    <2> QED
      BY <1>8, <2>1, <2>2 DEF Attach
  <1>9. ASSUME NEW d \in Upload, Detach(d) PROVE UploadInv'
    <2>1. PICK i \in 1..Len(attached) : attached' = RemoveAt(attached, i)
      BY <1>9 DEF Detach
    <2>2. /\ attached' \in Seq(Upload) /\ IsInjective(attached')
          /\ ToSet(attached') \subseteq ToSet(attached)
      BY <2>1, RemoveAtIsInjective
    <2> QED
      BY <1>9, <2>2 DEF Detach
  <1> QED
    BY <1>1, <1>2, <1>3, <1>4, <1>5, <1>6, <1>7, <1>8, <1>9 DEF PanelNext

-----------------------------------------------------------------------------
(* The requests.                                                           *)

(* A step of one request that changes neither what it keeps nor whether it *)
(* is over well. *)
LEMMA RequestStep ==
    ASSUME UploadInv, NEW u \in Upload, NEW r \in Requests,
           uploads' = [uploads EXCEPT ![u] = r],
           Decided(r),
           uploads[u].kept => r.kept,
           UNCHANGED <<token, documents, attached>>,
           r.settled = "ok" => u \in documents,
           panel' \in Panels \cup {Null},
           panel' # Null => Waits(panel', uploads')
    PROVE  UploadInv'
  <1>1. uploads' \in [Upload -> Requests]
    BY DEF UploadInv, UploadTypeOK
  <1>2. \A v \in Upload : uploads'[v] = IF v = u THEN r ELSE uploads[v]
    BY DEF UploadInv, UploadTypeOK
  <1>3. \A v \in Upload : Decided(uploads'[v])
    BY <1>2 DEF UploadInv
  <1>4. \A v \in documents : uploads'[v].kept
    BY <1>2 DEF UploadInv, UploadTypeOK
  <1>5. \A v \in Upload : uploads'[v].settled = "ok" => v \in documents
    BY <1>2 DEF UploadInv
  <1> QED
    BY <1>1, <1>3, <1>4, <1>5 DEF UploadInv, UploadTypeOK

(* What became of a request as long as nobody settles it: a panel that     *)
(* waits, or has told its fate, is as right as it was.                     *)
LEMMA StillWaits ==
    ASSUME NEW up \in [Upload -> Requests], NEW u \in Upload, NEW r \in Requests,
           NEW p \in Panels, Waits(p, up), \A v \in Upload : Decided(up[v]),
           r.settled = up[u].settled, up[u].wire = "sent" => r.wire = "sent",
           \/ up[u].settled \in {"unsent", "no"}
           \/ r = up[u]
           \/ up[u].wire = "sent" /\ up[u].answer = Null
    PROVE  Waits(p, [up EXCEPT ![u] = r])
  <1> DEFINE w == [up EXCEPT ![u] = r]
             n == p.upload
  <1>1. \A v \in Upload : w[v] = IF v = u THEN r ELSE up[v]
    OBVIOUS
  <1>2. n # 0 => n \in Upload
    <2>1. n \in 0..MaxUploads
      BY DEF Panels, UploadPhase
    <2> QED
      BY <2>1, UploadAssumption DEF Upload
  <1> HIDE DEF w
  <1>3. p.status \in {"uploading", "scanning"} => w[n].settled = "no"
    BY <1>1, <1>2 DEF Waits
  <1>4. p.status = "stored" => w[n].settled = "ok"
    BY <1>1, <1>2 DEF Waits
  <1>6. p.status = "scanning" => w[n].wire = "sent"
    BY <1>1, <1>2 DEF Waits
  <1>5. ASSUME p.status = "failed", n # 0
        PROVE  /\ w[n].settled \notin {"unsent", "no"}
               /\ Tells(p.kind) = "nothing was stored" =>
                      ~w[n].kept /\ (w[n].wire = "sent" => w[n].answer # Null)
    <2>1. /\ up[n].settled \notin {"unsent", "no"}
          /\ Tells(p.kind) = "nothing was stored" =>
                 ~up[n].kept /\ (up[n].wire = "sent" => up[n].answer # Null)
      BY <1>5 DEF Waits
    <2>2. CASE n # u
      BY <1>1, <1>2, <1>5, <2>1, <2>2
    <2>3. CASE n = u
      BY <1>1, <1>2, <1>5, <2>1, <2>3
    <2> QED
      BY <2>2, <2>3
  <1> QED
    BY <1>3, <1>4, <1>5, <1>6 DEF w, Waits

(* The failure of a request that was under way is told by the panel that   *)
(* shows it, if there is one still. *)
LEMMA FailureIsTold ==
    ASSUME UploadInv, NEW u \in Upload, NEW kind \in UploadFailureKind,
           uploads[u].settled = "no",
           uploads' = [uploads EXCEPT ![u].settled = "failed"],
           panel' = PanelFails(u, kind),
           UNCHANGED <<token, documents, attached>>,
           Tells(kind) = "nothing was stored" =>
               ~uploads[u].kept /\ (uploads[u].wire = "sent" => uploads[u].answer # Null)
    PROVE  UploadInv'
  <1> DEFINE r == [uploads[u] EXCEPT !.settled = "failed"]
  <1>1. /\ uploads \in [Upload -> Requests] /\ panel \in Panels \cup {Null}
        /\ Decided(uploads[u])
        /\ panel # Null => Waits(panel, uploads)
    BY DEF UploadInv, UploadTypeOK
  <1>2. uploads' = [uploads EXCEPT ![u] = r]
    BY <1>1
  <1>3. /\ r \in Requests /\ Decided(r) /\ r.settled = "failed"
        /\ r.kept = uploads[u].kept /\ r.wire = uploads[u].wire /\ r.answer = uploads[u].answer
    BY <1>1 DEF Requests, Decided
  <1>6. \A v \in Upload : uploads'[v] = IF v = u THEN r ELSE uploads[v]
    BY <1>1, <1>2
  <1> HIDE DEF r
  <1>4. CASE panel # Null /\ panel.upload = u
    <2>1. panel' = [panel EXCEPT !.status = "failed", !.kind = kind]
      BY <1>4 DEF PanelFails
    <2>2. panel' \in Panels
      BY <1>1, <1>4, <2>1 DEF Panels, UploadPhase
    <2>3. panel'.status = "failed" /\ panel'.kind = kind /\ panel'.upload = u
      BY <1>1, <1>4, <2>1 DEF Panels, UploadPhase
    <2>4. uploads'[u] = r
      BY <1>1, <1>2
    <2>5. Waits(panel', uploads')
      BY <1>3, <2>3, <2>4 DEF Waits
    <2> QED
      BY <1>2, <1>3, <2>2, <2>5, RequestStep
  <1>5. CASE ~(panel # Null /\ panel.upload = u)
    <2>1. panel' = panel
      BY <1>5 DEF PanelFails
    <2>2. ASSUME panel # Null PROVE Waits(panel, uploads')
      <3>1. panel.upload # u /\ Waits(panel, uploads) /\ panel \in Panels
        BY <1>1, <1>5, <2>2
      <3>2. panel.upload # 0 => uploads'[panel.upload] = uploads[panel.upload]
        <4>1. panel.upload \in 0..MaxUploads
          BY <3>1 DEF Panels, UploadPhase
        <4>2. panel.upload # 0 => panel.upload \in Upload
          BY <4>1, Numbered
        <4> QED
          BY <1>6, <3>1, <4>2
      <3> QED
        BY <3>1, <3>2 DEF Waits
    <2> QED
      BY <1>1, <1>2, <1>3, <2>1, <2>2, RequestStep
  <1> QED
    BY <1>4, <1>5

(* What a request does, and what the page hears of it, breaks nothing. *)
LEMMA RequestNextKeeps ==
    ASSUME UploadInv, NEW u \in Upload, RequestNext(u)
    PROVE  UploadInv'
  <1>1. /\ uploads \in [Upload -> Requests] /\ panel \in Panels \cup {Null}
        /\ uploads[u] \in Requests
        /\ \A v \in Upload : Decided(uploads[v])
        /\ panel # Null => Waits(panel, uploads)
        /\ uploads[u].settled = "ok" => u \in documents
    BY DEF UploadInv, UploadTypeOK
  <1>2. CASE Send(u)
    <2> DEFINE r == [uploads[u] EXCEPT !.wire = "sending", !.settled = "no"]
    <2>1. /\ panel # Null /\ panel.status = "selected" /\ uploads[u] = NotSent
          /\ uploads' = [uploads EXCEPT ![u] = r]
          /\ panel' = [panel EXCEPT !.status = "uploading", !.upload = u, !.file = Null]
          /\ UNCHANGED <<token, documents, attached>>
      BY <1>1, <1>2 DEF Send
    <2>2. /\ r \in Requests /\ Decided(r) /\ r.settled = "no"
          /\ ~uploads[u].kept
      <3>1. ~uploads[u].kept /\ uploads[u].answer = Null
        BY <2>1 DEF NotSent
      <3>2. r \in Requests /\ r.settled = "no"
        BY <1>1 DEF Requests
      <3>3. ~r.kept /\ r.answer = Null
        BY <1>1, <3>1 DEF Requests
      <3> QED
        BY <3>1, <3>2, <3>3 DEF Decided
    <2> HIDE DEF r
    <2>3. panel \in Panels /\ u \in 0..MaxUploads /\ u # 0
      BY <1>1, <2>1, UploadAssumption DEF Upload
    <2>4. panel' \in Panels /\ panel'.status = "uploading" /\ panel'.upload = u
      BY <2>1, <2>3 DEF Panels, UploadPhase
    <2>5. Waits(panel', uploads')
      BY <1>1, <2>1, <2>2, <2>3, <2>4 DEF Waits
    <2> QED
      BY <2>1, <2>2, <2>4, <2>5, RequestStep
  <1>3. CASE BodyGoesOut(u)
    <2> DEFINE r == [uploads[u] EXCEPT !.wire = "sent"]
    <2>1. /\ uploads[u].wire = "sending" /\ uploads[u].settled = "no"
          /\ uploads' = [uploads EXCEPT ![u] = r]
          /\ UNCHANGED <<token, panel, documents, attached>>
      BY <1>1, <1>3 DEF BodyGoesOut
    <2>2. /\ r \in Requests /\ Decided(r) /\ r.settled = "no"
          /\ r.kept = uploads[u].kept
      BY <1>1, <2>1 DEF Requests, Decided
    <2> HIDE DEF r
    <2>3. panel # Null => Waits(panel, uploads')
      BY <1>1, <2>1, <2>2, StillWaits
    <2> QED
      BY <1>1, <2>1, <2>2, <2>3, RequestStep
  <1>4. CASE BodySeenSent(u)
    <2> DEFINE r == [uploads[u] EXCEPT !.seen = TRUE]
    <2>1. /\ uploads[u].settled = "no" /\ uploads[u].wire = "sent"
          /\ uploads' = [uploads EXCEPT ![u] = r]
          /\ UNCHANGED <<token, documents, attached>>
      BY <1>1, <1>4 DEF BodySeenSent
    <2>2. /\ r \in Requests /\ Decided(r) /\ r.settled = "no" /\ r.wire = "sent"
          /\ r.kept = uploads[u].kept
      BY <1>1, <2>1 DEF Requests, Decided
    <2> HIDE DEF r
    <2>3. panel # Null => Waits(panel, uploads')
      BY <1>1, <2>1, <2>2, StillWaits
    <2>4. CASE panel # Null /\ panel.upload = u /\ Sending
      <3>1. panel' = [panel EXCEPT !.status = "scanning"] /\ panel \in Panels
        BY <1>1, <1>4, <2>4 DEF BodySeenSent
      <3>2. /\ panel' \in Panels /\ panel'.status = "scanning" /\ panel'.upload = u
        BY <2>4, <3>1 DEF Panels, UploadPhase
      <3>3. u # 0 /\ uploads'[u].settled = "no" /\ uploads'[u].wire = "sent"
        BY <1>1, <2>1, <2>2, UploadAssumption DEF Upload
      <3>4. Waits(panel', uploads')
        BY <3>2, <3>3 DEF Waits
      <3> QED
        BY <2>1, <2>2, <3>2, <3>4, RequestStep
    <2>5. CASE ~(panel # Null /\ panel.upload = u /\ Sending)
      <3>1. panel' = panel
        BY <1>4, <2>5 DEF BodySeenSent
      <3> QED
        BY <1>1, <2>1, <2>2, <2>3, <3>1, RequestStep
    <2> QED
      BY <2>4, <2>5
  <1>5. ASSUME NEW a \in Answer, ApiDecides(u, a) PROVE UploadInv'
    <2>1. PICK kept \in Keeps(a) : uploads' = [uploads EXCEPT ![u].answer = a, ![u].kept = kept]
      BY <1>5 DEF ApiDecides
    <2> DEFINE r == [uploads[u] EXCEPT !.answer = a, !.kept = kept]
    <2>2. /\ uploads[u].wire = "sent" /\ uploads[u].answer = Null
          /\ uploads' = [uploads EXCEPT ![u] = r]
          /\ UNCHANGED <<token, panel, documents, attached>>
      BY <1>1, <1>5, <2>1 DEF ApiDecides
    <2>3. a # Null /\ kept \in BOOLEAN /\ ~uploads[u].kept /\ uploads[u].settled # "ok"
      BY <1>1, <2>2, UploadAssumption, AnswersTell DEF Decided
    <2>4. /\ r \in Requests /\ r.settled = uploads[u].settled /\ r.wire = "sent"
          /\ r.answer = a /\ r.kept = kept
      BY <1>1, <2>2, <2>3 DEF Requests
    <2> HIDE DEF r
    <2>5. Decided(r)
      BY <1>1, <2>2, <2>3, <2>4 DEF Decided
    <2>6. panel # Null => Waits(panel, uploads')
      BY <1>1, <2>2, <2>4, StillWaits
    <2> QED
      BY <1>1, <2>2, <2>3, <2>4, <2>5, <2>6, RequestStep
  <1>6. CASE StoredArrives(u)
    <2> DEFINE r == [uploads[u] EXCEPT !.settled = "ok"]
    <2>1. /\ uploads[u].settled = "no" /\ uploads[u].answer # Null
          /\ KindOf(uploads[u].answer) = "ok"
          /\ uploads' = [uploads EXCEPT ![u] = r]
          /\ documents' = documents \cup {u}
          /\ token' = token
      BY <1>1, <1>6 DEF StoredArrives, InOrder
    <2>2. uploads[u].kept
      <3>1. uploads[u].answer \in Answer /\ uploads[u].kept \in Keeps(uploads[u].answer)
        BY <1>1, <2>1 DEF Requests, Decided
      <3> QED
        BY <2>1, <3>1, AnswersTell
    <2>3. /\ r \in Requests /\ Decided(r) /\ r.settled = "ok" /\ r.kept
      BY <1>1, <2>1, <2>2 DEF Requests, Decided
    <2> HIDE DEF r
    <2>4. \A v \in Upload : uploads'[v] = IF v = u THEN r ELSE uploads[v]
      BY <1>1, <2>1
    <2>5. uploads' \in [Upload -> Requests] /\ \A v \in Upload : Decided(uploads'[v])
      BY <1>1, <2>1, <2>3, <2>4
    <2>6. /\ attached' \in Seq(Upload) /\ IsInjective(attached')
          /\ ToSet(attached') \subseteq documents'
      <3>1. attached \in Seq(Upload) /\ IsInjective(attached) /\ ToSet(attached) \subseteq documents
        BY DEF UploadInv, UploadTypeOK
      <3>2. CASE Contains(attached, u)
        BY <1>6, <2>1, <3>1, <3>2 DEF StoredArrives
      <3>3. CASE ~Contains(attached, u)
        <4>1. attached' = Append(attached, u)
          BY <1>6, <3>3 DEF StoredArrives
        <4> QED
          BY <2>1, <3>1, <3>3, <4>1, AppendIsInjective
      <3> QED
        BY <3>2, <3>3
    <2>7. /\ documents' \subseteq Upload
          /\ \A v \in documents' : uploads'[v].kept
          /\ \A v \in Upload : uploads'[v].settled = "ok" => v \in documents'
      BY <2>1, <2>3, <2>4 DEF UploadInv, UploadTypeOK
    <2>8. panel' \in Panels \cup {Null} /\ (panel' # Null => Waits(panel', uploads'))
      <3>1. CASE panel # Null /\ panel.upload = u
        <4>1. panel' = [panel EXCEPT !.status = "stored"] /\ panel \in Panels
          BY <1>1, <1>6, <3>1 DEF StoredArrives
        <4>2. panel' \in Panels /\ panel'.status = "stored" /\ panel'.upload = u
          BY <3>1, <4>1 DEF Panels, UploadPhase
        <4>3. u # 0 /\ uploads'[u].settled = "ok"
          BY <2>3, <2>4, UploadAssumption DEF Upload
        <4> QED
          BY <4>2, <4>3 DEF Waits
      <3>2. CASE ~(panel # Null /\ panel.upload = u)
        <4>1. panel' = panel
          BY <1>6, <3>2 DEF StoredArrives
        <4>2. ASSUME panel # Null PROVE Waits(panel, uploads')
          <5>1. panel.upload # u /\ Waits(panel, uploads) /\ panel \in Panels
            BY <1>1, <3>2, <4>2
          <5>2. panel.upload # 0 => uploads'[panel.upload] = uploads[panel.upload]
            <6>1. panel.upload \in 0..MaxUploads
              BY <5>1 DEF Panels, UploadPhase
            <6> QED
              BY <2>4, <5>1, <6>1, UploadAssumption DEF Upload
          <5> QED
            BY <5>1, <5>2 DEF Waits
        <4> QED
          BY <1>1, <4>1, <4>2
      <3> QED
        BY <3>1, <3>2
    <2> QED
      BY <2>1, <2>5, <2>6, <2>7, <2>8 DEF UploadInv, UploadTypeOK
  <1>7. CASE FailureArrives(u)
    <2> DEFINE a == uploads[u].answer
    <2>1. /\ uploads[u].settled = "no" /\ a # Null /\ KindOf(a) # "ok"
          /\ uploads' = [uploads EXCEPT ![u].settled = "failed"]
          /\ panel' = PanelFails(u, KindOf(a))
          /\ UNCHANGED <<token, documents, attached>>
      BY <1>7 DEF FailureArrives, InOrder
    <2>2. a \in Answer /\ uploads[u].kept \in Keeps(a)
      BY <1>1, <2>1 DEF Requests, Decided
    <2> DEFINE kind == KindOf(a)
    <2>3. /\ kind \in UploadFailureKind
          /\ Tells(kind) = "nothing was stored" => ~uploads[u].kept
      BY <2>1, <2>2, AnswersTell DEF UploadFailureKind, FailureKind
    <2>4. panel' = PanelFails(u, kind)
      BY <2>1
    <2> HIDE DEF kind
    <2> QED
      BY <2>1, <2>3, <2>4, FailureIsTold
  <1>8. CASE ConnectionFails(u)
    <2> DEFINE kind == IF uploads[u].seen THEN "no-answer" ELSE "unreachable"
    <2>1. /\ uploads[u].settled = "no" /\ (uploads[u].wire = "sent" => uploads[u].seen)
          /\ uploads' = [uploads EXCEPT ![u].settled = "failed"]
          /\ panel' = PanelFails(u, kind)
          /\ UNCHANGED <<token, documents, attached>>
      BY <1>8 DEF ConnectionFails, InOrder
    <2>2. /\ kind \in UploadFailureKind
          /\ Tells(kind) = "nothing was stored" =>
              ~uploads[u].kept /\ (uploads[u].wire = "sent" => uploads[u].answer # Null)
      BY <1>1, <2>1 DEF Tells, Decided, UploadFailureKind, FailureKind
    <2> QED
      BY <2>1, <2>2, FailureIsTold
  <1> QED
    BY <1>2, <1>3, <1>4, <1>5, <1>6, <1>7, <1>8 DEF RequestNext

-----------------------------------------------------------------------------
(* The page.                                                               *)

(* The variables of the page; a result on screen is of what the run was    *)
(* sent with; and one run at most is on its way.                           *)
PageInv ==
    /\ openId \in Agent \cup {Null}
    /\ specs \in [Agent -> {"none", "loading", "ready", "error"}]
    /\ loads \in [Agent -> 0..MaxLoads]
    /\ drafts \in [Agent -> Draft \cup {"blank"}]
    /\ states \in [Agent -> RunStates]
    /\ busy \in BOOLEAN
    /\ sent \in [Agent -> Runs]
    /\ source \in BOOLEAN
    /\ \A a \in Agent : states[a].status = "done" =>
          /\ states[a].attached = sent[a].documents /\ states[a].sourceSent = sent[a].source
          /\ states[a].report = Report(sent[a])
    /\ \A a \in Agent : states[a].status = "error" =>
          states[a].documentsSent = Len(sent[a].documents)
    /\ \A a, b \in Agent : states[a].status = "running" /\ states[b].status = "running" => a = b
    /\ busy <=> \E a \in Agent : states[a].status = "running"

AgentsInv == UploadInv /\ PageInv /\ (panel # Null <=> Mounted)

(* The API reports of a run something, or nothing. *)
LEMMA ReportType ==
    ASSUME NEW request \in Runs
    PROVE  Report(request) \in Reports
  <1>1. Len(request.documents) \in Nat /\ request.source \in BOOLEAN
    BY DEF Runs
  <1> DEFINE reached == IF TakesIds THEN Len(request.documents) ELSE 0
  <1>2. reached \in Nat /\ reached + (IF request.source THEN 1 ELSE 0) \in Nat
    <2>1. reached \in Nat
      BY <1>1
    <2> HIDE DEF reached
    <2> QED
      BY <1>1, <2>1
  <1>3. Report(request) = IF request.source \/ reached > 0
                          THEN [reached |-> reached,
                                documents |-> reached + (IF request.source THEN 1 ELSE 0)]
                          ELSE Null
    BY DEF Report
  <1> HIDE DEF reached
  <1> QED
    BY <1>2, <1>3 DEF Reports

(* One agent's run changes what the page holds of that agent only. *)
LEMMA RunStep ==
    ASSUME PageInv, NEW a \in Agent, NEW s \in RunStates, NEW q \in Runs,
           states' = [states EXCEPT ![a] = s], sent' = [sent EXCEPT ![a] = q],
           s.status = "done" =>
               s.attached = q.documents /\ s.sourceSent = q.source /\ s.report = Report(q),
           s.status = "error" => s.documentsSent = Len(q.documents),
           busy' \in BOOLEAN,
           \A b \in Agent : b # a => states[b].status # "running",
           busy' <=> s.status = "running",
           UNCHANGED <<openId, specs, loads, drafts, source>>
    PROVE  PageInv'
  <1>1. \A b \in Agent : /\ states'[b] = IF b = a THEN s ELSE states[b]
                         /\ sent'[b] = IF b = a THEN q ELSE sent[b]
    BY DEF PageInv
  <1>2. states' \in [Agent -> RunStates] /\ sent' \in [Agent -> Runs]
    BY DEF PageInv
  <1>3. \A b \in Agent : states'[b].status = "done" =>
          /\ states'[b].attached = sent'[b].documents /\ states'[b].sourceSent = sent'[b].source
          /\ states'[b].report = Report(sent'[b])
    BY <1>1 DEF PageInv
  <1>8. \A b \in Agent : states'[b].status = "error" =>
          states'[b].documentsSent = Len(sent'[b].documents)
    BY <1>1 DEF PageInv
  <1> DEFINE runs(b) == states'[b].status = "running"
  <1>7. \A b \in Agent : runs(b) <=> b = a /\ s.status = "running"
    BY <1>1
  <1> HIDE DEF runs
  <1>4. \A b, c \in Agent : runs(b) /\ runs(c) => b = c
    BY <1>7
  <1>5. busy' <=> \E b \in Agent : runs(b)
    BY <1>7
  <1>6. /\ openId' \in Agent \cup {Null}
        /\ specs' \in [Agent -> {"none", "loading", "ready", "error"}]
        /\ loads' \in [Agent -> 0..MaxLoads]
        /\ drafts' \in [Agent -> Draft \cup {"blank"}]
        /\ source' \in BOOLEAN
    BY DEF PageInv
  <1> QED
    BY <1>2, <1>3, <1>4, <1>5, <1>6, <1>8 DEF PageInv, runs

(* What is shown and what is on its way, when the runs are as they were. *)
LEMMA FormStep ==
    ASSUME PageInv, UNCHANGED <<states, busy, sent>>,
           openId' \in Agent \cup {Null},
           specs' \in [Agent -> {"none", "loading", "ready", "error"}],
           loads' \in [Agent -> 0..MaxLoads],
           drafts' \in [Agent -> Draft \cup {"blank"}],
           source' \in BOOLEAN
    PROVE  PageInv'
  BY DEF PageInv, Report

(* What a card does breaks nothing of the page. *)
LEMMA CardPageKeeps ==
    ASSUME PageInv, attached \in Seq(Upload), NEW a \in Agent, CardNext(a)
    PROVE  PageInv'
  <1>1. CASE Open(a)
    <2>1. openId' = a /\ UNCHANGED <<drafts, states, busy, sent, source>>
      BY <1>1 DEF Open
    <2>2. specs' \in [Agent -> {"none", "loading", "ready", "error"}] /\ loads' \in [Agent -> 0..MaxLoads]
      <3>1. CASE Ready(a)
        BY <1>1, <3>1 DEF Open, PageInv
      <3>2. CASE ~Ready(a)
        <4>1. /\ loads[a] < MaxLoads
              /\ specs' = [specs EXCEPT ![a] = "loading"] /\ loads' = [loads EXCEPT ![a] = @ + 1]
          BY <1>1, <3>2 DEF Open
        <4>2. loads[a] + 1 \in 0..MaxLoads
          BY <4>1, AgentAssumption DEF PageInv
        <4> QED
          BY <4>1, <4>2 DEF PageInv
      <3> QED
        BY <3>1, <3>2
    <2>3. drafts' \in [Agent -> Draft \cup {"blank"}] /\ source' \in BOOLEAN
      BY <2>1 DEF PageInv
    <2> QED
      BY <2>1, <2>2, <2>3, FormStep
  <1>2. CASE Close(a)
    BY <1>2, FormStep DEF Close, PageInv
  <1>3. ASSUME NEW ok \in BOOLEAN, SpecArrives(a, ok) PROVE PageInv'
    <2>1. /\ loads[a] > 0
          /\ specs' = [specs EXCEPT ![a] = IF ok THEN "ready" ELSE "error"]
          /\ loads' = [loads EXCEPT ![a] = @ - 1]
          /\ UNCHANGED <<openId, drafts, states, busy, sent, source>>
      BY <1>3 DEF SpecArrives
    <2>2. loads[a] - 1 \in 0..MaxLoads
      BY <2>1, AgentAssumption DEF PageInv
    <2>3. loads' \in [Agent -> 0..MaxLoads] /\ specs' \in [Agent -> {"none", "loading", "ready", "error"}]
      BY <2>1, <2>2 DEF PageInv
    <2>4. openId' \in Agent \cup {Null} /\ drafts' \in [Agent -> Draft \cup {"blank"}] /\ source' \in BOOLEAN
      BY <2>1 DEF PageInv
    <2> QED
      BY <2>1, <2>3, <2>4, FormStep
  <1>4. ASSUME NEW v \in Draft, Type(a, v) PROVE PageInv'
    <2>1. drafts' = [drafts EXCEPT ![a] = v] /\ UNCHANGED <<openId, specs, loads, states, busy, sent, source>>
      BY <1>4 DEF Type
    <2>2. drafts' \in [Agent -> Draft \cup {"blank"}]
      BY <2>1 DEF PageInv
    <2>3. /\ openId' \in Agent \cup {Null} /\ source' \in BOOLEAN
          /\ specs' \in [Agent -> {"none", "loading", "ready", "error"}] /\ loads' \in [Agent -> 0..MaxLoads]
      BY <2>1 DEF PageInv
    <2> QED
      BY <2>1, <2>2, <2>3, FormStep
  <1> DEFINE nothing == [documents |-> <<>>, source |-> FALSE, payload |-> "blank"]
  <1>5. nothing \in Runs /\ Nothing = nothing
    BY DEF Runs, Nothing
  <1>6. ASSUME RunOffered(a) PROVE ~busy /\ \A b \in Agent : states[b].status # "running"
    BY <1>6 DEF RunOffered, PageInv
  <1>7. ASSUME states[a].status = "running" PROVE \A b \in Agent : b # a => states[b].status # "running"
    BY <1>7 DEF PageInv
  <1> HIDE DEF nothing
  <1>8. CASE RunWithoutToken(a)
    <2>1. Failed(0) \in RunStates /\ Failed(0).status = "error" /\ Failed(0).documentsSent = 0
      BY DEF RunStates, Failed
    <2>4. Len(nothing.documents) = 0
      BY DEF nothing
    <2>2. /\ RunOffered(a) /\ states' = [states EXCEPT ![a] = Failed(0)]
          /\ sent' = [sent EXCEPT ![a] = nothing]
          /\ UNCHANGED <<openId, specs, loads, drafts, busy, source>>
      BY <1>5, <1>8 DEF RunWithoutToken
    <2>3. busy' = FALSE /\ \A b \in Agent : states[b].status # "running"
      BY <1>6, <2>2 DEF PageInv
    <2> QED
      BY <1>5, <2>1, <2>2, <2>3, <2>4, RunStep
  <1>9. CASE Run(a)
    <2> DEFINE q == [documents |-> attached, source |-> source, payload |-> ToPayload(a)]
    <2>1. [status |-> "running"] \in RunStates
      BY DEF RunStates
    <2>2. q \in Runs
      BY DEF Runs, PageInv, ToPayload
    <2>3. /\ RunOffered(a) /\ states' = [states EXCEPT ![a] = [status |-> "running"]]
          /\ sent' = [sent EXCEPT ![a] = q] /\ busy' = TRUE
          /\ UNCHANGED <<openId, specs, loads, drafts, source>>
      BY <1>9 DEF Run, RunBody
    <2> HIDE DEF q
    <2> QED
      BY <1>6, <2>1, <2>2, <2>3, RunStep
  <1>10. CASE RunSucceeds(a)
    <2> DEFINE q == sent[a]
               s == [status |-> "done", attached |-> q.documents, sourceSent |-> q.source,
                     report |-> Report(q)]
    <2>1. q \in Runs /\ sent' = [sent EXCEPT ![a] = q]
      BY <1>10 DEF RunSucceeds, PageInv
    <2>2. /\ states[a].status = "running" /\ states' = [states EXCEPT ![a] = s] /\ busy' = FALSE
          /\ UNCHANGED <<openId, specs, loads, drafts, source>>
      BY <1>10 DEF RunSucceeds
    <2> HIDE DEF q
    <2>3. q.documents \in Seq(Upload) /\ q.source \in BOOLEAN
      BY <2>1 DEF Runs
    <2>4. /\ s \in RunStates /\ s.status = "done" /\ s.attached = q.documents
          /\ s.sourceSent = q.source /\ s.report = Report(q)
      BY <2>1, <2>3, ReportType DEF RunStates
    <2> HIDE DEF s
    <2> QED
      BY <1>7, <2>1, <2>2, <2>4, RunStep
  <1>11. CASE RunFails(a)
    <2> DEFINE q == sent[a]
               s == Failed(Len(q.documents))
    <2>1. q \in Runs /\ sent' = [sent EXCEPT ![a] = q]
      BY <1>11 DEF RunFails, PageInv
    <2>2. /\ states[a].status = "running" /\ states' = [states EXCEPT ![a] = s] /\ busy' = FALSE
          /\ UNCHANGED <<openId, specs, loads, drafts, source>>
      BY <1>11 DEF RunFails
    <2> HIDE DEF q
    <2>3. Len(q.documents) \in Nat
      BY <2>1 DEF Runs
    <2>4. s \in RunStates /\ s.status = "error" /\ s.documentsSent = Len(q.documents)
      BY <2>3 DEF RunStates, Failed
    <2> HIDE DEF s
    <2> QED
      BY <1>7, <2>1, <2>2, <2>4, RunStep
  <1> QED
    BY <1>1, <1>2, <1>3, <1>4, <1>8, <1>9, <1>10, <1>11 DEF CardNext

-----------------------------------------------------------------------------

(* The page and its panel, as they begin. *)
LEMMA AgentsInvInit ==
    ASSUME Init
    PROVE  AgentsInv
  <1>1. UploadInv
    <2>1. NotSent \in Requests /\ Decided(NotSent) /\ NotSent.settled = "unsent"
      BY DEF NotSent, Requests, Decided
    <2>2. /\ token \in BOOLEAN /\ panel = Null /\ uploads = [u \in Upload |-> NotSent]
          /\ documents = {} /\ attached = <<>>
      BY DEF Init, UploadInit
    <2>3. attached \in Seq(Upload) /\ ToSet(attached) = {} /\ IsInjective(attached)
      BY <2>2 DEF ToSet, IsInjective
    <2> QED
      BY <2>1, <2>2, <2>3 DEF UploadInv, UploadTypeOK
  <1>2. PageInv
    <2>1. Idle \in RunStates /\ Idle.status = "idle"
      BY DEF Idle, RunStates
    <2>2. Nothing \in Runs
      BY DEF Nothing, Runs
    <2>3. 0 \in 0..MaxLoads
      BY AgentAssumption
    <2> QED
      BY <2>1, <2>2, <2>3 DEF Init, PageInv
  <1>3. panel = Null /\ ~Mounted
    BY DEF Init, UploadInit, Mounted
  <1> QED
    BY <1>1, <1>2, <1>3 DEF AgentsInv

(* What a card does leaves the uploads alone, and mounts and unmounts the  *)
(* panel with the form. *)
LEMMA CardUploadKeeps ==
    ASSUME AgentsInv, NEW a \in Agent, CardNext(a)
    PROVE  UploadInv' /\ (panel' # Null <=> Mounted')
  <1>1. UploadInv /\ PageInv /\ (panel # Null <=> Mounted)
    BY DEF AgentsInv
  <1>2. /\ token \in BOOLEAN /\ panel \in Panels \cup {Null}
        /\ panel # Null => Waits(panel, uploads)
    BY <1>1 DEF UploadInv, UploadTypeOK
  <1>3. ASSUME Renders, UNCHANGED <<token, uploads, documents, attached>>
        PROVE  UploadInv' /\ (panel' # Null <=> Mounted')
    <2>1. CASE ~Mounted'
      <3>1. panel' = Null
        BY <1>3, <2>1 DEF Renders
      <3>2. UploadInv'
        BY <1>1, <1>2, <1>3, <3>1, PanelStep
      <3> QED
        BY <2>1, <3>1, <3>2
    <2>2. CASE Mounted' /\ Mounted /\ openId' = openId
      <3>1. panel' = panel
        BY <1>3, <2>2 DEF Renders
      <3>2. UploadInv'
        BY <1>1, <1>2, <1>3, <3>1, PanelStep
      <3> QED
        BY <1>1, <2>2, <3>1, <3>2
    <2>3. CASE Mounted' /\ ~(Mounted /\ openId' = openId)
      <3>1. panel' = NewPanel
        BY <1>3, <2>3 DEF Renders
      <3>2. NewPanel \in Panels /\ Waits(NewPanel, uploads)
        BY NewPanelWaits
      <3>3. NewPanel # Null
        BY UploadAssumption, <3>2 DEF Panels, UploadPhase
      <3>4. UploadInv'
        BY <1>1, <1>2, <1>3, <3>1, <3>2, PanelStep
      <3> QED
        BY <2>3, <3>1, <3>3, <3>4
    <2> QED
      BY <2>1, <2>2, <2>3
  <1>4. ASSUME UNCHANGED <<uploadVars, openId, specs>>
        PROVE  UploadInv' /\ (panel' # Null <=> Mounted')
    <2>1. UNCHANGED <<token, panel, uploads, documents, attached>>
      BY <1>4 DEF uploadVars
    <2>2. UploadInv'
      BY <1>1, <1>2, <2>1, PanelStep
    <2>3. Mounted' <=> Mounted
      BY <1>4 DEF Mounted, Ready
    <2> QED
      BY <1>1, <2>1, <2>2, <2>3
  <1> QED
    BY <1>3, <1>4 DEF CardNext, Open, Close, SpecArrives, Type, RunWithoutToken, Run,
                      RunSucceeds, RunFails

(* No press mounts or unmounts the panel. *)
LEMMA UploadNextMounts ==
    ASSUME UploadInv, UploadInv', UploadNext
    PROVE  panel' # Null <=> panel # Null
  <1>1. panel \in Panels \cup {Null} /\ panel' \in Panels \cup {Null} /\ Null \notin Panels
    BY UploadAssumption DEF UploadInv, UploadTypeOK
  <1>2. ASSUME panel = Null PROVE panel' = Null
    BY <1>2 DEF UploadNext, PanelNext, RequestNext, TokenChangesElsewhere, ProbeAnswers, CheckAgain,
                SendEmpty, Cancel, Clear, Choose, Accepting, Attach, Detach, Send, BodyGoesOut,
                BodySeenSent, ApiDecides, StoredArrives, FailureArrives, ConnectionFails, PanelFails
  <1>3. ASSUME panel \in Panels PROVE panel' \in Panels
    <2>1. ASSUME PanelNext PROVE panel' \in Panels
      <3>1. CASE \/ TokenChangesElsewhere \/ \E d \in Upload : Attach(d) \/ Detach(d)
        BY <1>3, <3>1 DEF TokenChangesElsewhere, Attach, Detach
      <3>2. CASE \/ \E up \in BOOLEAN : ProbeAnswers(up)
                 \/ CheckAgain \/ SendEmpty
        BY <1>3, <3>2 DEF ProbeAnswers, CheckAgain, SendEmpty, Panels, UploadPhase, UploadFailureKind, FailureKind
      <3>3. CASE Cancel \/ Clear \/ \E f \in File : Choose(f)
        BY <1>3, <3>3, ClearedPanelWaits DEF Cancel, Clear, Choose
      <3> QED
        BY <2>1, <3>1, <3>2, <3>3 DEF PanelNext
    <2>2. ASSUME NEW u \in Upload, RequestNext(u) PROVE panel' \in Panels
      <3>1. CASE Send(u)
        <4>1. u \in 0..MaxUploads
          BY UploadAssumption DEF Upload
        <4> QED
          BY <1>3, <3>1, <4>1 DEF Send, Panels, UploadPhase
      <3>2. CASE BodyGoesOut(u) \/ \E a \in Answer : ApiDecides(u, a)
        BY <1>3, <3>2 DEF BodyGoesOut, ApiDecides
      <3>3. CASE BodySeenSent(u) \/ StoredArrives(u)
        BY <1>3, <3>3 DEF BodySeenSent, StoredArrives, Panels, UploadPhase
      <3>4. CASE ConnectionFails(u)
        BY <1>3, <3>4 DEF ConnectionFails, PanelFails, Panels, UploadPhase, UploadFailureKind, FailureKind
      <3>5. CASE FailureArrives(u)
        <4> DEFINE kind == KindOf(uploads[u].answer)
        <4>1. uploads[u].answer # Null /\ kind # "ok" /\ panel' = PanelFails(u, kind)
          BY <3>5 DEF FailureArrives
        <4>2. /\ uploads[u].answer \in Answer
              /\ uploads[u].kept \in Keeps(uploads[u].answer)
          BY <4>1 DEF UploadInv, UploadTypeOK, Requests, Decided
        <4>3. kind \in {"bad-response", "empty-part", "unauthenticated", "forbidden",
                       "not-implemented", "too-large", "unsupported-type",
                       "scan-flagged", "no-scanner", "server"}
          BY <4>1, <4>2, AnswersTell
        <4> HIDE DEF kind
        <4> QED
          BY <1>3, <4>1, <4>3 DEF PanelFails, Panels, UploadPhase, UploadFailureKind, FailureKind
      <3> QED
        BY <2>2, <3>1, <3>2, <3>3, <3>4, <3>5 DEF RequestNext
    <2> QED
      BY <2>1, <2>2 DEF UploadNext
  <1> QED
    BY <1>1, <1>2, <1>3

(* The invariant, step by step. *)
LEMMA AgentsInvStep ==
    ASSUME AgentsInv, [Next]_vars
    PROVE  AgentsInv'
  <1>1. UploadInv /\ PageInv /\ (panel # Null <=> Mounted)
    BY DEF AgentsInv
  <1>2. attached \in Seq(Upload)
    BY <1>1 DEF UploadInv, UploadTypeOK
  <1>3. ASSUME NEW a \in Agent, CardNext(a) PROVE AgentsInv'
    BY <1>1, <1>2, <1>3, CardPageKeeps, CardUploadKeeps DEF AgentsInv
  <1>4. ASSUME UNCHANGED <<openId, specs>> PROVE Mounted' <=> Mounted
    BY <1>4 DEF Mounted, Ready
  <1>5. ASSUME UNCHANGED uploadVars PROVE UploadInv' /\ panel' = panel
    <2>1. UNCHANGED <<token, panel, uploads, documents, attached>>
      BY <1>5 DEF uploadVars
    <2> QED
      BY <1>1, <2>1, PanelStep DEF UploadInv, UploadTypeOK
  <1>6. CASE TypeSource
    <2>1. UNCHANGED uploadVars /\ UNCHANGED <<openId, specs, loads, drafts, states, busy, sent>>
          /\ source' = ~source
      BY <1>6 DEF TypeSource
    <2>2. PageInv'
      BY <1>1, <2>1, FormStep DEF PageInv
    <2> QED
      BY <1>1, <1>4, <1>5, <2>1, <2>2 DEF AgentsInv
  <1>7. ASSUME UNCHANGED pageVars PROVE PageInv' /\ (Mounted' <=> Mounted)
    <2>1. UNCHANGED <<openId, specs, loads, drafts, states, busy, sent, source>>
      BY <1>7 DEF pageVars
    <2>2. PageInv'
      BY <1>1, <2>1, FormStep DEF PageInv
    <2> QED
      BY <1>4, <2>1, <2>2
  <1>8. CASE UploadNext /\ UNCHANGED pageVars
    <2>1. UploadInv'
      BY <1>1, <1>8, PanelNextKeeps, RequestNextKeeps DEF UploadNext
    <2>2. panel' # Null <=> panel # Null
      BY <1>1, <1>8, <2>1, UploadNextMounts
    <2> QED
      BY <1>1, <1>7, <1>8, <2>1, <2>2 DEF AgentsInv
  <1>9. CASE UNCHANGED vars
    <2>1. UNCHANGED uploadVars /\ UNCHANGED pageVars
      BY <1>9 DEF vars
    <2> QED
      BY <1>1, <1>5, <1>7, <2>1 DEF AgentsInv
  <1> QED
    BY <1>3, <1>6, <1>8, <1>9 DEF Next

(* It holds at every moment. *)
LEMMA AgentsInvAlways == Spec => []AgentsInv
  <1> QED
    BY AgentsInvInit, AgentsInvStep, PTL DEF Spec

-----------------------------------------------------------------------------
(* What the invariant says of the page.                                    *)

(* A result is flagged, or said to cover the source too, unless the API    *)
(* takes the documents. *)
LEMMA OutcomeIsTold ==
    ASSUME NEW q \in Runs, NEW r, r.attached = q.documents, r.sourceSent = q.source,
           r.report = Report(q)
    PROVE  /\ r.attached # <<>> /\ ~TakesIds => Missing(r) \/ CountCoversBoth(r)
           /\ Missing(r) => ~TakesIds
  <1> DEFINE n == Len(q.documents)
             report(k) == [reached |-> k, documents |-> k + (IF q.source THEN 1 ELSE 0)]
  <1>1. q.documents \in Seq(Upload) /\ q.source \in BOOLEAN /\ n \in Nat
    BY DEF Runs
  <1>2. \A k \in Nat : /\ report(k) # Null
                       /\ report(k).documents \in Nat /\ report(k).documents >= k
    <2> SUFFICES ASSUME NEW k \in Nat
                 PROVE  /\ report(k) # Null
                        /\ report(k).documents \in Nat /\ report(k).documents >= k
      OBVIOUS
    <2>1. k + (IF q.source THEN 1 ELSE 0) \in Nat /\ k + (IF q.source THEN 1 ELSE 0) >= k
      BY <1>1
    <2> QED
      BY <2>1, AgentAssumption
  <1> HIDE DEF report
  <1>3. CASE ~TakesIds
    <2>1. CASE q.source
      <3>1. r.report = report(0)
        BY <1>3, <2>1 DEF Report, report
      <3> QED
        BY <1>2, <1>3, <2>1, <3>1 DEF CountCoversBoth
    <2>2. CASE ~q.source
      <3>1. r.report = Null
        BY <1>3, <2>2 DEF Report
      <3> QED
        BY <1>3, <3>1 DEF Missing
    <2> QED
      BY <2>1, <2>2
  <1>4. CASE TakesIds
    <2>1. ASSUME r.attached # <<>> PROVE ~Missing(r)
      <3>1. n > 0
        BY <1>1, <2>1
      <3>2. r.report = report(n)
        BY <1>1, <1>4, <3>1 DEF Report, report
      <3> QED
        <4>1. report(n) # Null /\ report(n).documents >= n /\ report(n).documents \in Nat
          BY <1>1, <1>2
        <4>2. r.report # Null /\ ~(r.report.documents < Len(r.attached))
          BY <1>1, <3>2, <4>1
        <4> QED
          BY <4>2 DEF Missing
    <2> QED
      BY <1>4, <2>1 DEF Missing
  <1> QED
    BY <1>3, <1>4

(* What a panel announces of the file is so when it waits as it must. *)
LEMMA AnnouncesFate ==
    ASSUME NEW p \in Panels, Waits(p, uploads), uploads \in [Upload -> Requests],
           \A v \in Upload : Decided(uploads[v]),
           \A v \in Upload : uploads[v].settled = "ok" => v \in documents
    PROVE  LET says == Announces(p)
               u == uploads[p.upload] IN
           /\ says \in {"it is being sent", "it is being scanned"} => u.settled = "no"
           /\ says = "it is being scanned" => u.wire = "sent"
           /\ says = "it is stored" => u.kept /\ p.upload \in documents
           /\ says = "nothing was stored" /\ p.upload # 0 =>
                 ~u.kept /\ (u.wire = "sent" => u.answer # Null)
  <1> DEFINE u == uploads[p.upload]
  <1>1. /\ p.status \in {"uploading", "scanning", "idle", "selected", "stored", "failed"}
        /\ p.upload \in 0..MaxUploads
    BY DEF Panels, UploadPhase
  <1>2. Tells(p.kind) \in {"unknown", "nothing was stored"}
    BY DEF Tells
  <1>3. CASE p.status = "stored"
    <2>1. p.upload \in Upload /\ u.settled = "ok"
      BY <1>1, <1>3, Numbered DEF Waits
    <2> QED
      BY <1>3, <2>1 DEF Announces, Decided
  <1>4. CASE p.status \in {"idle", "selected"}
    BY <1>4 DEF Announces
  <1>5. CASE p.status \in {"uploading", "scanning"}
    BY <1>5 DEF Announces, Waits
  <1>6. CASE p.status = "failed"
    BY <1>2, <1>6 DEF Announces, Waits
  <1> QED
    BY <1>1, <1>3, <1>4, <1>5, <1>6

(* What holds of the page and its panel at every moment is what is         *)
(* promised. *)
LEMMA AgentsInvImplies ==
    ASSUME AgentsInv
    PROVE  AgentsInvariant
  <1>1. UploadInv /\ PageInv /\ (panel # Null <=> Mounted)
    BY DEF AgentsInv
  <1>2. AgentsTypeOK
    <2>1. (panel # Null) = Mounted
      BY <1>1 DEF Mounted, Ready
    <2> QED
      BY <1>1, <2>1 DEF UploadInv, UploadTypeOK, PageInv, AgentsTypeOK
  <1>3. StoredIsNamed
    <2>1. ASSUME panel # Null, NEW d \in documents
          PROVE  d \in Removable \/ AttachOffered(d) \/ EarlierOffered(d)
      <3>1. d \in ToSet(attached) \/ ~Contains(attached, d)
        BY <1>1 DEF UploadInv, UploadTypeOK, ToSet, Contains
      <3> QED
        BY <2>1, <3>1 DEF Removable, AttachOffered, EarlierOffered, Earlier
    <2> QED
      BY <1>1, <2>1 DEF UploadInv, UploadTypeOK, StoredIsNamed, Decided
  <1>4. FateIsTold
    BY <1>1, AnnouncesFate DEF UploadInv, UploadTypeOK, FateIsTold
  <1>5. BusyIsOneRun
    <2> DEFINE running == {a \in Agent : states[a].status = "running"}
    <2>1. busy = (running # {})
      BY <1>1 DEF PageInv
    <2>2. Cardinality(running) <= 1
      <3>1. CASE running = {}
        BY <3>1, FS_EmptySet
      <3>2. CASE running # {}
        <4>1. PICK a \in running : running = {a}
          BY <1>1, <3>2 DEF PageInv
        <4>2. Cardinality({a}) = 1
          BY FS_Singleton
        <4> QED
          BY <4>1, <4>2
      <3> QED
        BY <3>1, <3>2
    <2> QED
      BY <2>1, <2>2 DEF BusyIsOneRun
  <1>6. ResultIsOfWhatWasSent
    <2>2. \A a \in Agent : states[a].status = "error" =>
              IdsSaidToHaveGone(states[a]) = Len(sent[a].documents)
      BY <1>1 DEF PageInv, IdsSaidToHaveGone
    <2> SUFFICES ASSUME NEW a \in Agent, states[a].status = "done"
                 PROVE  LET r == states[a] IN
                        /\ r.attached = sent[a].documents /\ r.sourceSent = sent[a].source
                        /\ r.attached # <<>> /\ ~TakesIds => Missing(r) \/ CountCoversBoth(r)
                        /\ Missing(r) => ~TakesIds
      BY <2>2 DEF ResultIsOfWhatWasSent
    <2>1. /\ states[a].attached = sent[a].documents /\ states[a].sourceSent = sent[a].source
          /\ states[a].report = Report(sent[a]) /\ sent[a] \in Runs
      BY <1>1 DEF PageInv
    <2> QED
      BY <2>1, OutcomeIsTold
  <1> QED
    BY <1>2, <1>3, <1>4, <1>5, <1>6 DEF AgentsInvariant

(* For any agents, files, answers and number of uploads: what the platform *)
(* said it stored stays named, a failure tells what became of the file,    *)
(* one run is on its way at a time, and a result is of what it was sent.   *)
THEOREM AgentsInvariantAlways == Spec => []AgentsInvariant
  <1> QED
    BY AgentsInvAlways, AgentsInvImplies, PTL
=============================================================================
