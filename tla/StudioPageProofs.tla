---------------------------- MODULE StudioPageProofs ----------------------------
(***************************************************************************)
(* Proofs about the Studio page and the public sketchpad.                  *)
(*                                                                         *)
(* The page, for any records, drawings, length of the undo stack and number *)
(* of writes on their way: the work is kept, a run is of what was on       *)
(* screen, and edits can be taken back.  EditorInv is its inductive        *)
(* invariant: Fitting says what a write, a run or a leave on its way can   *)
(* be, Own that of a visit that waits for answers all of it is of the      *)
(* canvas on screen, Calm that what such a visit is told is on record.     *)
(*                                                                         *)
(* Both canvases, for any library, seed and opened definition: what is     *)
(* drawn holds together, and nothing drawn is lost to one press.           *)
(*                                                                         *)
(* The inputs a workflow declares, for any fields, types and suggestions:  *)
(* an edit of one field leaves the others where they were, and the form of *)
(* a run asks for the fields declared.  The folds that rebuild a           *)
(* declaration are read step by step, and then as what they come to.       *)
(***************************************************************************)
EXTENDS MCStudioPage, FiniteSetTheorems, SequenceTheorems, WellFoundedInduction, TLAPS

Slots == 0..MaxWrites
Picture == Definition \cup {Null}
Id == RecordId \cup {Null}
Underway == {"sent", "applied"}
Waiting == {"inFlight", "own"}

Shapes ==
    /\ visit \in {"calm", "hurried", "lossy"} /\ page \in {"here", "saved", "away"}
    /\ presses \in 0..MaxNew /\ canvas \in Canvas
    /\ definition \in Definition /\ savedJson \in Picture
    /\ current \in Id
    /\ history \in Seq(Definition) /\ undone \in Seq(Definition)
    /\ Len(history) + Len(undone) <= HISTORY
    /\ writes \in [Write -> [at : {"none", "sent", "applied", "orphan"}, id : Id, def : Picture]]
    /\ saving \in Slots
    /\ leaving \in [at : {"no", "link", "inFlight", "own"}, slot : Slots, def : Picture]
    /\ ask \in [what : {"none", "open", "compile", "deploy", "reopen"}, id : Id, got : Picture]
    /\ run \in [at : {"no", "saving", "sent", "executed"}, slot : Slots, id : Id, def : Picture]
    /\ store \in [RecordId -> Picture]

Written ==
    \A w \in Write : writes[w].at # "none" =>
        /\ writes[w].def # Null
        /\ writes[w].at = "applied" => writes[w].id # Null
        /\ writes[w].id # Null => store[writes[w].id] # Null

Known ==
    /\ current # Null => store[current] # Null
    /\ current = Null => savedJson = Null
    /\ ask.what = "none" => ask = NoAsk
    /\ ask.what # "none" => ask.id # Null /\ store[ask.id] # Null
    /\ ask.got # Null => ask.what \in {"open", "reopen"}
    /\ run.at = "no" => run = NotRunning
    /\ run.at = "sent" => run.id # Null
    /\ run.at # "no" => run.def # Null

Registered == saving # 0 /\ page = "here" => writes[saving].at \in Underway

Departing ==
    /\ leaving.at = "no" => leaving = NotLeaving
    /\ leaving.at = "link" => page # "here"
    /\ leaving.at \in Waiting => leaving.slot # 0 /\ leaving.def # Null
    /\ leaving.at \in Waiting /\ page = "here" => writes[leaving.slot].at \in Underway
    /\ leaving.at = "own" /\ page = "here" => writes[leaving.slot].def = leaving.def

Fitting == Shapes /\ Written /\ Known /\ Registered /\ Departing

Places == Record \cup 0..presses

OfCanvas ==
    /\ canvas \in Places /\ definition.of = canvas
    /\ \A i \in DOMAIN history : history[i].of = canvas
    /\ \A w \in Write : writes[w].at # "none" =>
           /\ writes[w].def.of = canvas
           /\ writes[w].id # Null => store[writes[w].id].of = canvas
    /\ leaving.at \in Waiting => leaving.def.of = canvas
    /\ current # Null => store[current].of = canvas

AsksAlone ==
    ask # NoAsk =>
        (\A w \in Write : writes[w].at = "none") /\ run = NotRunning /\ leaving = NotLeaving

OfRecord ==
    /\ ask.got # Null => store[ask.id].of = ask.got.of
    /\ \A id \in Record : store[id] # Null /\ store[id].of = id
    /\ \A id \in RecordId : store[id] # Null => store[id].of \in Places

Own == visit # "hurried" => OfCanvas /\ AsksAlone /\ OfRecord

Landed == \E w \in Write : writes[w].at = "applied"

OneWrite ==
    \A w \in Write :
        /\ writes[w].at # "none" =>
               saving = w /\ writes[w].at \in Underway /\ page # "saved"
        /\ writes[w].at = "sent" => writes[w].id = current
        /\ writes[w].at = "applied" =>
               /\ current # Null => writes[w].id = current
               /\ store[writes[w].id] = writes[w].def

OnRecord ==
    /\ current # Null /\ ~Landed => store[current] = savedJson
    /\ ask.got # Null => store[ask.id] = ask.got
    /\ current = Null /\ ~Landed =>
           \A n \in NewRecord : store[n] # Null => store[n].of # canvas
    /\ \A m, n \in NewRecord : m # n /\ store[m] # Null /\ store[n] # Null =>
           store[m].of # store[n].of

RunsIt ==
    /\ run.at = "saving" =>
           /\ run.slot # 0 /\ writes[run.slot].at \in Underway
           /\ writes[run.slot].def = run.def
    /\ run.at = "sent" =>
           \/ store[run.id] = run.def
           \/ /\ leaving.at \in Waiting
              /\ page # "here" \/ writes[leaving.slot].at = "applied"
    /\ run.at \in {"sent", "executed"} =>
           \A w \in Write : writes[w].at # "none" => leaving.at = "own" /\ leaving.slot = w
    /\ ran # "other"

Left ==
    page = "saved" =>
        IF current = Null THEN leaving.def = blankWorkflow(canvas)
        ELSE store[current] = leaving.def

Calm == visit = "calm" => OneWrite /\ OnRecord /\ RunsIt /\ Left

EditorInv == Fitting /\ Own /\ Calm
-----------------------------------------------------------------------------
(* What the constants make of the types.                                   *)

LEMMA EditorConstants ==
    /\ Null \notin Definition /\ Null \notin RecordId
    /\ Record \subseteq RecordId /\ NewRecord \subseteq RecordId /\ Record \subseteq Canvas
    /\ 0 \in Rev /\ MaxNew \in Nat /\ MaxWrites \in Nat /\ HISTORY \in Nat \ {0}
    /\ Write \subseteq Slots /\ 0 \notin Write /\ \A s \in Slots : s # 0 => s \in Write
    /\ \A k \in 0..MaxNew : k \in Canvas /\ k \notin Record /\ blankWorkflow(k) \in Definition
  BY EditorAssumption DEF Definition, Canvas, RecordId, Write, Slots, blankWorkflow

(* A write that is free, and a number the server has not given. *)
LEMMA AFreeWrite ==
    ASSUME FreeWrite # {}
    PROVE  LET w == CHOOSE v \in FreeWrite : TRUE
           IN  w \in Write /\ writes[w].at = "none"
  <1>1. PICK v \in FreeWrite : TRUE
    OBVIOUS
  <1>2. (CHOOSE u \in FreeWrite : TRUE) \in FreeWrite
    BY <1>1
  <1> QED
    BY <1>2 DEF FreeWrite

LEMMA AFreeId ==
    ASSUME FreeId # {}
    PROVE  LET n == CHOOSE m \in FreeId : TRUE IN n \in NewRecord /\ store[n] = Null
  <1>1. PICK v \in FreeId : TRUE
    OBVIOUS
  <1>2. (CHOOSE u \in FreeId : TRUE) \in FreeId
    BY <1>1
  <1> QED
    BY <1>2 DEF FreeId

(* The end of a sequence, and what is before it. *)
LEMMA FrontAndLast ==
    ASSUME NEW S, NEW s \in Seq(S), s # <<>>
    PROVE  /\ Last(s) \in S /\ Front(s) \in Seq(S) /\ Len(Front(s)) = Len(s) - 1
           /\ Len(s) \in Nat \ {0} /\ Last(s) = s[Len(s)]
           /\ \A i \in 1..Len(Front(s)) : Front(s)[i] = s[i]
  <1>1. Len(s) \in Nat \ {0}
    BY EmptySeq
  <1>2. \A i \in 1..(Len(s) - 1) : s[i] \in S
    BY ElementOfSeq, <1>1
  <1>3. s[Len(s)] \in S
    BY ElementOfSeq, <1>1
  <1> DEFINE n == Len(s) - 1
             f == SubSeq(s, 1, n)
  <1>4. n \in Nat /\ \A i \in 1..n : s[i] \in S
    BY <1>1, <1>2
  <1>5. f \in Seq(S) /\ Len(f) = (IF 1 <= n THEN n - 1 + 1 ELSE 0)
    BY <1>4, SubSeqProperties
  <1>6. \A i \in 1..(n - 1 + 1) : f[i] = s[1 + i - 1]
    BY <1>4, SubSeqProperties
  <1> HIDE DEF f
  <1>7. Len(f) = Len(s) - 1 /\ \A i \in 1..Len(f) : f[i] = s[i]
    <2> HIDE DEF n
    <2>1. Len(f) = n
      BY <1>4, <1>5
    <2>2. \A i \in 1..n : i \in 1..(n - 1 + 1) /\ 1 + i - 1 = i
      BY <1>4
    <2> QED
      BY <1>6, <2>1, <2>2 DEF n
  <1> QED
    BY <1>1, <1>3, <1>5, <1>7 DEF Front, Last, f, n

(* What one more on the undo stack leaves of it. *)
LEMMA OneMoreToUndo ==
    ASSUME NEW h \in Seq(Definition), NEW d \in Definition, Len(h) <= HISTORY
    PROVE  LET kept == IF Len(h) < HISTORY THEN h ELSE Tail(h)
           IN  /\ Append(kept, d) \in Seq(Definition) /\ Len(Append(kept, d)) <= HISTORY
               /\ Append(kept, d) # <<>> /\ Last(Append(kept, d)) = d
               /\ \A i \in DOMAIN Append(kept, d) :
                      Append(kept, d)[i] = d \/ \E j \in DOMAIN h : Append(kept, d)[i] = h[j]
  <1> DEFINE kept == IF Len(h) < HISTORY THEN h ELSE Tail(h)
             s == Append(kept, d)
  <1>1. Len(h) \in Nat /\ DOMAIN h = 1..Len(h) /\ HISTORY \in Nat \ {0}
    BY EditorConstants, LenProperties
  <1>2. /\ kept \in Seq(Definition) /\ Len(kept) < HISTORY /\ Len(kept) \in Nat
        /\ \A i \in 1..Len(kept) : \E j \in DOMAIN h : kept[i] = h[j]
    <2>1. CASE Len(h) < HISTORY
      BY <1>1, <2>1
    <2>2. CASE ~(Len(h) < HISTORY)
      <3>1. h # <<>>
        BY <1>1, <2>2
      <3>2. /\ Tail(h) \in Seq(Definition) /\ Len(Tail(h)) = Len(h) - 1
            /\ \A i \in 1..Len(Tail(h)) : Tail(h)[i] = h[i + 1]
        BY <3>1, HeadTailProperties
      <3>3. \A i \in 1..Len(Tail(h)) : i + 1 \in DOMAIN h
        BY <1>1, <3>2
      <3> QED
        BY <1>1, <2>2, <3>2, <3>3
    <2> QED
      BY <2>1, <2>2
  <1> HIDE DEF kept
  <1>3. /\ s \in Seq(Definition) /\ s # <<>> /\ Len(s) = Len(kept) + 1
        /\ \A i \in 1..Len(kept) : s[i] = kept[i]
        /\ s[Len(kept) + 1] = d
    BY <1>2, AppendProperties
  <1>4. DOMAIN s = 1..Len(s)
    BY <1>3, LenProperties
  <1> HIDE DEF s
  <1>5. \A i \in DOMAIN s : s[i] = d \/ \E j \in DOMAIN h : s[i] = h[j]
    <2> TAKE i \in DOMAIN s
    <2>1. i \in 1..Len(kept) \/ i = Len(kept) + 1
      BY <1>2, <1>3, <1>4
    <2> QED
      BY <1>2, <1>3, <2>1
  <1>6. Len(s) <= HISTORY /\ s[Len(s)] = d
    BY <1>1, <1>2, <1>3
  <1> QED
    BY <1>3, <1>5, <1>6 DEF s, kept, Last

(* The last of what was appended. *)
LEMMA AppendedIsLast ==
    ASSUME NEW h \in Seq(Definition), NEW d \in Definition
    PROVE  /\ Append(h, d) \in Seq(Definition) /\ Len(Append(h, d)) = Len(h) + 1
           /\ Append(h, d) # <<>> /\ Last(Append(h, d)) = d
           /\ \A i \in DOMAIN Append(h, d) : Append(h, d)[i] = d \/ (i \in DOMAIN h /\ Append(h, d)[i] = h[i])
  <1>1. Len(h) \in Nat /\ DOMAIN h = 1..Len(h)
    BY LenProperties
  <1>2. /\ Append(h, d) \in Seq(Definition) /\ Append(h, d) # <<>> /\ Len(Append(h, d)) = Len(h) + 1
        /\ \A i \in 1..Len(h) : Append(h, d)[i] = h[i]
        /\ Append(h, d)[Len(h) + 1] = d
    BY AppendProperties
  <1>3. DOMAIN Append(h, d) = 1..(Len(h) + 1)
    BY <1>2, LenProperties
  <1> QED
    BY <1>1, <1>2, <1>3 DEF Last

-----------------------------------------------------------------------------
(* What an answer to a write does, by its ending.  What waited for it to    *)
(* run runs, or does not.                                                  *)

Ran(w) == run.at = "saving" /\ run.slot = w

(* It was stored, and the page writes again, leaves, or stays. *)
Stored(w) ==
    /\ writes[w].at = "applied"
    /\ current' = writes[w].id /\ savedJson' = writes[w].def
    /\ run' = IF Ran(w) THEN [run EXCEPT !.at = "sent", !.id = writes[w].id] ELSE run
    /\ \/ /\ leaving.at = "inFlight" /\ leaving.slot = w /\ writes[w].def # leaving.def
          /\ writes' = [writes EXCEPT ![w] = Sent(writes[w].id, leaving.def)]
          /\ saving' = w /\ leaving' = [leaving EXCEPT !.at = "own"] /\ page' = "here"
       \/ /\ leaving.at # "no" /\ leaving.slot = w
          /\ leaving.at = "inFlight" => writes[w].def = leaving.def
          /\ writes' = [writes EXCEPT ![w] = NoWrite]
          /\ saving' = Cleared(w) /\ leaving' = leaving /\ page' = "saved"
       \/ /\ leaving.at = "no" \/ leaving.slot # w
          /\ writes' = [writes EXCEPT ![w] = NoWrite]
          /\ saving' = Cleared(w) /\ leaving' = leaving /\ page' = "here"

(* It was not, or its answer was lost. *)
NotStored(w) ==
    /\ \/ writes[w].at = "sent" /\ writes' = [writes EXCEPT ![w] = NoWrite]
       \/ /\ visit = "lossy" /\ writes[w].at = "applied"
          /\ writes' = [writes EXCEPT ![w] = NoWrite]
       \/ /\ visit = "lossy" /\ writes[w].at = "sent"
          /\ writes' = [writes EXCEPT ![w].at = "orphan"]
    /\ current' = current /\ savedJson' = savedJson /\ page' = "here"
    /\ run' = IF Ran(w) THEN NotRunning ELSE run
    /\ saving' = Cleared(w)
    /\ leaving' = IF leaving.at # "no" /\ leaving.slot = w THEN NotLeaving ELSE leaving

Answered(w) ==
    /\ page = "here"
    /\ Stored(w) \/ NotStored(w)
    /\ UNCHANGED <<visit, presses, canvas, definition, history, undone, ask, ran, store>>

LEMMA AnsweredByEnding ==
    ASSUME NEW w \in Write, Fitting, Saved(w) \/ NotSaved(w)
    PROVE  Answered(w)
  <1>1. ASSUME NEW ok \in BOOLEAN, NEW rest, Settle(w, ok, rest)
        PROVE  /\ page = "here"
               /\ UNCHANGED <<visit, presses, canvas, definition, history, undone, ask, ran, store>>
               /\ current' = IF ok THEN writes[w].id ELSE current
               /\ savedJson' = IF ok THEN writes[w].def ELSE savedJson
               /\ page' = IF LeavesNow(w, ok) THEN "saved" ELSE page
               /\ run' = IF ~Ran(w) THEN run
                         ELSE IF ok THEN [run EXCEPT !.at = "sent", !.id = writes[w].id]
                         ELSE NotRunning
               /\ WritesAgain(w, ok) =>
                      /\ writes' = [writes EXCEPT ![w] = Sent(writes[w].id, leaving.def)]
                      /\ saving' = w /\ leaving' = [leaving EXCEPT !.at = "own"]
               /\ ~WritesAgain(w, ok) =>
                      /\ writes' = [writes EXCEPT ![w] = rest]
                      /\ saving' = Cleared(w)
                      /\ leaving' = IF Refuses(w, ok) THEN NotLeaving ELSE leaving
    BY <1>1, Zenon DEF Settle, Confirmed, Ran
  <1>2. ASSUME Saved(w) PROVE Answered(w)
    <2>1. writes[w].at = "applied" /\ Settle(w, TRUE, NoWrite)
      BY <1>2 DEF Saved
    <2>2. ~Refuses(w, TRUE)
      BY DEF Refuses
    <2>3. CASE WritesAgain(w, TRUE)
      <3>1. ~LeavesNow(w, TRUE)
        BY <2>3 DEF LeavesNow, WritesAgain
      <3> QED
        BY <1>1, <2>1, <2>2, <2>3, <3>1, Zenon DEF Answered, Stored, WritesAgain
    <2>4. CASE ~WritesAgain(w, TRUE)
      <3>1. CASE LeavesNow(w, TRUE)
        BY <1>1, <2>1, <2>2, <2>4, <3>1, Zenon DEF Answered, Stored, LeavesNow
      <3>2. CASE ~LeavesNow(w, TRUE)
        <4>1. leaving.at = "no" \/ leaving.slot # w
          BY <2>4, <3>2, Zenon DEF LeavesNow, WritesAgain
        <4> QED
          BY <1>1, <2>1, <2>2, <2>4, <3>2, <4>1, Zenon DEF Answered, Stored
      <3> QED
        BY <3>1, <3>2
    <2> QED
      BY <2>3, <2>4
  <1>3. ASSUME NotSaved(w) PROVE Answered(w)
    <2>1. ~WritesAgain(w, FALSE) /\ ~LeavesNow(w, FALSE)
      BY DEF WritesAgain, LeavesNow
    <2>2. Refuses(w, FALSE) <=> leaving.at # "no" /\ leaving.slot = w
      BY DEF Refuses
    <2>3. ASSUME Settle(w, FALSE, NoWrite),
                 writes[w].at = "sent" \/ (visit = "lossy" /\ writes[w].at = "applied")
          PROVE  Answered(w)
      BY <1>1, <2>1, <2>2, <2>3, Zenon DEF Answered, NotStored
    <2>4. ASSUME Settle(w, FALSE, [writes[w] EXCEPT !.at = "orphan"]),
                 visit = "lossy", writes[w].at = "sent"
          PROVE  Answered(w)
      <3>1. writes' = [writes EXCEPT ![w] = [writes[w] EXCEPT !.at = "orphan"]]
        BY <1>1, <2>1, <2>4, Zenon
      <3>2. writes' = [writes EXCEPT ![w].at = "orphan"]
        BY <3>1 DEF Fitting, Shapes
      <3> QED
        BY <1>1, <2>1, <2>2, <2>4, <3>2, Zenon DEF Answered, NotStored
    <2> QED
      BY <1>3, <2>3, <2>4, Zenon DEF NotSaved
  <1> QED
    BY <1>2, <1>3

-----------------------------------------------------------------------------
(* The shapes, and what is known of the writes and of the back link, are    *)
(* kept by each step, whoever is at the keyboard.                          *)

LEMMA InitTyped == EditorInit => Fitting
  <1> SUFFICES ASSUME EditorInit PROVE Fitting
    OBVIOUS
  <1> USE EditorConstants
  <1>0. /\ visit \in Visit /\ page = "here" /\ presses = 0 /\ canvas = 0
        /\ definition = blankWorkflow(0) /\ current = Null /\ savedJson = Null
        /\ history = <<>> /\ undone = <<>> /\ saving = 0
        /\ writes = [w \in Write |-> NoWrite] /\ leaving = NotLeaving
        /\ ask = NoAsk /\ run = NotRunning
        /\ store = [id \in RecordId |-> IF id \in Record THEN [of |-> id, rev |-> 0] ELSE Null]
    BY Zenon DEF EditorInit
  <1>1. Shapes
    <2>1. \A id \in Record : [of |-> id, rev |-> 0] \in Definition
      BY DEF Definition, Canvas
    <2>2. store \in [RecordId -> Picture]
      BY <1>0, <2>1 DEF Picture
    <2>3. writes \in [Write -> [at : {"none", "sent", "applied", "orphan"}, id : Id, def : Picture]]
      BY <1>0 DEF NoWrite, Id, Picture
    <2>4. /\ leaving \in [at : {"no", "link", "inFlight", "own"}, slot : Slots, def : Picture]
          /\ run \in [at : {"no", "saving", "sent", "executed"}, slot : Slots, id : Id, def : Picture]
          /\ ask \in [what : {"none", "open", "compile", "deploy", "reopen"}, id : Id, got : Picture]
      BY <1>0 DEF NotLeaving, NotRunning, NoAsk, Id, Picture, Slots
    <2>5. /\ visit \in {"calm", "hurried", "lossy"} /\ page \in {"here", "saved", "away"}
          /\ presses \in 0..MaxNew /\ canvas \in Canvas
          /\ definition \in Definition /\ savedJson \in Picture /\ current \in Id /\ saving \in Slots
      BY <1>0, EditorAssumption DEF Id, Picture, Slots
    <2>6. /\ history \in Seq(Definition) /\ undone \in Seq(Definition)
          /\ Len(history) + Len(undone) <= HISTORY
      BY <1>0, EmptySeq
    <2> QED
      BY <2>2, <2>3, <2>4, <2>5, <2>6 DEF Shapes
  <1>2. Written /\ Registered
    BY <1>0 DEF NoWrite, Written, Registered
  <1>3. Known
    BY <1>0 DEF Known, NoAsk, NotRunning
  <1>4. Departing
    BY <1>0 DEF Departing, NotLeaving, Waiting
  <1> QED
    BY <1>1, <1>2, <1>3, <1>4 DEF Fitting

(* What an edit touches. *)
LEMMA EditingTyped ==
    ASSUME Fitting, Editing
    PROVE  Fitting'
  <1> USE EditorConstants DEF Fitting
  <1>1. ASSUME NEW rev \in Rev, Edit(rev) PROVE Fitting'
    <2>1. [definition EXCEPT !.rev = rev] \in Definition
      BY DEF Shapes, Definition
    <2>2. Len(history) \in Nat /\ Len(undone) \in Nat /\ Len(history) <= HISTORY
      BY LenProperties DEF Shapes
    <2>3. /\ history' \in Seq(Definition) /\ Len(history') <= HISTORY /\ undone' = <<>>
          /\ definition' = [definition EXCEPT !.rev = rev]
      BY <1>1, <2>2, OneMoreToUndo DEF Edit, Shapes
    <2>4. /\ undone' \in Seq(Definition) /\ Len(undone') = 0 /\ Len(history') \in Nat
          /\ Len(history') + Len(undone') <= HISTORY
      BY <2>3, EmptySeq, LenProperties
    <2>5. UNCHANGED <<visit, page, presses, canvas, current, savedJson, writes, saving,
                      leaving, ask, run, store>>
      BY <1>1 DEF Edit
    <2>6. Shapes'
      BY <2>1, <2>3, <2>4, <2>5 DEF Shapes
    <2> QED
      BY <2>5, <2>6 DEF Written, Known, Registered, Departing
  <1>2. ASSUME Undo \/ Redo PROVE Fitting'
    <2>1. Len(history) \in Nat /\ Len(undone) \in Nat
      BY LenProperties DEF Shapes
    <2>2. /\ definition' \in Definition /\ history' \in Seq(Definition) /\ undone' \in Seq(Definition)
          /\ Len(history') + Len(undone') = Len(history) + Len(undone)
      <3>1. CASE Undo
        <4>1. /\ Last(history) \in Definition /\ Front(history) \in Seq(Definition)
              /\ Len(Front(history)) = Len(history) - 1
          BY <3>1, FrontAndLast DEF Undo, Shapes
        <4>2. /\ Append(undone, definition) \in Seq(Definition)
              /\ Len(Append(undone, definition)) = Len(undone) + 1
          BY AppendedIsLast DEF Shapes
        <4> QED
          BY <2>1, <3>1, <4>1, <4>2 DEF Undo
      <3>2. CASE Redo
        <4>1. /\ Last(undone) \in Definition /\ Front(undone) \in Seq(Definition)
              /\ Len(Front(undone)) = Len(undone) - 1
          BY <3>2, FrontAndLast DEF Redo, Shapes
        <4>2. /\ Append(history, definition) \in Seq(Definition)
              /\ Len(Append(history, definition)) = Len(history) + 1
          BY AppendedIsLast DEF Shapes
        <4> QED
          BY <2>1, <3>2, <4>1, <4>2 DEF Redo
      <3> QED
        BY <1>2, <3>1, <3>2
    <2>3. UNCHANGED <<visit, page, presses, canvas, current, savedJson, writes, saving,
                      leaving, ask, run, store>>
      BY <1>2 DEF Undo, Redo
    <2>4. Shapes'
      BY <2>2, <2>3 DEF Shapes
    <2> QED
      BY <2>3, <2>4 DEF Written, Known, Registered, Departing
  <1>3. ASSUME New PROVE Fitting'
    <2>1. /\ presses' \in 0..MaxNew /\ canvas' = presses' /\ definition' = blankWorkflow(presses')
          /\ current' = Null /\ savedJson' = Null /\ history' = <<>>
          /\ UNCHANGED <<visit, page, undone, writes, saving, leaving, ask, run, store>>
      BY <1>3 DEF New, Shapes
    <2>2. Len(undone) \in Nat /\ Len(undone) <= HISTORY
      BY LenProperties DEF Shapes
    <2>3. history' \in Seq(Definition) /\ Len(history') = 0
      BY <2>1, EmptySeq
    <2>4. Shapes'
      BY <2>1, <2>2, <2>3 DEF Shapes, Id, Picture
    <2> QED
      BY <2>1, <2>4 DEF Written, Known, Registered, Departing
  <1> QED
    BY <1>1, <1>2, <1>3 DEF Editing

(* A request of a save, of a run, or of the back link. *)
LEMMA SentIsAWrite ==
    ASSUME Fitting, NEW w \in Write, NEW id \in Id, NEW d \in Definition
    PROVE  /\ [writes EXCEPT ![w] = Sent(id, d)]
                  \in [Write -> [at : {"none", "sent", "applied", "orphan"}, id : Id, def : Picture]]
           /\ Sent(id, d).at = "sent" /\ Sent(id, d).id = id /\ Sent(id, d).def = d
  BY DEF Fitting, Shapes, Sent, Picture

LEMMA SaveTyped ==
    ASSUME Fitting, Save
    PROVE  Fitting'
  <1> USE EditorConstants DEF Fitting
  <1>1. PICK w \in Write :
            /\ writes[w].at = "none" /\ writes' = [writes EXCEPT ![w] = Sent(current, definition)]
            /\ saving' = w
            /\ UNCHANGED <<visit, page, presses, canvas, definition, current, savedJson,
                           history, undone, leaving, ask, run, store>>
    BY AFreeWrite DEF Save
  <1>2. Shapes'
    BY <1>1, SentIsAWrite DEF Shapes
  <1>3. /\ writes'[w] = Sent(current, definition)
        /\ \A v \in Write : v # w => writes'[v] = writes[v]
    BY <1>1 DEF Shapes
  <1>4. Sent(current, definition) = [at |-> "sent", id |-> current, def |-> definition]
    BY DEF Sent
  <1>5. Written'
    BY <1>1, <1>3, <1>4 DEF Written, Known, Shapes
  <1>6. Known' /\ Registered'
    BY <1>1, <1>3, <1>4 DEF Known, Registered, Underway
  <1>7. Departing'
    <2>1. leaving.at \in Waiting /\ page = "here" => leaving.slot # w /\ leaving.slot \in Write
      BY <1>1 DEF Departing, Underway, Shapes
    <2>2. leaving.at \in Waiting /\ page = "here" => writes'[leaving.slot] = writes[leaving.slot]
      BY <1>3, <2>1
    <2>3. leaving' = leaving /\ page' = page
      BY <1>1
    <2> QED
      BY <2>2, <2>3 DEF Departing, Waiting
  <1> QED
    BY <1>2, <1>5, <1>6, <1>7

(* What a write that was carried out leaves in the store. *)
LEMMA AppliedIs ==
    ASSUME Fitting, NEW w \in Write, Apply(w)
    PROVE  \E id \in RecordId :
               /\ store' = [store EXCEPT ![id] = writes[w].def]
               /\ writes[w].def \in Definition
               /\ writes[w].id # Null => id = writes[w].id
               /\ writes[w].id = Null => id \in NewRecord /\ store[id] = Null
               /\ \/ /\ writes[w].at = "orphan"
                     /\ writes' = [writes EXCEPT ![w] = NoWrite]
                  \/ /\ writes[w].at = "sent"
                     /\ writes' = [writes EXCEPT ![w] =
                                      [at |-> "applied", id |-> id, def |-> writes[w].def]]
               /\ UNCHANGED <<visit, page, presses, canvas, definition, current, savedJson,
                              history, undone, saving, leaving, ask, run, ran>>
  <1> DEFINE id == IF writes[w].id # Null THEN writes[w].id ELSE CHOOSE n \in FreeId : TRUE
  <1>1. /\ writes[w].at \in {"sent", "orphan"}
        /\ writes[w].id # Null \/ FreeId # {}
        /\ store' = [store EXCEPT ![id] = writes[w].def]
        /\ writes' = [writes EXCEPT ![w] =
                IF writes[w].at = "orphan" THEN NoWrite
                ELSE [writes[w] EXCEPT !.at = "applied", !.id = id]]
        /\ UNCHANGED <<visit, page, presses, canvas, definition, current, savedJson,
                       history, undone, saving, leaving, ask, run, ran>>
    BY Zenon DEF Apply
  <1>2. /\ writes[w] \in [at : {"none", "sent", "applied", "orphan"}, id : Id, def : Picture]
        /\ writes[w].def # Null
    BY <1>1 DEF Fitting, Shapes, Written
  <1>3. /\ writes[w].id # Null => id = writes[w].id
        /\ writes[w].id = Null => id \in NewRecord /\ store[id] = Null
    BY <1>1, AFreeId
  <1>4. id \in RecordId
    BY <1>2, <1>3, EditorConstants DEF Id
  <1> HIDE DEF id
  <1>5. [writes[w] EXCEPT !.at = "applied", !.id = id] =
            [at |-> "applied", id |-> id, def |-> writes[w].def]
    <2> DEFINE r == writes[w]
               q == [r EXCEPT !.at = "applied"]
    <2>1. q = [at |-> "applied", id |-> r.id, def |-> r.def]
      BY <1>2
    <2>2. [q EXCEPT !.id = id] = [at |-> "applied", id |-> id, def |-> r.def]
      <3> HIDE DEF q
      <3> QED
        BY <2>1
    <2>3. [r EXCEPT !.at = "applied", !.id = id] = [q EXCEPT !.id = id]
      BY Zenon
    <2> QED
      BY <2>2, <2>3, Zenon
  <1>6. writes[w].def \in Definition
    BY <1>2 DEF Picture
  <1>7. writes[w].at = "orphan" => writes' = [writes EXCEPT ![w] = NoWrite]
    BY <1>1, Zenon
  <1>8. writes[w].at = "sent" => writes' = [writes EXCEPT ![w] =
                                      [at |-> "applied", id |-> id, def |-> writes[w].def]]
    <2>1. "sent" # "orphan"
      OBVIOUS
    <2> QED
      BY <1>1, <1>5, <2>1
  <1> QED
    BY <1>1, <1>3, <1>4, <1>6, <1>7, <1>8

LEMMA ApplyTyped ==
    ASSUME Fitting, NEW w \in Write, Apply(w)
    PROVE  Fitting'
  <1> USE EditorConstants DEF Fitting
  <1>1. PICK id \in RecordId :
               /\ store' = [store EXCEPT ![id] = writes[w].def]
               /\ writes[w].def \in Definition
               /\ writes[w].id # Null => id = writes[w].id
               /\ writes[w].id = Null => id \in NewRecord /\ store[id] = Null
               /\ \/ /\ writes[w].at = "orphan"
                     /\ writes' = [writes EXCEPT ![w] = NoWrite]
                  \/ /\ writes[w].at = "sent"
                     /\ writes' = [writes EXCEPT ![w] =
                                      [at |-> "applied", id |-> id, def |-> writes[w].def]]
               /\ UNCHANGED <<visit, page, presses, canvas, definition, current, savedJson,
                              history, undone, saving, leaving, ask, run, ran>>
    BY AppliedIs
  <1>2. /\ store' \in [RecordId -> Picture] /\ store'[id] = writes[w].def
        /\ \A n \in RecordId : n # id => store'[n] = store[n]
        /\ \A n \in RecordId : store[n] # Null => store'[n] # Null
    BY <1>1 DEF Shapes, Picture
  <1>3. /\ \A v \in Write : v # w => writes'[v] = writes[v]
        /\ writes[w].at = "orphan" => writes'[w] = NoWrite
        /\ writes[w].at = "sent" =>
               writes'[w] = [at |-> "applied", id |-> id, def |-> writes[w].def]
        /\ writes[w].at \in {"orphan", "sent"}
    BY <1>1 DEF Shapes
  <1>4. writes' \in [Write -> [at : {"none", "sent", "applied", "orphan"}, id : Id, def : Picture]]
    BY <1>1 DEF Shapes, NoWrite, Id, Picture
  <1>5. Shapes'
    BY <1>1, <1>2, <1>4 DEF Shapes
  <1>6. Written'
    <2> SUFFICES ASSUME NEW v \in Write, writes'[v].at # "none"
                 PROVE  /\ writes'[v].def # Null
                        /\ writes'[v].at = "applied" => writes'[v].id # Null
                        /\ writes'[v].id # Null => store'[writes'[v].id] # Null
      BY DEF Written
    <2>1. CASE v = w
      BY <1>1, <1>2, <1>3, <2>1 DEF NoWrite
    <2>2. CASE v # w
      <3>1. writes[v].id \in Id
        BY DEF Shapes
      <3> QED
        BY <1>2, <1>3, <2>2, <3>1 DEF Written, Id
    <2> QED
      BY <2>1, <2>2
  <1>7. Known'
    <2>1. current \in Id /\ ask.id \in Id
      BY DEF Shapes
    <2> QED
      BY <1>1, <1>2, <2>1 DEF Known, Id
  <1>8. writes[w].at = "sent" \/ \A v \in Write : writes[v].at \in Underway => v # w
    BY <1>3 DEF Underway
  <1>9. \A v \in Write : writes[v].at \in Underway =>
            writes'[v].at \in Underway /\ writes'[v].def = writes[v].def
    BY <1>3, <1>8 DEF Underway
  <1>10. Registered' /\ Departing'
    <2>1. saving # 0 => saving \in Write
      BY DEF Shapes
    <2>2. leaving.at \in Waiting => leaving.slot \in Write
      BY DEF Shapes, Departing
    <2> QED
      BY <1>1, <1>9, <2>1, <2>2 DEF Registered, Departing, Waiting
  <1> QED
    BY <1>5, <1>6, <1>7, <1>10

LEMMA StoredTyped ==
    ASSUME Fitting, NEW w \in Write, Answered(w), Stored(w)
    PROVE  Fitting'
  <1> USE EditorConstants DEF Fitting
  <1>1. /\ page = "here" /\ writes[w].at = "applied"
        /\ writes[w] \in [at : {"none", "sent", "applied", "orphan"}, id : Id, def : Picture]
        /\ writes[w].id \in RecordId /\ writes[w].def \in Definition /\ store[writes[w].id] # Null
    BY DEF Answered, Stored, Shapes, Written, Id, Picture
  <1>2. /\ current' = writes[w].id /\ savedJson' = writes[w].def
        /\ UNCHANGED <<visit, presses, canvas, definition, history, undone, ask, store>>
    BY DEF Answered, Stored
  <1>3. /\ run' \in [at : {"no", "saving", "sent", "executed"}, slot : Slots, id : Id, def : Picture]
        /\ run'.at = "no" => run' = NotRunning
        /\ run'.at = "sent" => run'.id # Null
        /\ run'.at # "no" => run'.def # Null
    <2>1. CASE Ran(w)
      <3>1. run' = [run EXCEPT !.at = "sent", !.id = writes[w].id]
        BY <2>1 DEF Stored
      <3>2. run \in [at : {"no", "saving", "sent", "executed"}, slot : Slots, id : Id, def : Picture]
        BY DEF Shapes
      <3>3. run.def # Null
        BY <2>1 DEF Known, Ran
      <3>4. run' \in [at : {"no", "saving", "sent", "executed"}, slot : Slots, id : Id, def : Picture]
        <4>1. writes[w].id \in Id
          BY <1>1
        <4> QED
          BY <3>1, <3>2, <4>1
      <3>5. run'.at = "sent" /\ run'.id = writes[w].id /\ run'.def = run.def
        BY <3>1, <3>2
      <3> QED
        BY <1>1, <3>3, <3>4, <3>5
    <2>2. CASE ~Ran(w)
      BY <2>2 DEF Stored, Shapes, Known
    <2> QED
      BY <2>1, <2>2
  <1>4. Known'
    BY <1>1, <1>2, <1>3 DEF Known
  <1>5. leaving \in [at : {"no", "link", "inFlight", "own"}, slot : Slots, def : Picture]
    BY DEF Shapes
  <1>6. ASSUME leaving.at = "inFlight", leaving.slot = w, writes[w].def # leaving.def,
               writes' = [writes EXCEPT ![w] = Sent(writes[w].id, leaving.def)],
               saving' = w, leaving' = [leaving EXCEPT !.at = "own"], page' = "here"
        PROVE  Fitting'
    <2>1. leaving.def \in Definition
      BY <1>5, <1>6 DEF Departing, Waiting, Picture
    <2>2. Sent(writes[w].id, leaving.def) = [at |-> "sent", id |-> writes[w].id, def |-> leaving.def]
      BY DEF Sent
    <2>3. /\ leaving' \in [at : {"no", "link", "inFlight", "own"}, slot : Slots, def : Picture]
          /\ leaving'.at = "own" /\ leaving'.slot = w /\ leaving'.def = leaving.def
      BY <1>5, <1>6
    <2>4. /\ writes' \in [Write -> [at : {"none", "sent", "applied", "orphan"}, id : Id, def : Picture]]
          /\ writes'[w] = Sent(writes[w].id, leaving.def)
          /\ \A v \in Write : v # w => writes'[v] = writes[v]
      BY <1>1, <1>6, <2>1, <2>2 DEF Shapes, Id, Picture
    <2>5. Shapes'
      <3>1. current' \in Id /\ savedJson' \in Picture /\ saving' \in Slots
        BY <1>1, <1>2, <1>6 DEF Id, Picture
      <3> QED
        BY <1>2, <1>3, <1>6, <2>3, <2>4, <3>1 DEF Shapes
    <2>6. Written'
      BY <1>1, <1>2, <2>1, <2>2, <2>4 DEF Written
    <2>7. Registered' /\ Departing'
      BY <1>6, <2>1, <2>2, <2>3, <2>4 DEF Registered, Departing, Underway, Waiting
    <2> QED
      BY <1>4, <2>5, <2>6, <2>7
  <1>7. ASSUME writes' = [writes EXCEPT ![w] = NoWrite], saving' = Cleared(w), leaving' = leaving,
               \/ page' = "saved"
               \/ page' = "here" /\ (leaving.at = "no" \/ leaving.slot # w)
        PROVE  Fitting'
    <2>1. /\ writes' \in [Write -> [at : {"none", "sent", "applied", "orphan"}, id : Id, def : Picture]]
          /\ writes'[w] = NoWrite
          /\ \A v \in Write : v # w => writes'[v] = writes[v]
      BY <1>7 DEF Shapes, NoWrite, Id, Picture
    <2>2. saving' \in Slots /\ (saving' # 0 => saving' # w /\ saving' = saving)
      BY <1>7 DEF Cleared, Shapes, Slots
    <2>3. Shapes'
      <3>1. current' \in Id /\ savedJson' \in Picture /\ page' \in {"here", "saved"}
        BY <1>1, <1>2, <1>7 DEF Id, Picture
      <3> QED
        BY <1>2, <1>3, <1>5, <1>7, <2>1, <2>2, <3>1 DEF Shapes
    <2>4. Written'
      BY <1>2, <2>1 DEF Written, NoWrite
    <2>5. Registered'
      BY <1>1, <2>1, <2>2 DEF Registered, Shapes
    <2>6. Departing'
      BY <1>1, <1>5, <1>7, <2>1 DEF Departing, Waiting
    <2> QED
      BY <1>4, <2>3, <2>4, <2>5, <2>6
  <1> QED
    BY <1>6, <1>7, Zenon DEF Stored

LEMMA NotStoredTyped ==
    ASSUME Fitting, NEW w \in Write, Answered(w), NotStored(w)
    PROVE  Fitting'
  <1> USE EditorConstants DEF Fitting
  <1>1. /\ page = "here" /\ page' = "here" /\ writes[w].at \in Underway
        /\ current' = current /\ savedJson' = savedJson /\ saving' = Cleared(w)
        /\ UNCHANGED <<visit, presses, canvas, definition, history, undone, ask, store>>
    BY DEF Answered, NotStored, Underway
  <1>2. /\ writes' \in [Write -> [at : {"none", "sent", "applied", "orphan"}, id : Id, def : Picture]]
        /\ \A v \in Write : v # w => writes'[v] = writes[v]
        /\ writes'[w].at \in {"none", "orphan"}
        /\ writes'[w].at # "none" => writes'[w].id = writes[w].id /\ writes'[w].def = writes[w].def
    <2>1. CASE writes' = [writes EXCEPT ![w] = NoWrite]
      BY <2>1 DEF Shapes, NoWrite, Id, Picture
    <2>2. CASE writes' = [writes EXCEPT ![w].at = "orphan"]
      BY <2>2 DEF Shapes
    <2> QED
      BY <2>1, <2>2 DEF NotStored
  <1>3. /\ run' \in [at : {"no", "saving", "sent", "executed"}, slot : Slots, id : Id, def : Picture]
        /\ run' = run \/ run' = NotRunning
    <2>1. NotRunning \in [at : {"no", "saving", "sent", "executed"}, slot : Slots, id : Id, def : Picture]
      BY DEF NotRunning, Slots, Id, Picture
    <2> QED
      BY <2>1 DEF NotStored, Shapes
  <1>4. /\ leaving' \in [at : {"no", "link", "inFlight", "own"}, slot : Slots, def : Picture]
        /\ leaving' = NotLeaving \/ (leaving' = leaving /\ (leaving.at = "no" \/ leaving.slot # w))
    <2>1. NotLeaving \in [at : {"no", "link", "inFlight", "own"}, slot : Slots, def : Picture]
      BY DEF NotLeaving, Slots, Picture
    <2> QED
      BY <2>1 DEF NotStored, Shapes
  <1>5. saving' \in Slots /\ (saving' # 0 => saving' # w /\ saving' = saving)
    BY <1>1 DEF Cleared, Shapes, Slots
  <1>6. Shapes'
    BY <1>1, <1>2, <1>3, <1>4, <1>5 DEF Shapes
  <1>7. Written'
    BY <1>1, <1>2 DEF Written, Underway
  <1>8. Known'
    BY <1>1, <1>3 DEF Known, NotRunning
  <1>9. Registered'
    BY <1>1, <1>2, <1>5 DEF Registered, Shapes
  <1>10. Departing'
    <2>1. CASE leaving' = NotLeaving
      BY <2>1 DEF Departing, NotLeaving, Waiting
    <2>2. CASE leaving' = leaving /\ (leaving.at = "no" \/ leaving.slot # w)
      <3>1. leaving.at \in Waiting => leaving.slot \in Write /\ leaving.slot # w
        BY <2>2 DEF Departing, Shapes, Waiting
      <3> QED
        BY <1>1, <1>2, <2>2, <3>1 DEF Departing, Waiting
    <2> QED
      BY <1>4, <2>1, <2>2
  <1> QED
    BY <1>6, <1>7, <1>8, <1>9, <1>10

LEMMA WritingTyped ==
    ASSUME Fitting, Writing
    PROVE  Fitting'
  <1>1. ASSUME NEW w \in Write, Saved(w) \/ NotSaved(w) PROVE Fitting'
    <2>1. Answered(w)
      BY <1>1, AnsweredByEnding
    <2>2. Stored(w) \/ NotStored(w)
      BY <2>1 DEF Answered
    <2> QED
      BY <2>1, <2>2, StoredTyped, NotStoredTyped
  <1> QED
    BY <1>1, SaveTyped, ApplyTyped DEF Writing

-----------------------------------------------------------------------------
(* What a request to open, compile or deploy does on its way: only the page *)
(* that comes back replaces the canvas.                                    *)

Begins(what, id) ==
    /\ ask = NoAsk /\ store[id] # Null
    /\ visit # "hurried" => Quiet /\ leaving = NotLeaving
    /\ ask' = [what |-> what, id |-> id, got |-> Null]

Reopens ==
    /\ ask.what \in {"compile", "deploy"}
    /\ ask' = [what |-> "reopen", id |-> ask.id, got |-> ask.got]

Reads ==
    /\ ask.what \in {"open", "reopen"} /\ ask.got = Null
    /\ ask' = [what |-> ask.what, id |-> ask.id, got |-> store[ask.id]]

AskGoes ==
    /\ \/ \E what \in {"open", "compile", "deploy"}, id \in RecordId : Begins(what, id)
       \/ Reopens \/ Reads
       \/ ask' = NoAsk
       \/ ask' = ask
    /\ UNCHANGED <<visit, page, presses, canvas, definition, current, savedJson, history,
                   undone, writes, saving, leaving, run, ran, store>>

Replaces ==
    /\ page = "here" /\ ask.got # Null
    /\ current' = ask.id /\ definition' = ask.got /\ canvas' = ask.got.of
    /\ savedJson' = ask.got
    /\ history' = <<>> /\ undone' = <<>> /\ ask' = NoAsk
    /\ UNCHANGED <<visit, page, presses, writes, saving, leaving, run, ran, store>>

LEMMA AskingDoes ==
    ASSUME Fitting, Asking
    PROVE  AskGoes \/ Replaces
  <1>0. ask \in [what : {"none", "open", "compile", "deploy", "reopen"}, id : Id, got : Picture]
    BY DEF Fitting, Shapes
  <1>1. ASSUME NEW what \in {"open", "compile", "deploy"}, NEW id \in RecordId, store[id] # Null,
               May, Ask(what, id)
        PROVE  AskGoes
    <2>1. [NoAsk EXCEPT !.what = what, !.id = id] = [what |-> what, id |-> id, got |-> Null]
      <3> DEFINE q == [NoAsk EXCEPT !.what = what]
      <3>1. q = [what |-> what, id |-> Null, got |-> Null]
        BY DEF NoAsk
      <3>2. [q EXCEPT !.id = id] = [what |-> what, id |-> id, got |-> Null]
        <4> HIDE DEF q
        <4> QED
          BY <3>1
      <3>3. [NoAsk EXCEPT !.what = what, !.id = id] = [q EXCEPT !.id = id]
        BY Zenon
      <3> QED
        BY <3>2, <3>3, Zenon
    <2>2. Begins(what, id)
      BY <1>1, <2>1, Zenon DEF Ask, Begins, May
    <2> QED
      BY <1>1, <2>2, Zenon DEF AskGoes, Ask
  <1>2. ASSUME NEW id \in RecordId, Open(id) PROVE AskGoes
    BY <1>1, <1>2, Zenon DEF Open
  <1>3. ASSUME Compile \/ Deploy PROVE AskGoes
    <2>1. current # Null /\ current \in Id /\ store[current] # Null
      BY <1>3, Zenon DEF Fitting, Shapes, Known, Compile, Deploy, CompileOffered, DeployOffered
    <2>2. current \in RecordId
      BY <2>1 DEF Id
    <2> QED
      BY <1>1, <1>3, <2>1, <2>2, Zenon DEF Compile, Deploy, CompileOffered, DeployOffered
  <1>4. ASSUME NEW ok \in BOOLEAN, Versioned(ok) PROVE AskGoes
    <2>1. /\ ask.what \in {"compile", "deploy"}
          /\ ask' = [ask EXCEPT !.what = "reopen"] \/ ask' = NoAsk
      BY <1>4, Zenon DEF Versioned
    <2>2. [ask EXCEPT !.what = "reopen"] = [what |-> "reopen", id |-> ask.id, got |-> ask.got]
      BY <1>0
    <2> QED
      BY <1>4, <2>1, <2>2, Zenon DEF Versioned, AskGoes, Reopens
  <1>5. ASSUME Read PROVE AskGoes
    <2>1. [ask EXCEPT !.got = store[ask.id]] = [what |-> ask.what, id |-> ask.id, got |-> store[ask.id]]
      BY <1>0
    <2> QED
      BY <1>5, <2>1, Zenon DEF Read, Reads, AskGoes
  <1>6. ASSUME Opened PROVE Replaces
    BY <1>6, Zenon DEF Opened, Replaces
  <1>7. ASSUME NotOpened PROVE AskGoes
    BY <1>7, Zenon DEF NotOpened, AskGoes
  <1>8. ASSUME NEW id \in RecordId, Validated(id) PROVE AskGoes
    BY <1>8, Zenon DEF Validated, AskGoes
  <1> QED
    BY <1>2, <1>3, <1>4, <1>5, <1>6, <1>7, <1>8, Zenon DEF Asking

LEMMA AskingTyped ==
    ASSUME Fitting, Asking
    PROVE  Fitting'
  <1> USE EditorConstants DEF Fitting
  <1>1. ASSUME AskGoes PROVE Fitting'
    <2>1. /\ ask' \in [what : {"none", "open", "compile", "deploy", "reopen"}, id : Id, got : Picture]
          /\ ask'.what = "none" => ask' = NoAsk
          /\ ask'.what # "none" => ask'.id # Null /\ store[ask'.id] # Null
          /\ ask'.got # Null => ask'.what \in {"open", "reopen"}
      <3>0. /\ ask \in [what : {"none", "open", "compile", "deploy", "reopen"}, id : Id, got : Picture]
            /\ store \in [RecordId -> Picture]
            /\ ask.what # "none" => ask.id \in RecordId /\ store[ask.id] # Null
        BY DEF Shapes, Known, Id
      <3>1. CASE \E what \in {"open", "compile", "deploy"}, id \in RecordId : Begins(what, id)
        BY <3>1 DEF Begins, Id, Picture
      <3>2. CASE Reopens
        BY <3>0, <3>2 DEF Reopens, Known
      <3>3. CASE Reads
        BY <3>0, <3>3 DEF Reads
      <3>4. CASE ask' = NoAsk
        BY <3>4 DEF NoAsk, Id, Picture
      <3>5. CASE ask' = ask
        BY <3>0, <3>5 DEF Known
      <3> QED
        BY <1>1, <3>1, <3>2, <3>3, <3>4, <3>5 DEF AskGoes
    <2>2. UNCHANGED <<visit, page, presses, canvas, definition, current, savedJson, history,
                      undone, writes, saving, leaving, run, store>>
      BY <1>1 DEF AskGoes
    <2>3. Shapes'
      BY <2>1, <2>2 DEF Shapes
    <2>4. Known'
      BY <2>1, <2>2 DEF Known
    <2> QED
      BY <2>2, <2>3, <2>4 DEF Written, Registered, Departing
  <1>2. ASSUME Replaces PROVE Fitting'
    <2>1. /\ ask.got \in Definition /\ ask.got.of \in Canvas
          /\ ask.id \in RecordId /\ store[ask.id] # Null
      BY <1>2 DEF Replaces, Shapes, Known, Picture, Definition, Id
    <2>2. /\ current' = ask.id /\ definition' = ask.got /\ canvas' = ask.got.of
          /\ savedJson' = ask.got /\ history' = <<>> /\ undone' = <<>> /\ ask' = NoAsk
          /\ UNCHANGED <<visit, page, presses, writes, saving, leaving, run, store>>
      BY <1>2 DEF Replaces
    <2>3. /\ history' \in Seq(Definition) /\ undone' \in Seq(Definition)
          /\ Len(history') + Len(undone') <= HISTORY
      BY <2>2, EmptySeq
    <2>4. NoAsk \in [what : {"none", "open", "compile", "deploy", "reopen"}, id : Id, got : Picture]
      BY DEF NoAsk, Id, Picture
    <2>5. Shapes'
      BY <2>1, <2>2, <2>3, <2>4 DEF Shapes, Id, Picture
    <2>6. Known'
      BY <2>1, <2>2 DEF Known, NoAsk
    <2> QED
      BY <2>2, <2>5, <2>6 DEF Written, Registered, Departing
  <1> QED
    BY <1>1, <1>2, AskingDoes

-----------------------------------------------------------------------------
(* What pressing Run does: at once, or once a write has been answered.      *)

RunsAtOnce ==
    /\ ~NeedsSave
    /\ run' = [at |-> "sent", slot |-> 0, id |-> current, def |-> definition]
    /\ UNCHANGED <<writes, saving>>

RunsOnceSaved(w) ==
    /\ writes[w].at = "none"
    /\ writes' = [writes EXCEPT ![w] = Sent(current, definition)] /\ saving' = w
    /\ run' = [at |-> "saving", slot |-> w, id |-> Null, def |-> definition]

RunBegins ==
    /\ page = "here" /\ run = NotRunning /\ visit # "lossy"
    /\ visit # "hurried" => Quiet /\ leaving = NotLeaving
    /\ RunsAtOnce \/ \E w \in Write : RunsOnceSaved(w)
    /\ UNCHANGED <<visit, page, presses, canvas, definition, current, savedJson, history,
                   undone, leaving, ask, ran, store>>

RunGoes ==
    /\ \/ RunExecutes
       \/ page = "here" /\ run' = NotRunning /\ ran' = ran
    /\ UNCHANGED <<visit, page, presses, canvas, definition, current, savedJson, history,
                   undone, writes, saving, leaving, ask, store>>

LEMMA RunningDoes ==
    ASSUME Running
    PROVE  RunBegins \/ RunGoes
  <1>1. ASSUME Run, NeedsSave PROVE RunBegins
    <2> DEFINE w == CHOOSE v \in FreeWrite : TRUE
    <2>1. /\ FreeWrite # {}
          /\ writes' = [writes EXCEPT ![w] = Sent(current, definition)]
          /\ saving' = w
          /\ run' = [at |-> "saving", slot |-> w, id |-> Null, def |-> definition]
      BY <1>1, Zenon DEF Run
    <2>2. w \in Write /\ writes[w].at = "none"
      BY <2>1, AFreeWrite
    <2>3. RunsOnceSaved(w)
      BY <2>1, <2>2, Zenon DEF RunsOnceSaved
    <2> QED
      BY <1>1, <2>2, <2>3, Zenon DEF Run, RunOffered, RunBegins
  <1>2. ASSUME Run, ~NeedsSave PROVE RunBegins
    BY <1>2, Zenon DEF Run, RunOffered, RunsAtOnce, RunBegins
  <1>3. ASSUME RunExecutes PROVE RunGoes
    BY <1>3, Zenon DEF RunExecutes, RunGoes
  <1>4. ASSUME NEW ok \in BOOLEAN, RunAnswered(ok) PROVE RunGoes
    BY <1>4, Zenon DEF RunAnswered, RunGoes
  <1> QED
    BY <1>1, <1>2, <1>3, <1>4, Zenon DEF Running

LEMMA RunningTyped ==
    ASSUME Fitting, Running
    PROVE  Fitting'
  <1> USE EditorConstants DEF Fitting
  <1>1. ASSUME RunBegins, NEW w \in Write, RunsOnceSaved(w) PROVE Fitting'
    <2>1. /\ writes[w].at = "none" /\ writes' = [writes EXCEPT ![w] = Sent(current, definition)]
          /\ saving' = w
          /\ run' = [at |-> "saving", slot |-> w, id |-> Null, def |-> definition]
          /\ UNCHANGED <<visit, page, presses, canvas, definition, current, savedJson,
                         history, undone, leaving, ask, store>>
      BY <1>1 DEF RunBegins, RunsOnceSaved
    <2>2. run' \in [at : {"no", "saving", "sent", "executed"}, slot : Slots, id : Id, def : Picture]
      BY <2>1 DEF Shapes, Id, Picture
    <2>3. Shapes'
      BY <2>1, <2>2, SentIsAWrite DEF Shapes
    <2>4. /\ writes'[w] = [at |-> "sent", id |-> current, def |-> definition]
          /\ \A v \in Write : v # w => writes'[v] = writes[v]
      BY <2>1 DEF Shapes, Sent
    <2>5. Written'
      BY <2>1, <2>4 DEF Written, Known, Shapes
    <2>6. Known' /\ Registered'
      <3>1. run'.at = "saving" /\ run'.def # Null
        BY <2>1 DEF Shapes
      <3> QED
        BY <2>1, <2>4, <3>1 DEF Known, Registered, Underway
    <2>7. Departing'
      <3>1. leaving.at \in Waiting /\ page = "here" => leaving.slot # w /\ leaving.slot \in Write
        BY <2>1 DEF Departing, Underway, Shapes
      <3>2. leaving.at \in Waiting /\ page = "here" => writes'[leaving.slot] = writes[leaving.slot]
        BY <2>4, <3>1
      <3>3. leaving' = leaving /\ page' = page
        BY <2>1
      <3> QED
        BY <3>2, <3>3 DEF Departing, Waiting
    <2> QED
      BY <2>3, <2>5, <2>6, <2>7
  <1>2. ASSUME UNCHANGED <<visit, page, presses, canvas, definition, current, savedJson, history,
                           undone, writes, saving, leaving, ask, store>>,
               run' \in [at : {"no", "saving", "sent", "executed"}, slot : Slots, id : Id, def : Picture],
               run'.at = "no" => run' = NotRunning,
               run'.at = "sent" => run'.id # Null,
               run'.at # "no" => run'.def # Null
        PROVE  Fitting'
    <2>1. Shapes'
      BY <1>2 DEF Shapes
    <2>2. Known'
      BY <1>2 DEF Known
    <2> QED
      BY <1>2, <2>1, <2>2 DEF Written, Registered, Departing
  <1>3. ASSUME RunBegins, RunsAtOnce PROVE Fitting'
    <2>1. current # Null
      BY <1>3 DEF RunsAtOnce, NeedsSave
    <2>2. run' = [at |-> "sent", slot |-> 0, id |-> current, def |-> definition]
      BY <1>3 DEF RunsAtOnce
    <2>3. 0 \in Slots /\ current \in Id /\ definition \in Definition
      BY DEF Shapes, Slots
    <2> QED
      BY <1>2, <1>3, <2>1, <2>2, <2>3 DEF RunBegins, RunsAtOnce, Picture
  <1>4. ASSUME RunGoes PROVE Fitting'
    <2>1. CASE RunExecutes
      <3>1. run.at = "sent" /\ run' = [run EXCEPT !.at = "executed"]
        BY <2>1 DEF RunExecutes
      <3>2. run \in [at : {"no", "saving", "sent", "executed"}, slot : Slots, id : Id, def : Picture]
        BY DEF Shapes
      <3>3. /\ run' \in [at : {"no", "saving", "sent", "executed"}, slot : Slots, id : Id, def : Picture]
            /\ run'.at = "executed" /\ run'.def = run.def /\ run.def # Null
        BY <3>1, <3>2 DEF Known
      <3> QED
        BY <1>2, <1>4, <3>3 DEF RunGoes
    <2>2. CASE run' = NotRunning
      <3>1. /\ NotRunning \in [at : {"no", "saving", "sent", "executed"}, slot : Slots, id : Id, def : Picture]
            /\ NotRunning.at = "no"
        BY DEF NotRunning, Slots, Id, Picture
      <3> QED
        BY <1>2, <1>4, <2>2, <3>1 DEF RunGoes
    <2> QED
      BY <1>4, <2>1, <2>2 DEF RunGoes
  <1> QED
    BY <1>1, <1>3, <1>4, RunningDoes DEF RunBegins

-----------------------------------------------------------------------------
(* What the back link does: it goes, it waits for the write on its way, or  *)
(* it writes; and what closing the page does.                              *)

GoesBack ==
    /\ saving = 0 /\ (~Unsaved \/ definition = savedJson)
    /\ page' = "saved" /\ leaving' = [at |-> "link", slot |-> 0, def |-> definition]
    /\ UNCHANGED <<writes, saving>>

WaitsForIt ==
    /\ saving # 0
    /\ leaving' = [at |-> "inFlight", slot |-> saving, def |-> definition]
    /\ UNCHANGED <<page, writes, saving>>

WritesFirst(w) ==
    /\ saving = 0 /\ writes[w].at = "none"
    /\ writes' = [writes EXCEPT ![w] = Sent(current, definition)] /\ saving' = w
    /\ leaving' = [at |-> "own", slot |-> w, def |-> definition] /\ page' = page

BackLink ==
    /\ page = "here" /\ leaving = NotLeaving /\ (visit # "hurried" => ask = NoAsk)
    /\ GoesBack \/ WaitsForIt \/ \E w \in Write : WritesFirst(w)
    /\ UNCHANGED <<visit, presses, canvas, definition, current, savedJson, history, undone,
                   ask, run, ran, store>>

Closes ==
    /\ page = "here" /\ page' = "away"
    /\ UNCHANGED <<visit, presses, canvas, definition, current, savedJson, history, undone,
                   writes, saving, leaving, ask, run, ran, store>>

LEMMA LeavingDoes ==
    ASSUME Leaving
    PROVE  BackLink \/ Closes
  <1>1. ASSUME Leave, saving = 0, ~Unsaved PROVE BackLink
    BY <1>1, Zenon DEF Leave, GoesBack, BackLink
  <1>2. ASSUME Leave, saving # 0 PROVE BackLink
    BY <1>2, Zenon DEF Leave, WaitsForIt, BackLink
  <1>3. ASSUME Leave, saving = 0, Unsaved, definition = savedJson PROVE BackLink
    BY <1>3, Zenon DEF Leave, GoesBack, BackLink
  <1>4. ASSUME Leave, saving = 0, Unsaved, definition # savedJson PROVE BackLink
    <2> DEFINE w == CHOOSE v \in FreeWrite : TRUE
    <2>1. /\ FreeWrite # {} /\ page' = page
          /\ writes' = [writes EXCEPT ![w] = Sent(current, definition)]
          /\ saving' = w
          /\ leaving' = [at |-> "own", slot |-> w, def |-> definition]
      BY <1>4, Zenon DEF Leave
    <2>2. w \in Write /\ writes[w].at = "none"
      BY <2>1, AFreeWrite
    <2>3. WritesFirst(w)
      BY <1>4, <2>1, <2>2, Zenon DEF WritesFirst
    <2> QED
      BY <1>4, <2>2, <2>3, Zenon DEF Leave, BackLink
  <1>5. ASSUME LeaveWithoutSaving PROVE Closes
    BY <1>5, Zenon DEF LeaveWithoutSaving, Closes
  <1> QED
    BY <1>1, <1>2, <1>3, <1>4, <1>5, Zenon DEF Leaving

LEMMA LeavingTyped ==
    ASSUME Fitting, Leaving
    PROVE  Fitting'
  <1> USE EditorConstants DEF Fitting
  <1>0. ASSUME BackLink
        PROVE  UNCHANGED <<visit, presses, canvas, definition, current, savedJson, history,
                           undone, ask, run, ran, store>>
    BY <1>0 DEF BackLink
  <1>1. ASSUME BackLink, GoesBack PROVE Fitting'
    <2>1. /\ page' = "saved" /\ leaving' = [at |-> "link", slot |-> 0, def |-> definition]
          /\ UNCHANGED <<writes, saving>>
      BY <1>1 DEF GoesBack
    <2>2. leaving' \in [at : {"no", "link", "inFlight", "own"}, slot : Slots, def : Picture]
      BY <2>1 DEF Shapes, Picture, Slots
    <2>3. Shapes'
      BY <1>0, <1>1, <2>1, <2>2 DEF Shapes
    <2> QED
      BY <1>0, <1>1, <2>1, <2>3 DEF Written, Known, Registered, Departing, Waiting
  <1>2. ASSUME BackLink, WaitsForIt PROVE Fitting'
    <2>1. /\ saving # 0 /\ page = "here" /\ saving \in Slots
          /\ leaving' = [at |-> "inFlight", slot |-> saving, def |-> definition]
          /\ UNCHANGED <<page, writes, saving>>
      BY <1>2 DEF WaitsForIt, BackLink, Shapes
    <2>2. /\ leaving' \in [at : {"no", "link", "inFlight", "own"}, slot : Slots, def : Picture]
          /\ definition # Null
      BY <2>1 DEF Shapes, Picture
    <2>3. Shapes'
      BY <1>0, <1>2, <2>1, <2>2 DEF Shapes
    <2>4. Departing'
      BY <1>0, <1>2, <2>1, <2>2 DEF Registered, Departing, Waiting
    <2> QED
      BY <1>0, <1>2, <2>1, <2>3, <2>4 DEF Written, Known, Registered
  <1>3. ASSUME BackLink, NEW w \in Write, WritesFirst(w) PROVE Fitting'
    <2>1. /\ writes[w].at = "none" /\ writes' = [writes EXCEPT ![w] = Sent(current, definition)]
          /\ saving' = w /\ leaving' = [at |-> "own", slot |-> w, def |-> definition]
          /\ page' = page
      BY <1>3 DEF WritesFirst
    <2>2. /\ leaving' \in [at : {"no", "link", "inFlight", "own"}, slot : Slots, def : Picture]
          /\ definition # Null
      BY <2>1 DEF Shapes, Picture
    <2>3. Shapes'
      BY <1>0, <1>3, <2>1, <2>2, SentIsAWrite DEF Shapes
    <2>4. /\ writes'[w] = [at |-> "sent", id |-> current, def |-> definition]
          /\ \A v \in Write : v # w => writes'[v] = writes[v]
      BY <2>1 DEF Shapes, Sent
    <2>5. Written'
      BY <1>0, <1>3, <2>1, <2>4 DEF Written, Known, Shapes
    <2>6. Known' /\ Registered'
      BY <1>0, <1>3, <2>1, <2>4 DEF Known, Registered, Underway
    <2>7. Departing'
      BY <1>0, <1>3, <2>1, <2>2, <2>4 DEF Departing, Waiting, Underway
    <2> QED
      BY <2>3, <2>5, <2>6, <2>7
  <1>4. ASSUME Closes PROVE Fitting'
    <2>1. /\ page' = "away"
          /\ UNCHANGED <<visit, presses, canvas, definition, current, savedJson, history, undone,
                         writes, saving, leaving, ask, run, ran, store>>
      BY <1>4 DEF Closes
    <2>2. Shapes'
      BY <2>1 DEF Shapes
    <2> QED
      BY <2>1, <2>2 DEF Written, Known, Registered, Departing
  <1> QED
    BY <1>1, <1>2, <1>3, <1>4, LeavingDoes DEF BackLink

LEMMA TypedStep ==
    ASSUME Fitting, [EditorNext]_editorVars
    PROVE  Fitting'
  <1>1. CASE EditorNext
    BY <1>1, EditingTyped, WritingTyped, AskingTyped, RunningTyped, LeavingTyped DEF EditorNext
  <1>2. CASE UNCHANGED editorVars
    <2>1. UNCHANGED <<visit, page, presses, canvas, definition, current, savedJson, history,
                      undone, writes, saving, leaving, ask, run, store>>
      BY <1>2 DEF editorVars
    <2>2. Shapes'
      BY <2>1 DEF Fitting, Shapes
    <2> QED
      BY <2>1, <2>2 DEF Fitting, Written, Known, Registered, Departing
  <1> QED
    BY <1>1, <1>2

-----------------------------------------------------------------------------
(* Of who waits for answers, every drawing belongs to its record: what is   *)
(* drawn, undone, written and stored is of the canvas it was drawn on.     *)

LEMMA InitOwn == EditorInit => Own
  <1> SUFFICES ASSUME EditorInit PROVE Own
    OBVIOUS
  <1> USE EditorConstants
  <1>1. /\ presses = 0 /\ canvas = 0 /\ definition = blankWorkflow(0) /\ current = Null
        /\ history = <<>> /\ writes = [w \in Write |-> NoWrite] /\ leaving = NotLeaving
        /\ ask = NoAsk
        /\ store = [id \in RecordId |-> IF id \in Record THEN [of |-> id, rev |-> 0] ELSE Null]
    BY Zenon DEF EditorInit
  <1>2. DOMAIN history = {}
    BY <1>1
  <1>3. OfCanvas
    BY <1>1, <1>2 DEF OfCanvas, Places, blankWorkflow, NoWrite, NotLeaving, Waiting
  <1>4. \A id \in Record : [of |-> id, rev |-> 0] \in Definition
    BY DEF Definition
  <1>5. OfRecord
    BY <1>1, <1>4 DEF OfRecord, Places, NoAsk
  <1> QED
    BY <1>1, <1>3, <1>5 DEF Own, AsksAlone

(* Where the writes, the request and the store are as they were, so are     *)
(* their places.                                                           *)
LEMMA RecordsStay ==
    ASSUME OfRecord, Fitting, UNCHANGED <<ask, store>>, presses' \in {presses, presses + 1}
    PROVE  OfRecord'
  <1>1. Places \subseteq Places'
    BY DEF Fitting, Shapes, Places
  <1> QED
    BY <1>1 DEF OfRecord

LEMMA EditingOwn ==
    ASSUME Fitting, Own, Editing
    PROVE  Own'
  <1> USE EditorConstants DEF Fitting
  <1>0. visit' = visit
    BY DEF Editing, Edit, Undo, Redo, New
  <1> SUFFICES ASSUME visit # "hurried" PROVE (OfCanvas /\ AsksAlone /\ OfRecord)'
    BY <1>0 DEF Own
  <1>1. OfCanvas /\ AsksAlone /\ OfRecord
    BY DEF Own
  <1>2. ASSUME UNCHANGED <<presses, canvas, current, writes, leaving, ask, run, store>>,
               definition'.of = canvas, \A i \in DOMAIN history' : history'[i].of = canvas
        PROVE  (OfCanvas /\ AsksAlone /\ OfRecord)'
    <2>1. OfRecord'
      BY <1>1, <1>2, RecordsStay
    <2> QED
      BY <1>1, <1>2, <2>1 DEF OfCanvas, AsksAlone, Places
  <1>3. ASSUME NEW rev \in Rev, Edit(rev) PROVE (OfCanvas /\ AsksAlone /\ OfRecord)'
    <2>1. Len(history) \in Nat /\ Len(undone) \in Nat /\ Len(history) <= HISTORY
      BY LenProperties DEF Shapes
    <2>2. \A i \in DOMAIN history' :
              history'[i] = definition \/ \E j \in DOMAIN history : history'[i] = history[j]
      BY <1>3, <2>1, OneMoreToUndo DEF Edit, Shapes
    <2>3. definition'.of = definition.of
      BY <1>3 DEF Edit, Shapes, Definition
    <2>4. UNCHANGED <<presses, canvas, current, writes, leaving, ask, run, store>>
      BY <1>3 DEF Edit
    <2>5. definition'.of = canvas /\ \A i \in DOMAIN history' : history'[i].of = canvas
      BY <1>1, <2>2, <2>3 DEF OfCanvas
    <2> QED
      BY <1>2, <2>4, <2>5
  <1>4. ASSUME Undo PROVE (OfCanvas /\ AsksAlone /\ OfRecord)'
    <2>0. /\ history # <<>> /\ history \in Seq(Definition)
          /\ definition' = Last(history) /\ history' = Front(history)
      BY <1>4 DEF Undo, Shapes
    <2>1. /\ Len(history) \in Nat \ {0} /\ DOMAIN history = 1..Len(history)
          /\ definition' = history[Len(history)]
          /\ history' \in Seq(Definition) /\ Len(history') = Len(history) - 1
          /\ \A i \in 1..Len(history') : history'[i] = history[i]
      BY <2>0, FrontAndLast, LenProperties
    <2>2. DOMAIN history' = 1..Len(history')
      BY <2>1, LenProperties
    <2>3. definition'.of = canvas /\ \A i \in DOMAIN history' : history'[i].of = canvas
      BY <1>1, <2>1, <2>2 DEF OfCanvas
    <2>4. UNCHANGED <<presses, canvas, current, writes, leaving, ask, run, store>>
      BY <1>4 DEF Undo
    <2> QED
      BY <1>2, <2>3, <2>4
  <1>5. ASSUME Redo PROVE (OfCanvas /\ AsksAlone /\ OfRecord)'
    <2>1. /\ definition' = Last(undone) /\ Last(undone).of = canvas
          /\ history' = Append(history, definition)
          /\ UNCHANGED <<presses, canvas, current, writes, leaving, ask, run, store>>
      BY <1>5 DEF Redo
    <2>2. \A i \in DOMAIN history' :
              history'[i] = definition \/ (i \in DOMAIN history /\ history'[i] = history[i])
      BY <2>1, AppendedIsLast DEF Shapes
    <2>3. definition'.of = canvas /\ \A i \in DOMAIN history' : history'[i].of = canvas
      BY <1>1, <2>1, <2>2 DEF OfCanvas
    <2> QED
      BY <1>2, <2>1, <2>3
  <1>6. ASSUME New PROVE (OfCanvas /\ AsksAlone /\ OfRecord)'
    <2>1. /\ Quiet /\ leaving = NotLeaving
          /\ presses' = presses + 1 /\ canvas' = presses' /\ definition' = blankWorkflow(presses')
          /\ current' = Null /\ history' = <<>>
          /\ UNCHANGED <<writes, leaving, ask, run, store>>
      BY <1>6 DEF New, May
    <2>2. DOMAIN history' = {}
      BY <2>1
    <2>3. OfRecord'
      BY <1>1, <2>1, RecordsStay
    <2>4. canvas' \in Places'
      BY <2>1 DEF Shapes, Places
    <2>5. \A w \in Write : writes'[w].at = "none"
      BY <2>1 DEF Quiet
    <2>6. OfCanvas'
      BY <2>1, <2>2, <2>4, <2>5 DEF OfCanvas, blankWorkflow, NotLeaving, Waiting
    <2> QED
      BY <1>1, <2>1, <2>3, <2>6 DEF AsksAlone
  <1> QED
    BY <1>3, <1>4, <1>5, <1>6 DEF Editing

LEMMA SaveOwn ==
    ASSUME Fitting, Own, Save
    PROVE  Own'
  <1> USE EditorConstants DEF Fitting
  <1>1. PICK w \in Write :
            /\ writes[w].at = "none" /\ writes' = [writes EXCEPT ![w] = Sent(current, definition)]
            /\ UNCHANGED <<visit, presses, canvas, definition, current, history, leaving, ask,
                           run, store>>
    BY AFreeWrite DEF Save
  <1> SUFFICES ASSUME visit # "hurried" PROVE (OfCanvas /\ AsksAlone /\ OfRecord)'
    BY <1>1 DEF Own
  <1>2. OfCanvas /\ AsksAlone /\ OfRecord
    BY DEF Own
  <1>3. ask = NoAsk
    BY DEF Save, May, Quiet
  <1>4. OfRecord'
    BY <1>1, <1>2, RecordsStay
  <1>5. /\ writes'[w] = [at |-> "sent", id |-> current, def |-> definition]
        /\ \A v \in Write : v # w => writes'[v] = writes[v]
    BY <1>1 DEF Shapes, Sent
  <1>6. OfCanvas'
    BY <1>1, <1>2, <1>5 DEF OfCanvas, Places
  <1> QED
    BY <1>1, <1>3, <1>4, <1>6 DEF AsksAlone

LEMMA ApplyOwn ==
    ASSUME Fitting, Own, NEW w \in Write, Apply(w)
    PROVE  Own'
  <1> USE EditorConstants DEF Fitting
  <1>1. PICK id \in RecordId :
               /\ store' = [store EXCEPT ![id] = writes[w].def]
               /\ writes[w].def \in Definition
               /\ writes[w].id # Null => id = writes[w].id
               /\ writes[w].id = Null => id \in NewRecord /\ store[id] = Null
               /\ \/ /\ writes[w].at = "orphan"
                     /\ writes' = [writes EXCEPT ![w] = NoWrite]
                  \/ /\ writes[w].at = "sent"
                     /\ writes' = [writes EXCEPT ![w] =
                                      [at |-> "applied", id |-> id, def |-> writes[w].def]]
               /\ UNCHANGED <<visit, page, presses, canvas, definition, current, savedJson,
                              history, undone, saving, leaving, ask, run, ran>>
    BY AppliedIs
  <1> SUFFICES ASSUME visit # "hurried" PROVE (OfCanvas /\ AsksAlone /\ OfRecord)'
    BY <1>1 DEF Own
  <1>2. OfCanvas /\ AsksAlone /\ OfRecord
    BY DEF Own
  <1>3. writes[w].at # "none" /\ writes[w].def.of = canvas
    BY <1>1, <1>2 DEF OfCanvas
  <1>4. ask = NoAsk /\ ask' = NoAsk
    BY <1>1, <1>2, <1>3 DEF AsksAlone
  <1>5. /\ store'[id].of = canvas
        /\ \A n \in RecordId : n # id => store'[n] = store[n]
        /\ \A n \in RecordId : store[n] # Null => store'[n].of = store[n].of
    <2>1. store'[id] = writes[w].def /\ \A n \in RecordId : n # id => store'[n] = store[n]
      BY <1>1 DEF Shapes
    <2>2. store[id] # Null => store[id].of = canvas
      BY <1>1, <1>2, <1>3 DEF OfCanvas
    <2> QED
      BY <1>3, <2>1, <2>2
  <1>6. OfRecord'
    <2>1. Places' = Places
      BY <1>1 DEF Places
    <2>2. \A n \in RecordId : store'[n] # Null => store'[n].of \in Places
      BY <1>2, <1>5 DEF OfRecord, OfCanvas
    <2>3. \A n \in Record : store'[n] # Null /\ store'[n].of = n
      <3>1. store'[id] # Null
        BY <1>1 DEF Shapes
      <3> QED
        BY <1>2, <1>5, <3>1 DEF OfRecord
    <2> QED
      BY <1>4, <2>1, <2>2, <2>3 DEF OfRecord, NoAsk
  <1>7. /\ writes'[w].at # "none" => writes'[w].def = writes[w].def /\ writes'[w].id = id
        /\ \A v \in Write : v # w => writes'[v] = writes[v]
    BY <1>1 DEF Shapes, NoWrite
  <1>8. \A v \in Write : writes'[v].at # "none" =>
            /\ writes'[v].def.of = canvas
            /\ writes'[v].id # Null => store'[writes'[v].id].of = canvas
    <2> SUFFICES ASSUME NEW v \in Write, writes'[v].at # "none"
                 PROVE  /\ writes'[v].def.of = canvas
                        /\ writes'[v].id # Null => store'[writes'[v].id].of = canvas
      OBVIOUS
    <2>1. CASE v = w
      BY <1>3, <1>5, <1>7, <2>1
    <2>2. CASE v # w
      <3>1. writes[v].id \in Id /\ (writes[v].id # Null => store[writes[v].id] # Null)
        BY <1>7, <2>2 DEF Shapes, Written
      <3> QED
        BY <1>2, <1>5, <1>7, <2>2, <3>1 DEF OfCanvas, Id
    <2> QED
      BY <2>1, <2>2
  <1>9. OfCanvas'
    <2>1. current # Null => store'[current].of = canvas
      BY <1>2, <1>5 DEF Shapes, Known, OfCanvas, Id
    <2> QED
      BY <1>1, <1>2, <1>8, <2>1 DEF OfCanvas, Places
  <1> QED
    BY <1>4, <1>6, <1>9 DEF AsksAlone

LEMMA AnsweredOwn ==
    ASSUME Fitting, Own, NEW w \in Write, Answered(w)
    PROVE  Own'
  <1> USE EditorConstants DEF Fitting
  <1>1. UNCHANGED <<visit, presses, canvas, definition, history, undone, ask, store>>
    BY DEF Answered
  <1> SUFFICES ASSUME visit # "hurried" PROVE (OfCanvas /\ AsksAlone /\ OfRecord)'
    BY <1>1 DEF Own
  <1>2. OfCanvas /\ AsksAlone /\ OfRecord
    BY DEF Own
  <1>3. writes[w].at # "none"
    BY DEF Answered, Stored, NotStored
  <1>4. ask' = NoAsk
    BY <1>1, <1>2, <1>3 DEF AsksAlone
  <1>5. OfRecord'
    BY <1>1, <1>2, RecordsStay
  <1>6. /\ leaving'.at \in Waiting => leaving.at \in Waiting /\ leaving'.def = leaving.def
        /\ current' # Null => store[current'].of = canvas
    <2>1. CASE Stored(w)
      <3>1. leaving \in [at : {"no", "link", "inFlight", "own"}, slot : Slots, def : Picture]
        BY DEF Shapes
      <3>2. leaving' = leaving \/ (leaving.at = "inFlight" /\ leaving' = [leaving EXCEPT !.at = "own"])
        BY <2>1 DEF Stored
      <3>3. store[writes[w].id].of = canvas /\ current' = writes[w].id
        BY <1>2, <1>3, <2>1 DEF Stored, OfCanvas, Written
      <3> QED
        BY <3>1, <3>2, <3>3 DEF Waiting
    <2>2. CASE NotStored(w)
      BY <1>2, <2>2 DEF NotStored, NotLeaving, Waiting, OfCanvas
    <2> QED
      BY <2>1, <2>2 DEF Answered
  <1>7. \A v \in Write : v # w => writes'[v] = writes[v]
    BY DEF Answered, Stored, NotStored, Shapes
  <1>8. writes'[w].at # "none" =>
            /\ writes'[w].def.of = canvas
            /\ writes'[w].id # Null => store[writes'[w].id].of = canvas
    <2>1. CASE writes' = [writes EXCEPT ![w] = NoWrite]
      BY <2>1 DEF Shapes, NoWrite
    <2>2. CASE writes' = [writes EXCEPT ![w].at = "orphan"]
      <3>1. writes'[w].id = writes[w].id /\ writes'[w].def = writes[w].def
        BY <2>2 DEF Shapes
      <3> QED
        BY <1>2, <1>3, <3>1 DEF OfCanvas
    <2>3. CASE /\ writes[w].at = "applied" /\ leaving.at = "inFlight"
               /\ writes' = [writes EXCEPT ![w] = Sent(writes[w].id, leaving.def)]
      <3>1. writes'[w] = [at |-> "sent", id |-> writes[w].id, def |-> leaving.def]
        BY <2>3 DEF Shapes, Sent
      <3> QED
        BY <1>2, <1>3, <2>3, <3>1 DEF OfCanvas, Waiting
    <2> QED
      BY <2>1, <2>2, <2>3, Zenon DEF Answered, Stored, NotStored
  <1>9. OfCanvas'
    BY <1>1, <1>2, <1>6, <1>7, <1>8 DEF OfCanvas, Places
  <1> QED
    BY <1>4, <1>5, <1>9 DEF AsksAlone

LEMMA AskingOwn ==
    ASSUME Fitting, Own, Asking
    PROVE  Own'
  <1> USE EditorConstants DEF Fitting
  <1>1. AskGoes \/ Replaces
    BY AskingDoes
  <1>2. UNCHANGED <<visit, presses, writes, leaving, run, store>>
    BY <1>1 DEF AskGoes, Replaces
  <1> SUFFICES ASSUME visit # "hurried" PROVE (OfCanvas /\ AsksAlone /\ OfRecord)'
    BY <1>2 DEF Own
  <1>3. OfCanvas /\ AsksAlone /\ OfRecord
    BY DEF Own
  <1>4. ASSUME AskGoes PROVE (OfCanvas /\ AsksAlone /\ OfRecord)'
    <2>1. /\ ask'.got # Null => store[ask'.id].of = ask'.got.of
          /\ ask' # NoAsk =>
                (\A w \in Write : writes[w].at = "none") /\ run = NotRunning /\ leaving = NotLeaving
      <3>1. CASE \E what \in {"open", "compile", "deploy"}, id \in RecordId : Begins(what, id)
        BY <3>1 DEF Begins, Quiet
      <3>2. CASE Reopens
        BY <1>3, <3>2 DEF Reopens, AsksAlone, OfRecord, NoAsk
      <3>3. CASE Reads
        BY <1>3, <3>3 DEF Reads, AsksAlone, NoAsk
      <3>4. CASE ask' = NoAsk
        BY <3>4 DEF NoAsk
      <3>5. CASE ask' = ask
        BY <1>3, <3>5 DEF AsksAlone, OfRecord
      <3> QED
        BY <1>4, <3>1, <3>2, <3>3, <3>4, <3>5 DEF AskGoes
    <2>2. UNCHANGED <<canvas, definition, current, history>>
      BY <1>4 DEF AskGoes
    <2>3. OfCanvas'
      BY <1>2, <1>3, <2>2 DEF OfCanvas, Places
    <2>4. OfRecord'
      BY <1>2, <1>3, <2>1 DEF OfRecord, Places
    <2> QED
      BY <1>2, <2>1, <2>3, <2>4 DEF AsksAlone
  <1>5. ASSUME Replaces PROVE (OfCanvas /\ AsksAlone /\ OfRecord)'
    <2>1. /\ current' = ask.id /\ definition' = ask.got /\ canvas' = ask.got.of
          /\ history' = <<>> /\ ask' = NoAsk
      BY <1>5 DEF Replaces
    <2>2. ask.got # Null /\ ask # NoAsk /\ ask.id \in RecordId /\ store[ask.id] # Null
      BY <1>5 DEF Replaces, NoAsk, Shapes, Known, Id
    <2>3. store[ask.id].of = ask.got.of /\ store[ask.id].of \in Places
      BY <1>3, <2>2 DEF OfRecord
    <2>4. /\ \A w \in Write : writes[w].at = "none"
          /\ leaving = NotLeaving
      BY <1>3, <2>2 DEF AsksAlone
    <2>5. DOMAIN history' = {} /\ Places' = Places
      BY <1>2, <2>1 DEF Places
    <2>6. OfCanvas'
      BY <1>2, <2>1, <2>3, <2>4, <2>5 DEF OfCanvas, NotLeaving, Waiting
    <2>7. OfRecord'
      BY <1>2, <1>3, <2>1, <2>5 DEF OfRecord, NoAsk
    <2> QED
      BY <2>1, <2>6, <2>7 DEF AsksAlone
  <1> QED
    BY <1>1, <1>4, <1>5

(* A run, or the back link, that writes what is on screen. *)
LEMMA OneMoreOwn ==
    ASSUME Fitting, OfCanvas, NEW w \in Write,
           writes' = [writes EXCEPT ![w] = Sent(current, definition)],
           UNCHANGED <<presses, canvas, definition, current, history, store>>,
           leaving'.at \in Waiting => leaving'.def.of = canvas
    PROVE  OfCanvas'
  <1>1. /\ writes'[w] = [at |-> "sent", id |-> current, def |-> definition]
        /\ \A v \in Write : v # w => writes'[v] = writes[v]
    BY DEF Fitting, Shapes, Sent
  <1> QED
    BY <1>1 DEF OfCanvas, Places

LEMMA RunningOwn ==
    ASSUME Fitting, Own, Running
    PROVE  Own'
  <1> USE EditorConstants DEF Fitting
  <1>1. RunBegins \/ RunGoes
    BY RunningDoes
  <1>2. UNCHANGED <<visit, presses, canvas, definition, current, history, leaving, ask, store>>
    BY <1>1 DEF RunBegins, RunGoes
  <1> SUFFICES ASSUME visit # "hurried" PROVE (OfCanvas /\ AsksAlone /\ OfRecord)'
    BY <1>2 DEF Own
  <1>3. OfCanvas /\ AsksAlone /\ OfRecord
    BY DEF Own
  <1>4. OfRecord'
    BY <1>2, <1>3, RecordsStay
  <1>5. ASSUME writes' = writes PROVE OfCanvas'
    BY <1>2, <1>3, <1>5 DEF OfCanvas, Places
  <1>6. ASSUME RunBegins PROVE OfCanvas' /\ AsksAlone'
    <2>1. ask' = NoAsk
      BY <1>2, <1>6 DEF RunBegins, Quiet
    <2>2. OfCanvas'
      <3>1. CASE RunsAtOnce
        BY <1>5, <3>1 DEF RunsAtOnce
      <3>2. ASSUME NEW w \in Write, RunsOnceSaved(w) PROVE OfCanvas'
        <4>1. leaving'.at \in Waiting => leaving'.def.of = canvas
          BY <1>2, <1>3 DEF OfCanvas
        <4> QED
          BY <1>2, <1>3, <3>2, <4>1, OneMoreOwn DEF RunsOnceSaved
      <3> QED
        BY <1>6, <3>1, <3>2 DEF RunBegins
    <2> QED
      BY <2>1, <2>2 DEF AsksAlone
  <1>7. ASSUME RunGoes PROVE OfCanvas' /\ AsksAlone'
    <2>1. writes' = writes
      BY <1>7 DEF RunGoes
    <2>2. ask # NoAsk => run' = NotRunning
      BY <1>3, <1>7 DEF RunGoes, AsksAlone, RunExecutes, NotRunning
    <2> QED
      BY <1>2, <1>3, <1>5, <2>1, <2>2 DEF AsksAlone
  <1> QED
    BY <1>1, <1>4, <1>6, <1>7

LEMMA LeavingOwn ==
    ASSUME Fitting, Own, Leaving
    PROVE  Own'
  <1> USE EditorConstants DEF Fitting
  <1>1. BackLink \/ Closes
    BY LeavingDoes
  <1>2. UNCHANGED <<visit, presses, canvas, definition, current, history, ask, run, store>>
    BY <1>1 DEF BackLink, Closes
  <1> SUFFICES ASSUME visit # "hurried" PROVE (OfCanvas /\ AsksAlone /\ OfRecord)'
    BY <1>2 DEF Own
  <1>3. OfCanvas /\ AsksAlone /\ OfRecord
    BY DEF Own
  <1>4. OfRecord'
    BY <1>2, <1>3, RecordsStay
  <1>5. ASSUME writes' = writes, leaving'.at \in Waiting => leaving'.def.of = canvas
        PROVE  OfCanvas'
    BY <1>2, <1>3, <1>5 DEF OfCanvas, Places
  <1>6. ASSUME BackLink PROVE OfCanvas' /\ AsksAlone'
    <2>1. ask' = NoAsk
      BY <1>2, <1>6 DEF BackLink
    <2>2. definition.of = canvas
      BY <1>3 DEF OfCanvas
    <2>3. CASE GoesBack
      BY <1>5, <2>1, <2>3 DEF GoesBack, Waiting, AsksAlone
    <2>4. CASE WaitsForIt
      BY <1>5, <2>1, <2>2, <2>4 DEF WaitsForIt, AsksAlone
    <2>5. ASSUME NEW w \in Write, WritesFirst(w) PROVE OfCanvas' /\ AsksAlone'
      <3>1. leaving'.at \in Waiting => leaving'.def.of = canvas
        BY <2>2, <2>5 DEF WritesFirst
      <3> QED
        BY <1>2, <1>3, <2>1, <2>5, <3>1, OneMoreOwn DEF WritesFirst, AsksAlone
    <2> QED
      BY <1>6, <2>3, <2>4, <2>5 DEF BackLink
  <1>7. ASSUME Closes PROVE OfCanvas' /\ AsksAlone'
    <2>1. UNCHANGED <<writes, leaving>>
      BY <1>7 DEF Closes
    <2> QED
      BY <1>2, <1>3, <1>5, <2>1 DEF AsksAlone, OfCanvas
  <1> QED
    BY <1>1, <1>4, <1>6, <1>7

LEMMA OwnStep ==
    ASSUME Fitting, Own, [EditorNext]_editorVars
    PROVE  Own'
  <1>1. ASSUME Writing PROVE Own'
    BY <1>1, SaveOwn, ApplyOwn, AnsweredByEnding, AnsweredOwn DEF Writing
  <1>2. CASE EditorNext
    BY <1>1, <1>2, EditingOwn, AskingOwn, RunningOwn, LeavingOwn DEF EditorNext
  <1>3. CASE UNCHANGED editorVars
    <2>1. UNCHANGED <<visit, presses, canvas, definition, current, history, writes, leaving,
                      ask, run, store>>
      BY <1>3 DEF editorVars
    <2> QED
      BY <2>1 DEF Own, OfCanvas, AsksAlone, OfRecord, Places
  <1> QED
    BY <1>2, <1>3

-----------------------------------------------------------------------------
(* Of who waits for answers and gets them, one write is on its way at a     *)
(* time, and what is called saved, run or left is on record.               *)

LEMMA InitCalm == EditorInit => Calm
  <1> SUFFICES ASSUME EditorInit PROVE Calm
    OBVIOUS
  <1> USE EditorConstants
  <1>1. /\ page = "here" /\ current = Null /\ ask = NoAsk /\ run = NotRunning /\ ran = Null
        /\ writes = [w \in Write |-> NoWrite]
        /\ store = [id \in RecordId |-> IF id \in Record THEN [of |-> id, rev |-> 0] ELSE Null]
    BY Zenon DEF EditorInit
  <1>2. \A n \in NewRecord : store[n] = Null
    BY <1>1, EditorAssumption
  <1>3. OneWrite
    BY <1>1 DEF OneWrite, NoWrite
  <1>4. OnRecord
    BY <1>1, <1>2 DEF OnRecord, NoAsk
  <1>5. RunsIt
    BY <1>1, EditorAssumption DEF RunsIt, NotRunning
  <1> QED
    BY <1>1, <1>3, <1>4, <1>5 DEF Calm, Left

(* What an edit does not touch. *)
LEMMA EditingCalm ==
    ASSUME Fitting, Own, Calm, Editing
    PROVE  Calm'
  <1> USE EditorConstants DEF Fitting
  <1>0. visit' = visit /\ page = "here" /\ page' = "here"
    BY DEF Editing, Edit, Undo, Redo, New, May
  <1> SUFFICES ASSUME visit = "calm" PROVE (OneWrite /\ OnRecord /\ RunsIt /\ Left)'
    BY <1>0 DEF Calm
  <1>1. OneWrite /\ OnRecord /\ RunsIt /\ OfCanvas /\ OfRecord
    BY DEF Calm, Own
  <1>2. Left'
    BY <1>0 DEF Left
  <1>3. ASSUME \/ Undo \/ Redo \/ \E rev \in Rev : Edit(rev)
        PROVE  (OneWrite /\ OnRecord /\ RunsIt)'
    <2>1. UNCHANGED <<page, canvas, current, savedJson, writes, saving, leaving, ask, run, ran, store>>
      BY <1>3 DEF Undo, Redo, Edit
    <2>2. OneWrite'
      BY <1>1, <2>1 DEF OneWrite
    <2>3. OnRecord'
      BY <1>1, <2>1 DEF OnRecord, Landed
    <2>4. RunsIt'
      BY <1>1, <2>1 DEF RunsIt
    <2> QED
      BY <2>2, <2>3, <2>4
  <1>4. ASSUME New PROVE (OneWrite /\ OnRecord /\ RunsIt)'
    <2>1. /\ Quiet /\ presses' = presses + 1 /\ canvas' = presses' /\ presses' \in 0..MaxNew
          /\ current' = Null
          /\ UNCHANGED <<writes, ask, run, ran, store>>
      BY <1>4 DEF New, May, Shapes
    <2>2. ask = NoAsk /\ run = NotRunning /\ \A w \in Write : writes[w].at = "none"
      BY <2>1 DEF Quiet
    <2>3. OneWrite'
      BY <2>1, <2>2 DEF OneWrite
    <2>4. \A n \in NewRecord : store[n] # Null => store[n].of # canvas'
      <3>1. presses' \notin Places
        BY <2>1 DEF Places, Shapes
      <3> QED
        BY <1>1, <2>1, <3>1 DEF OfRecord
    <2>5. OnRecord'
      BY <1>1, <2>1, <2>2, <2>4 DEF OnRecord, NoAsk
    <2>6. RunsIt'
      BY <1>1, <2>1, <2>2 DEF RunsIt, NotRunning
    <2> QED
      BY <2>3, <2>5, <2>6
  <1> QED
    BY <1>2, <1>3, <1>4 DEF Editing

LEMMA SaveCalm ==
    ASSUME Fitting, Calm, Save
    PROVE  Calm'
  <1> USE EditorConstants DEF Fitting
  <1>1. PICK w \in Write :
            /\ writes[w].at = "none" /\ writes' = [writes EXCEPT ![w] = Sent(current, definition)]
            /\ saving' = w
            /\ UNCHANGED <<visit, page, canvas, current, savedJson, leaving, ask, run, ran, store>>
    BY AFreeWrite DEF Save
  <1> SUFFICES ASSUME visit = "calm" PROVE (OneWrite /\ OnRecord /\ RunsIt /\ Left)'
    BY <1>1 DEF Calm
  <1>2. OneWrite /\ OnRecord /\ RunsIt /\ Left
    BY DEF Calm
  <1>3. page = "here" /\ run = NotRunning /\ \A v \in Write : writes[v].at = "none"
    BY DEF Save, May, Quiet
  <1>4. /\ writes'[w] = [at |-> "sent", id |-> current, def |-> definition]
        /\ \A v \in Write : v # w => writes'[v] = writes[v]
    BY <1>1 DEF Shapes, Sent
  <1>5. OneWrite'
    BY <1>1, <1>3, <1>4 DEF OneWrite, Underway
  <1>6. ~Landed /\ ~Landed'
    BY <1>3, <1>4 DEF Landed
  <1>7. OnRecord'
    BY <1>1, <1>2, <1>6 DEF OnRecord
  <1>8. RunsIt' /\ Left'
    BY <1>1, <1>2, <1>3 DEF RunsIt, NotRunning, Left
  <1> QED
    BY <1>5, <1>7, <1>8

LEMMA ApplyCalm ==
    ASSUME Fitting, Own, Calm, NEW w \in Write, Apply(w)
    PROVE  Calm'
  <1> USE EditorConstants DEF Fitting
  <1>1. PICK id \in RecordId :
               /\ store' = [store EXCEPT ![id] = writes[w].def]
               /\ writes[w].def \in Definition
               /\ writes[w].id # Null => id = writes[w].id
               /\ writes[w].id = Null => id \in NewRecord /\ store[id] = Null
               /\ \/ /\ writes[w].at = "orphan"
                     /\ writes' = [writes EXCEPT ![w] = NoWrite]
                  \/ /\ writes[w].at = "sent"
                     /\ writes' = [writes EXCEPT ![w] =
                                      [at |-> "applied", id |-> id, def |-> writes[w].def]]
               /\ UNCHANGED <<visit, page, presses, canvas, definition, current, savedJson,
                              history, undone, saving, leaving, ask, run, ran>>
    BY AppliedIs
  <1> SUFFICES ASSUME visit = "calm" PROVE (OneWrite /\ OnRecord /\ RunsIt /\ Left)'
    BY <1>1 DEF Calm
  <1>2. OneWrite /\ OnRecord /\ RunsIt /\ OfCanvas /\ AsksAlone /\ OfRecord
    BY DEF Calm, Own
  <1>3. /\ writes[w].at = "sent" /\ saving = w /\ page # "saved" /\ writes[w].id = current
        /\ writes[w].def.of = canvas
        /\ \A v \in Write : v # w => writes[v].at = "none"
    BY <1>1, <1>2 DEF OneWrite, Underway, OfCanvas
  <1>4. /\ writes'[w] = [at |-> "applied", id |-> id, def |-> writes[w].def]
        /\ \A v \in Write : v # w => writes'[v] = writes[v]
    BY <1>1, <1>3 DEF Shapes
  <1>5. /\ store'[id] = writes[w].def /\ store' \in [RecordId -> Picture]
        /\ \A n \in RecordId : n # id => store'[n] = store[n]
    BY <1>1 DEF Shapes, Picture
  <1>6. ~Landed /\ Landed'
    BY <1>3, <1>4 DEF Landed
  <1>7. OneWrite'
    BY <1>1, <1>3, <1>4, <1>5 DEF OneWrite, Underway
  <1>8. \A m, n \in NewRecord : m # n /\ store'[m] # Null /\ store'[n] # Null =>
            store'[m].of # store'[n].of
    <2>1. store'[id].of = canvas
      BY <1>3, <1>5
    <2>2. CASE current = Null
      <3>1. \A n \in NewRecord : store[n] # Null => store[n].of # canvas
        BY <1>2, <1>6, <2>2 DEF OnRecord
      <3> QED
        BY <1>2, <1>5, <2>1, <3>1 DEF OnRecord
    <2>3. CASE current # Null
      <3>1. id = current /\ store[id].of = canvas /\ store[id] # Null
        BY <1>1, <1>2, <1>3, <2>3 DEF OfCanvas, Known
      <3>2. \A n \in RecordId : store'[n] # Null =>
                store[n] # Null /\ store'[n].of = store[n].of
        BY <1>5, <2>1, <3>1
      <3>3. \A n \in NewRecord : n \in RecordId
        OBVIOUS
      <3> QED
        BY <1>2, <3>2, <3>3 DEF OnRecord
    <2> QED
      BY <2>2, <2>3
  <1>9. ask = NoAsk
    BY <1>2, <1>3 DEF AsksAlone
  <1>10. OnRecord'
    BY <1>1, <1>6, <1>8, <1>9 DEF OnRecord, NoAsk
  <1>11. RunsIt'
    <2>1. run.at \in {"sent", "executed"} => leaving.at = "own" /\ leaving.slot = w
      BY <1>2, <1>3 DEF RunsIt
    <2>2. run.at = "saving" =>
              /\ run.slot # 0 /\ writes'[run.slot].at \in Underway
              /\ writes'[run.slot].def = run.def
      <3>1. run.at = "saving" => run.slot = w
        BY <1>2, <1>3 DEF RunsIt, Underway, Shapes
      <3> QED
        BY <1>2, <1>4, <3>1 DEF RunsIt, Underway
    <2>3. ran' # "other"
      BY <1>1, <1>2 DEF RunsIt
    <2> QED
      BY <1>1, <1>3, <1>4, <2>1, <2>2, <2>3 DEF RunsIt, Waiting
  <1>12. Left'
    BY <1>1, <1>3 DEF Left
  <1> QED
    BY <1>7, <1>10, <1>11, <1>12

LEMMA StoredCalm ==
    ASSUME Fitting, Own, Calm, NEW w \in Write, Answered(w), Stored(w)
    PROVE  Calm'
  <1> USE EditorConstants DEF Fitting
  <1>1. /\ page = "here" /\ writes[w].at = "applied"
        /\ current' = writes[w].id /\ savedJson' = writes[w].def
        /\ UNCHANGED <<visit, canvas, ask, ran, store>>
    BY DEF Answered, Stored
  <1> SUFFICES ASSUME visit = "calm" PROVE (OneWrite /\ OnRecord /\ RunsIt /\ Left)'
    BY <1>1 DEF Calm
  <1>2. OneWrite /\ OnRecord /\ RunsIt /\ OfCanvas /\ AsksAlone /\ OfRecord
    BY DEF Calm, Own
  <1>3. /\ saving = w /\ store[writes[w].id] = writes[w].def /\ writes[w].id # Null
        /\ \A v \in Write : v # w => writes[v].at = "none"
    BY <1>1, <1>2 DEF OneWrite, Written
  <1>4. ask = NoAsk
    BY <1>1, <1>2 DEF AsksAlone
  <1>5. OnRecord'
    BY <1>1, <1>2, <1>3, <1>4 DEF OnRecord, NoAsk
  <1>6. Ran(w) =>
            /\ run'.at = "sent" /\ run'.id = writes[w].id /\ run'.def = run.def
            /\ run.def = writes[w].def
    <2>1. Ran(w) => run' = [run EXCEPT !.at = "sent", !.id = writes[w].id]
      BY DEF Stored
    <2>2. run \in [at : {"no", "saving", "sent", "executed"}, slot : Slots, id : Id, def : Picture]
      BY DEF Shapes
    <2>3. Ran(w) => run.def = writes[w].def
      BY <1>2 DEF RunsIt, Ran
    <2> QED
      BY <2>1, <2>2, <2>3
  <1>7. run.at = "saving" => Ran(w)
    BY <1>2, <1>3 DEF RunsIt, Ran, Shapes, Underway
  <1>8. run.at \in {"sent", "executed"} => leaving.at = "own" /\ leaving.slot = w
    BY <1>1, <1>2 DEF RunsIt
  <1>9. \/ Ran(w) /\ run'.at = "sent" /\ store[run'.id] = run'.def
        \/ ~Ran(w) /\ run' = run /\ run.at # "saving"
    BY <1>3, <1>6, <1>7 DEF Stored
  <1>10. ASSUME leaving.at = "inFlight", leaving.slot = w,
                writes' = [writes EXCEPT ![w] = Sent(writes[w].id, leaving.def)],
                saving' = w, leaving' = [leaving EXCEPT !.at = "own"], page' = "here"
         PROVE  (OneWrite /\ RunsIt /\ Left)'
    <2>1. /\ writes'[w] = [at |-> "sent", id |-> writes[w].id, def |-> leaving.def]
          /\ \A v \in Write : v # w => writes'[v] = writes[v]
      BY <1>10 DEF Shapes, Sent
    <2>2. OneWrite'
      BY <1>1, <1>3, <1>10, <2>1 DEF OneWrite, Underway
    <2>3. leaving'.at = "own" /\ leaving'.slot = w
      BY <1>10 DEF Shapes
    <2>4. \A v \in Write : writes'[v].at # "none" => v = w
      BY <1>3, <2>1
    <2>5. RunsIt'
      <3>1. ran' # "other"
        BY <1>1, <1>2 DEF RunsIt
      <3>2. ~(run.at \in {"sent", "executed"})
        BY <1>8, <1>10
      <3> QED
        BY <1>1, <1>9, <2>3, <2>4, <3>1, <3>2 DEF RunsIt
    <2> QED
      BY <1>10, <2>2, <2>5 DEF Left
  <1>11. ASSUME writes' = [writes EXCEPT ![w] = NoWrite], leaving' = leaving
         PROVE  OneWrite' /\ RunsIt'
    <2>1. \A v \in Write : writes'[v].at = "none"
      BY <1>3, <1>11 DEF Shapes, NoWrite
    <2>2. OneWrite'
      BY <2>1 DEF OneWrite
    <2>3. ran' # "other"
      BY <1>1, <1>2 DEF RunsIt
    <2>4. page' = "here" /\ run' = run /\ run.at = "sent" => store[run.id] = run.def
      <3>1. ASSUME page' = "here", run.at = "sent" PROVE FALSE
        <4>1. leaving.at = "own" /\ leaving.slot = w
          BY <1>8, <3>1
        <4> QED
          BY <1>11, <3>1, <4>1, Zenon DEF Stored
      <3> QED
        BY <3>1
    <2>5. run' = run /\ run.at = "sent" =>
              store[run.id] = run.def \/ (leaving.at \in Waiting /\ page' # "here")
      BY <1>8, <2>4 DEF Waiting
    <2> QED
      BY <1>1, <1>9, <1>11, <2>1, <2>2, <2>3, <2>5 DEF RunsIt
  <1>12. ASSUME writes' = [writes EXCEPT ![w] = NoWrite], leaving' = leaving, page' = "saved",
                leaving.at # "no", leaving.slot = w,
                leaving.at = "inFlight" => writes[w].def = leaving.def
         PROVE  Left'
    <2>1. leaving.def = writes[w].def
      BY <1>1, <1>12 DEF Departing, Waiting, Shapes
    <2> QED
      BY <1>1, <1>3, <1>12, <2>1 DEF Left
  <1>13. page' = "here" => Left'
    BY DEF Left
  <1> QED
    BY <1>5, <1>10, <1>11, <1>12, <1>13, Zenon DEF Stored

LEMMA NotStoredCalm ==
    ASSUME Fitting, Own, Calm, NEW w \in Write, Answered(w), NotStored(w)
    PROVE  Calm'
  <1> USE EditorConstants DEF Fitting
  <1>1. /\ page' = "here" /\ current' = current /\ savedJson' = savedJson
        /\ run' = IF Ran(w) THEN NotRunning ELSE run
        /\ UNCHANGED <<visit, canvas, ask, ran, store>>
    BY DEF Answered, NotStored
  <1> SUFFICES ASSUME visit = "calm" PROVE (OneWrite /\ OnRecord /\ RunsIt /\ Left)'
    BY <1>1 DEF Calm
  <1>2. OneWrite /\ OnRecord /\ RunsIt
    BY DEF Calm
  <1>3. writes[w].at = "sent" /\ writes' = [writes EXCEPT ![w] = NoWrite]
    BY DEF NotStored
  <1>4. saving = w /\ \A v \in Write : v # w => writes[v].at = "none"
    BY <1>2, <1>3 DEF OneWrite
  <1>5. \A v \in Write : writes'[v].at = "none"
    BY <1>3, <1>4 DEF Shapes, NoWrite
  <1>6. ~Landed /\ ~Landed'
    BY <1>3, <1>4, <1>5 DEF Landed
  <1>7. OneWrite' /\ Left'
    BY <1>1, <1>5 DEF OneWrite, Left
  <1>8. OnRecord'
    BY <1>1, <1>2, <1>6 DEF OnRecord
  <1>9. RunsIt'
    <2>1. run'.at # "saving"
      <3>1. run.at = "saving" => Ran(w)
        BY <1>2, <1>4 DEF RunsIt, Ran, Shapes, Underway
      <3> QED
        BY <1>1, <3>1 DEF NotRunning
    <2>2. run'.at = "sent" => store[run'.id] = run'.def
      <3>1. ASSUME run.at = "sent" PROVE store[run.id] = run.def
        <4>1. leaving.at = "own" /\ leaving.slot = w /\ page = "here"
          BY <1>2, <1>3, <3>1 DEF RunsIt, Answered
        <4> QED
          BY <1>2, <1>3, <3>1, <4>1 DEF RunsIt
      <3> QED
        BY <1>1, <3>1 DEF NotRunning
    <2> QED
      BY <1>1, <1>2, <1>5, <2>1, <2>2 DEF RunsIt
  <1> QED
    BY <1>7, <1>8, <1>9

LEMMA AskingCalm ==
    ASSUME Fitting, Own, Calm, Asking
    PROVE  Calm'
  <1> USE EditorConstants DEF Fitting
  <1>1. AskGoes \/ Replaces
    BY AskingDoes
  <1>2. UNCHANGED <<visit, page, writes, saving, leaving, run, ran, store>>
    BY <1>1 DEF AskGoes, Replaces
  <1> SUFFICES ASSUME visit = "calm" PROVE (OneWrite /\ OnRecord /\ RunsIt /\ Left)'
    BY <1>2 DEF Calm
  <1>3. OneWrite /\ OnRecord /\ RunsIt /\ Left /\ OfCanvas /\ AsksAlone /\ OfRecord
    BY DEF Calm, Own
  <1>4. RunsIt'
    BY <1>2, <1>3 DEF RunsIt
  <1>5. ASSUME AskGoes PROVE (OneWrite /\ OnRecord /\ Left)'
    <2>1. UNCHANGED <<canvas, current, savedJson>>
      BY <1>5 DEF AskGoes
    <2>2. ask'.got # Null => store[ask'.id] = ask'.got
      <3>1. CASE \E what \in {"open", "compile", "deploy"}, id \in RecordId : Begins(what, id)
        BY <3>1 DEF Begins
      <3>2. CASE Reopens
        BY <1>3, <3>2 DEF Reopens, OnRecord
      <3>3. CASE Reads
        BY <3>3 DEF Reads
      <3>4. CASE ask' = NoAsk
        BY <3>4 DEF NoAsk
      <3>5. CASE ask' = ask
        BY <1>3, <3>5 DEF OnRecord
      <3> QED
        BY <1>5, <3>1, <3>2, <3>3, <3>4, <3>5 DEF AskGoes
    <2>3. OneWrite' /\ Left'
      BY <1>2, <1>3, <2>1 DEF OneWrite, Left
    <2>4. OnRecord'
      BY <1>2, <1>3, <2>1, <2>2 DEF OnRecord, Landed
    <2> QED
      BY <2>3, <2>4
  <1>6. ASSUME Replaces PROVE (OneWrite /\ OnRecord /\ Left)'
    <2>1. /\ page = "here" /\ ask.got # Null /\ ask # NoAsk
          /\ current' = ask.id /\ savedJson' = ask.got /\ ask' = NoAsk
      BY <1>6 DEF Replaces, NoAsk
    <2>2. \A w \in Write : writes[w].at = "none"
      BY <1>3, <2>1 DEF AsksAlone
    <2>3. ask.id # Null /\ store[ask.id] = ask.got
      BY <1>3, <2>1 DEF Known, OnRecord
    <2>4. OneWrite' /\ Left'
      BY <1>2, <2>1, <2>2 DEF OneWrite, Left
    <2>5. OnRecord'
      BY <1>2, <1>3, <2>1, <2>2, <2>3 DEF OnRecord, NoAsk
    <2> QED
      BY <2>4, <2>5
  <1> QED
    BY <1>1, <1>4, <1>5, <1>6

LEMMA RunningCalm ==
    ASSUME Fitting, Own, Calm, Running
    PROVE  Calm'
  <1> USE EditorConstants DEF Fitting
  <1>1. RunBegins \/ RunGoes
    BY RunningDoes
  <1>2. UNCHANGED <<visit, page, canvas, current, savedJson, leaving, ask, store>>
    BY <1>1 DEF RunBegins, RunGoes
  <1> SUFFICES ASSUME visit = "calm" PROVE (OneWrite /\ OnRecord /\ RunsIt /\ Left)'
    BY <1>2 DEF Calm
  <1>3. OneWrite /\ OnRecord /\ RunsIt /\ Left
    BY DEF Calm
  <1>4. Left'
    BY <1>2, <1>3 DEF Left
  <1>5. ASSUME UNCHANGED <<writes, saving>> PROVE OneWrite' /\ OnRecord'
    <2>1. OneWrite'
      BY <1>2, <1>3, <1>5 DEF OneWrite
    <2>2. OnRecord'
      BY <1>2, <1>3, <1>5 DEF OnRecord, Landed
    <2> QED
      BY <2>1, <2>2
  <1>6. ASSUME RunBegins PROVE (OneWrite /\ OnRecord /\ RunsIt)'
    <2>1. /\ leaving = NotLeaving /\ ran' = ran
          /\ \A w \in Write : writes[w].at = "none"
      BY <1>6 DEF RunBegins, Quiet
    <2>2. CASE RunsAtOnce
      <3>1. current # Null /\ savedJson = definition /\ ~Landed
        BY <2>1, <2>2 DEF RunsAtOnce, NeedsSave, Landed
      <3>2. store[current] = definition
        BY <1>3, <3>1 DEF OnRecord
      <3>3. /\ run' = [at |-> "sent", slot |-> 0, id |-> current, def |-> definition]
            /\ UNCHANGED <<writes, saving>>
        BY <2>2 DEF RunsAtOnce
      <3>4. RunsIt'
        BY <1>2, <1>3, <2>1, <3>2, <3>3 DEF RunsIt
      <3> QED
        BY <1>5, <3>3, <3>4
    <2>3. ASSUME NEW w \in Write, RunsOnceSaved(w) PROVE (OneWrite /\ OnRecord /\ RunsIt)'
      <3>1. /\ writes'[w] = [at |-> "sent", id |-> current, def |-> definition]
            /\ \A v \in Write : v # w => writes'[v] = writes[v]
            /\ saving' = w
            /\ run' = [at |-> "saving", slot |-> w, id |-> Null, def |-> definition]
        BY <2>3 DEF RunsOnceSaved, Shapes, Sent
      <3>2. page # "saved"
        BY <1>6 DEF RunBegins
      <3>3. OneWrite'
        BY <1>2, <2>1, <3>1, <3>2 DEF OneWrite, Underway
      <3>4. ~Landed /\ ~Landed'
        BY <2>1, <3>1 DEF Landed
      <3>5. OnRecord'
        BY <1>2, <1>3, <3>4 DEF OnRecord
      <3>6. RunsIt'
        BY <1>2, <1>3, <2>1, <3>1 DEF RunsIt, Underway
      <3> QED
        BY <3>3, <3>5, <3>6
    <2> QED
      BY <1>6, <2>2, <2>3 DEF RunBegins
  <1>7. ASSUME RunGoes PROVE (OneWrite /\ OnRecord /\ RunsIt)'
    <2>1. UNCHANGED <<writes, saving>>
      BY <1>7 DEF RunGoes
    <2>2. CASE RunExecutes
      <3>1. /\ run.at = "sent" /\ run' = [run EXCEPT !.at = "executed"]
            /\ ran' = IF store[run.id] = run.def THEN "screen"
                      ELSE IF leaving # NotLeaving THEN "left" ELSE "other"
        BY <2>2 DEF RunExecutes
      <3>2. run'.at = "executed"
        BY <3>1 DEF Shapes
      <3>3. store[run.id] = run.def \/ leaving # NotLeaving
        BY <1>3, <3>1 DEF RunsIt, NotLeaving, Waiting
      <3>4. RunsIt'
        BY <1>2, <1>3, <2>1, <3>1, <3>2, <3>3 DEF RunsIt
      <3> QED
        BY <1>5, <2>1, <3>4
    <2>3. CASE run' = NotRunning /\ ran' = ran
      <3>1. RunsIt'
        BY <1>3, <2>3 DEF RunsIt, NotRunning
      <3> QED
        BY <1>5, <2>1, <3>1
    <2> QED
      BY <1>7, <2>2, <2>3 DEF RunGoes
  <1> QED
    BY <1>1, <1>4, <1>6, <1>7

LEMMA LeavingCalm ==
    ASSUME Fitting, Own, Calm, Leaving
    PROVE  Calm'
  <1> USE EditorConstants DEF Fitting
  <1>1. BackLink \/ Closes
    BY LeavingDoes
  <1>2. /\ page = "here"
        /\ UNCHANGED <<visit, canvas, definition, current, savedJson, ask, run, ran, store>>
    BY <1>1 DEF BackLink, Closes
  <1> SUFFICES ASSUME visit = "calm" PROVE (OneWrite /\ OnRecord /\ RunsIt /\ Left)'
    BY <1>2 DEF Calm
  <1>3. OneWrite /\ OnRecord /\ RunsIt
    BY DEF Calm
  <1>4. ASSUME UNCHANGED <<writes, saving>>, page' = "saved" => \A w \in Write : writes[w].at = "none"
        PROVE  OneWrite' /\ OnRecord'
    <2>1. OneWrite'
      BY <1>2, <1>3, <1>4 DEF OneWrite
    <2>2. OnRecord'
      BY <1>2, <1>3, <1>4 DEF OnRecord, Landed
    <2> QED
      BY <2>1, <2>2
  <1>5. saving = 0 => \A w \in Write : writes[w].at = "none"
    BY <1>3 DEF OneWrite
  <1>6. ASSUME BackLink, GoesBack PROVE (OneWrite /\ OnRecord /\ RunsIt /\ Left)'
    <2>1. /\ saving = 0 /\ (~Unsaved \/ definition = savedJson)
          /\ page' = "saved" /\ leaving' = [at |-> "link", slot |-> 0, def |-> definition]
          /\ leaving = NotLeaving
          /\ UNCHANGED <<writes, saving>>
      BY <1>6 DEF GoesBack, BackLink
    <2>2. ~Landed
      BY <1>5, <2>1 DEF Landed
    <2>3. Left'
      <3>1. CASE current = Null
        <4>1. savedJson = Null /\ definition # Null
          BY <3>1 DEF Known, Shapes
        <4> QED
          BY <1>2, <2>1, <3>1, <4>1 DEF Left, Unsaved, blankWorkflow
      <3>2. CASE current # Null
        <4>1. store[current] = savedJson
          BY <1>3, <2>2, <3>2 DEF OnRecord
        <4> QED
          BY <1>2, <2>1, <3>2, <4>1 DEF Left, Unsaved
      <3> QED
        BY <3>1, <3>2
    <2>4. RunsIt'
      BY <1>2, <1>3, <1>5, <2>1 DEF RunsIt, NotLeaving, Waiting
    <2> QED
      BY <1>4, <1>5, <2>1, <2>3, <2>4
  <1>7. ASSUME BackLink, WaitsForIt PROVE (OneWrite /\ OnRecord /\ RunsIt /\ Left)'
    <2>1. /\ saving # 0 /\ saving \in Write /\ leaving = NotLeaving
          /\ leaving' = [at |-> "inFlight", slot |-> saving, def |-> definition]
          /\ UNCHANGED <<page, writes, saving>>
      BY <1>7 DEF WaitsForIt, BackLink, Shapes
    <2>2. writes[saving].at # "none"
      BY <1>2, <2>1 DEF Registered, Underway
    <2>3. run.at \notin {"sent", "executed"}
      BY <1>3, <2>1, <2>2 DEF RunsIt, NotLeaving
    <2>4. RunsIt'
      BY <1>2, <1>3, <2>1, <2>3 DEF RunsIt
    <2> QED
      BY <1>2, <1>4, <2>1, <2>4 DEF Left
  <1>8. ASSUME BackLink, NEW w \in Write, WritesFirst(w)
        PROVE  (OneWrite /\ OnRecord /\ RunsIt /\ Left)'
    <2>1. /\ saving = 0 /\ leaving = NotLeaving /\ saving' = w
          /\ leaving' = [at |-> "own", slot |-> w, def |-> definition] /\ page' = page
      BY <1>8 DEF WritesFirst, BackLink
    <2>2. /\ writes'[w] = [at |-> "sent", id |-> current, def |-> definition]
          /\ \A v \in Write : v # w => writes'[v] = writes[v]
      BY <1>8 DEF WritesFirst, Shapes, Sent
    <2>3. \A v \in Write : writes[v].at = "none"
      BY <1>5, <2>1
    <2>4. OneWrite'
      BY <1>2, <2>1, <2>2, <2>3 DEF OneWrite, Underway
    <2>5. ~Landed /\ ~Landed'
      BY <2>2, <2>3 DEF Landed
    <2>6. OnRecord'
      BY <1>2, <1>3, <2>5 DEF OnRecord
    <2>7. run.at # "saving"
      BY <1>3, <2>3 DEF RunsIt, Underway, Shapes
    <2>8. run.at = "sent" => store[run.id] = run.def
      BY <1>3, <2>1 DEF RunsIt, NotLeaving, Waiting
    <2>9. RunsIt'
      BY <1>2, <1>3, <2>1, <2>2, <2>3, <2>7, <2>8 DEF RunsIt
    <2> QED
      BY <1>2, <2>1, <2>4, <2>6, <2>9 DEF Left
  <1>9. ASSUME Closes PROVE (OneWrite /\ OnRecord /\ RunsIt /\ Left)'
    <2>1. page' = "away" /\ UNCHANGED <<writes, saving, leaving>>
      BY <1>9 DEF Closes
    <2>2. RunsIt'
      BY <1>2, <1>3, <2>1 DEF RunsIt
    <2> QED
      BY <1>4, <2>1, <2>2 DEF Left
  <1> QED
    BY <1>1, <1>6, <1>7, <1>8, <1>9 DEF BackLink

LEMMA CalmStep ==
    ASSUME Fitting, Own, Calm, [EditorNext]_editorVars
    PROVE  Calm'
  <1>1. ASSUME NEW w \in Write, Saved(w) \/ NotSaved(w) PROVE Calm'
    <2>1. Answered(w)
      BY <1>1, AnsweredByEnding
    <2>2. Stored(w) \/ NotStored(w)
      BY <2>1 DEF Answered
    <2> QED
      BY <2>1, <2>2, StoredCalm, NotStoredCalm
  <1>2. ASSUME Writing PROVE Calm'
    BY <1>1, <1>2, SaveCalm, ApplyCalm DEF Writing
  <1>3. CASE EditorNext
    BY <1>2, <1>3, EditingCalm, AskingCalm, RunningCalm, LeavingCalm DEF EditorNext
  <1>4. CASE UNCHANGED editorVars
    <2>1. UNCHANGED <<visit, page, canvas, definition, current, savedJson, writes, saving, leaving,
                      ask, run, ran, store>>
      BY <1>4 DEF editorVars
    <2> QED
      BY <2>1 DEF Calm, OneWrite, OnRecord, Landed, RunsIt, Left
  <1> QED
    BY <1>3, <1>4

-----------------------------------------------------------------------------
(* The invariant holds at every step of the page.                          *)
THEOREM EditorIsInductive == EditorSpec => []EditorInv
  <1>1. EditorInit => EditorInv
    BY InitTyped, InitOwn, InitCalm DEF EditorInv
  <1>2. EditorInv /\ [EditorNext]_editorVars => EditorInv'
    BY TypedStep, OwnStep, CalmStep DEF EditorInv
  <1> QED
    BY <1>1, <1>2, PTL DEF EditorSpec

(* Every variable of the page keeps its shape, and the write registered as  *)
(* on its way is (saving.current, flushAndLeave).                          *)
LEMMA TypedGivesTypeOK == Fitting => EditorTypeOK
  <1> SUFFICES ASSUME Fitting PROVE EditorTypeOK
    OBVIOUS
  <1> USE EditorConstants DEF Fitting
  <1>1. Len(history) <= HISTORY
    <2>1. Len(history) \in Nat /\ Len(undone) \in Nat
      BY LenProperties DEF Shapes
    <2> QED
      BY <2>1 DEF Shapes
  <1>2. saving # 0 /\ page = "here" => writes[saving].at \in {"sent", "applied"}
    BY DEF Registered, Underway
  <1>3. leaving.at \in {"inFlight", "own"} /\ page = "here" =>
            writes[leaving.slot].at \in {"sent", "applied"}
    BY DEF Departing, Waiting, Underway
  <1> QED
    BY <1>1, <1>2, <1>3 DEF EditorTypeOK, Shapes, Picture, Id

(* The work is kept: nothing is called saved that is not, nothing is left   *)
(* behind by the back link, and no record is written over by another's, for *)
(* any number of records, presses of New, drawings and writes (persist,     *)
(* flushAndLeave).                                                         *)
THEOREM WorkIsKeptAlways == EditorSpec => []WorkIsKept
  <1>1. ASSUME EditorInv PROVE WorkIsKept
    <2> USE <1>1, EditorConstants DEF EditorInv, Fitting
    <2>1. EditorTypeOK
      BY TypedGivesTypeOK
    <2>2. SavedIsSaved
      <3> SUFFICES ASSUME visit = "calm", page = "here", Quiet, ~Unsaved
                   PROVE  IF current = Null THEN definition = blankWorkflow(canvas)
                          ELSE store[current] = definition
        BY DEF SavedIsSaved
      <3>1. ~Landed
        BY DEF Quiet, Landed
      <3> QED
        BY <3>1 DEF Unsaved, Calm, OnRecord
    <2>3. LeftWithTheWork
      BY DEF LeftWithTheWork, Calm, Left
    <2>4. EachCanvasItsRecord
      <3> SUFFICES ASSUME visit # "hurried"
                   PROVE  /\ \A id \in Record : store[id].of = id
                          /\ current # Null => store[current].of = canvas
                          /\ visit = "calm" =>
                                \A m, n \in NewRecord : m # n /\ store[m] # Null /\ store[n] # Null =>
                                    store[m].of # store[n].of
        BY DEF EachCanvasItsRecord
      <3> QED
        BY DEF Own, OfCanvas, OfRecord, Calm, OnRecord
    <2> QED
      BY <2>1, <2>2, <2>3, <2>4 DEF WorkIsKept
  <1> QED
    BY <1>1, EditorIsInductive, PTL

(* What a run executes is what was on screen when it was asked for, unless   *)
(* the page is being left and writes later edits first, whoever edits while *)
(* the save before it is on its way (run, persist).                        *)
THEOREM RunIsOfTheScreenAlways == EditorSpec => []RunIsOfTheScreen
  <1>1. EditorInv => RunIsOfTheScreen
    BY DEF EditorInv, Calm, RunsIt, RunIsOfTheScreen
  <1> QED
    BY <1>1, EditorIsInductive, PTL

(* No edit, undo or redo loses the drawing it replaces, for an undo stack of *)
(* any length (apply, undo, redo).                                         *)
THEOREM EditsCanBeTakenBackAlways == EditorSpec => EditsCanBeTakenBack
  <1> DEFINE Back ==
                 \/ history' # <<>> /\ Last(history') = definition
                 \/ undone' # <<>> /\ Last(undone') = definition
                 \/ history' = <<>> /\ definition' \in {ask.got, blankWorkflow(canvas')}
  <1>1. ASSUME EditorInv, [EditorNext]_editorVars PROVE [definition' # definition => Back]_editorVars
    <2> USE <1>1 DEF EditorInv, Fitting
    <2>1. ASSUME Editing PROVE Back
      <3>1. ASSUME NEW rev \in Rev, Edit(rev) PROVE Back
        <4>1. Len(history) \in Nat /\ Len(undone) \in Nat /\ Len(history) <= HISTORY
          BY LenProperties, EditorConstants DEF Shapes
        <4> QED
          BY <3>1, <4>1, OneMoreToUndo DEF Edit, Shapes
      <3>2. ASSUME Undo PROVE Back
        BY <3>2, AppendedIsLast DEF Undo, Shapes
      <3>3. ASSUME Redo PROVE Back
        BY <3>3, AppendedIsLast DEF Redo, Shapes
      <3>4. ASSUME New PROVE Back
        BY <3>4 DEF New
      <3> QED
        BY <2>1, <3>1, <3>2, <3>3, <3>4, Zenon DEF Editing
    <2>2. ASSUME Writing PROVE definition' = definition
      <3>1. ASSUME NEW w \in Write, Apply(w) PROVE definition' = definition
        BY <3>1, Zenon DEF Apply
      <3>2. ASSUME NEW w \in Write, Saved(w) \/ NotSaved(w) PROVE definition' = definition
        BY <3>2, AnsweredByEnding DEF Answered
      <3>3. ASSUME Save PROVE definition' = definition
        BY <3>3 DEF Save
      <3> QED
        BY <2>2, <3>1, <3>2, <3>3, Zenon DEF Writing
    <2>3. ASSUME Asking PROVE definition' = definition \/ Back
      <3>1. ASSUME AskGoes PROVE definition' = definition
        BY <3>1 DEF AskGoes
      <3>2. ASSUME Replaces PROVE Back
        BY <3>2 DEF Replaces
      <3> QED
        BY <2>3, <3>1, <3>2, AskingDoes
    <2>4. ASSUME Running PROVE definition' = definition
      BY <2>4, RunningDoes DEF RunBegins, RunGoes
    <2>5. ASSUME Leaving PROVE definition' = definition
      BY <2>5, LeavingDoes DEF BackLink, Closes
    <2>6. ASSUME UNCHANGED editorVars PROVE definition' = definition
      BY <2>6, Zenon DEF editorVars
    <2> HIDE DEF Back
    <2> QED
      BY <2>1, <2>2, <2>3, <2>4, <2>5, <2>6, Zenon DEF EditorNext
  <1> QED
    BY <1>1, EditorIsInductive, PTL DEF EditorSpec, EditsCanBeTakenBack

-----------------------------------------------------------------------------
(* The two canvases.  An id is a type and a number.                        *)

(* Counting tells whether ids are apart.                                   *)
LEMMA CountingIds ==
    ASSUME NEW S, IsFiniteSet(S)
    PROVE  LET I == {x.id : x \in S} IN
           /\ IsFiniteSet(I) /\ Cardinality(I) <= Cardinality(S)
           /\ Cardinality(I) = Cardinality(S) <=> \A a, b \in S : a.id = b.id => a = b
  <1> DEFINE I == {x.id : x \in S}
             f == [x \in S |-> x.id]
  <1>1. f \in Surjection(S, I)
    BY DEF Surjection
  <1>2. f \in Injection(S, I) <=> \A a, b \in S : a.id = b.id => a = b
    BY <1>1 DEF Injection, Surjection, IsInjective
  <1> HIDE DEF f
  <1> QED
    BY <1>1, <1>2, FS_Surjection

(* A set of naturals that is not empty has a least element.                *)
LEMMA MinIsLeast ==
    ASSUME NEW S \in SUBSET Nat, S # {}
    PROVE  Min(S) \in S /\ \A n \in S : Min(S) <= n
  <1> DEFINE R == {p \in Nat \X Nat : p[1] < p[2]}
  <1>1. IsWellFoundedOn(R, Nat)
    BY NatLessThanWellFounded DEF OpToRel
  <1>2. PICK m \in S : \A n \in S : ~(<<n, m>> \in R)
    <2> HIDE DEF R
    <2> QED
      BY <1>1, WFMin
  <1>3. ASSUME NEW n \in S
        PROVE  m <= n
    <2>1. n \in Nat /\ m \in Nat
      OBVIOUS
    <2>2. n < m => <<n, m>> \in R
      BY <2>1, Zenon
    <2> QED
      BY <1>2, <2>1, <2>2
  <1>4. \E x \in S : \A y \in S : x <= y
    BY <1>3
  <1> QED
    BY <1>4 DEF Min

(* Of one more numbers than there are ids one is free. *)
LEMMA AFreeNumber ==
    ASSUME NEW type, NEW I, IsFiniteSet(I), NEW c \in Nat, Cardinality(I) <= c
    PROVE  LET n == Min({k \in 1..c + 1 : <<type, k>> \notin I})
           IN  n \in Nat \ {0} /\ <<type, n>> \notin I
  <1> DEFINE free == {k \in 1..c + 1 : <<type, k>> \notin I}
             f == [k \in 1..c + 1 |-> <<type, k>>]
  <1>1. free \in SUBSET Nat
    OBVIOUS
  <1>2. ASSUME free = {} PROVE FALSE
    <2>1. f \in [1..c + 1 -> I]
      BY <1>2
    <2>2. IsFiniteSet(1..c + 1) /\ Cardinality(1..c + 1) = c + 1
      BY FS_Interval
    <2>3. Cardinality(I) < Cardinality(1..c + 1)
      BY <2>2, FS_CardinalityType
    <2> HIDE DEF f
    <2>4. PICK x, y \in 1..c + 1 : x # y /\ f[x] = f[y]
      BY <2>1, <2>2, <2>3, FS_PigeonHole
    <2> QED
      BY <2>4 DEF f
  <1>3. Min(free) \in free
    BY <1>1, <1>2, MinIsLeast
  <1> QED
    BY <1>3

-----------------------------------------------------------------------------
(* The public sketchpad.                                                   *)

(* The sketches that hold together, ids apart rather than counted.         *)
Whole ==
    {s \in Sketches :
        /\ IsFiniteSet(s.steps)
        /\ \A a, b \in s.steps : a.id = b.id => a = b
        /\ \A edge \in s.edges :
              /\ edge.target \in Ids(s.steps) /\ CanBeTarget(edge.target)
              /\ edge.source \in Ids(s.steps) \/ visitor = "hasty"
              /\ edge.branch \in Handles(edge.source) /\ edge.source # edge.target}

InHand ==
    /\ visitor \in {"tidy", "hasty"} /\ sketch \in Whole /\ edits \in Nat
    /\ past \in Seq(Whole) /\ future \in Seq(Whole)
    /\ Len(past) + Len(future) <= HISTORY_LIMIT

Begun ==
    linking # NotLinking =>
        /\ linking.source \in StepId /\ linking.branch \in Handles(linking.source)
        /\ visitor = "tidy" => linking.source \in Ids(sketch.steps)

SketchInv == InHand /\ Begun

LEMMA WholeIsSound ==
    ASSUME NEW s \in Sketches, IsFiniteSet(s.steps)
    PROVE  s \in Whole <=> Sound(s)
  <1>1. Cardinality(Ids(s.steps)) = Cardinality(s.steps)
            <=> \A a, b \in s.steps : a.id = b.id => a = b
    BY CountingIds DEF Ids
  <1> QED
    BY <1>1 DEF Whole, Sound, SoundFor

LEMMA HandlesAreBranches ==
    ASSUME NEW id \in StepId PROVE Handles(id) \subseteq Branch
  <1>1. TypeOf(id) \in Block
    BY DEF StepId, TypeOf
  <1> QED
    BY <1>1, Zenon DEF Handles, Branch

(* One more sketch to undo, and at most so many.                           *)
LEMMA Kept ==
    ASSUME NEW D, NEW steps \in Seq(D), NEW s \in D
    PROVE  LET kept == Keep(steps, s)
               n == Len(kept)
           IN  /\ kept \in Seq(D) /\ n \in Nat \ {0} /\ kept[n] = s
               /\ Len(steps) <= HISTORY_LIMIT => n <= HISTORY_LIMIT
               /\ Len(steps) > 0 => n > 1 /\ kept[n - 1] = steps[Len(steps)]
  <1> DEFINE all == Append(steps, s)
             n == Len(steps)
  <1>1. /\ all \in Seq(D) /\ Len(all) = n + 1 /\ n \in Nat
        /\ all[n + 1] = s /\ (n > 0 => all[n] = steps[n])
    BY AppendProperties
  <1>2. HISTORY_LIMIT \in Nat /\ HISTORY_LIMIT > 1
    BY SketchAssumption
  <1>3. CASE n + 1 <= HISTORY_LIMIT
    <2>1. Keep(steps, s) = all
      BY <1>1, <1>2, <1>3 DEF Keep
    <2> HIDE DEF all
    <2>2. n + 1 - 1 = n /\ n + 1 \in Nat \ {0} /\ (n > 0 => n + 1 > 1)
      BY <1>1
    <2> QED
      BY <1>1, <1>3, <2>1, <2>2
  <1>4. CASE n + 1 > HISTORY_LIMIT
    <2>1. Keep(steps, s) = Tail(all)
      BY <1>1, <1>2, <1>4 DEF Keep
    <2> HIDE DEF all
    <2>2. Tail(all) \in Seq(D) /\ Len(Tail(all)) = n
      BY <1>1
    <2>3. n > 1 /\ \A i \in 1..n : Tail(all)[i] = all[i + 1]
      BY <1>1, <1>2, <1>4
    <2>4. n \in 1..n /\ n - 1 \in 1..n /\ n - 1 + 1 = n
      BY <1>1, <2>3
    <2>5. Tail(all)[n] = s /\ Tail(all)[n - 1] = all[n]
      BY <1>1, <2>3, <2>4
    <2> QED
      BY <1>1, <1>2, <1>4, <2>1, <2>2, <2>3, <2>5
  <1> QED
    BY <1>1, <1>2, <1>3, <1>4

LEMMA InitInHand == SketchInit => SketchInv
  <1> SUFFICES ASSUME SketchInit PROVE SketchInv
    OBVIOUS
  <1>1. visitor \in {"tidy", "hasty"} /\ linking = NotLinking /\ edits \in Nat
    BY SketchAssumption DEF SketchInit
  <1>2. sketch \in Sketches /\ IsFiniteSet(sketch.steps) /\ Sound(sketch)
    BY SeedAssumption DEF SketchInit, Sound, SoundFor
  <1>3. past = <<>> /\ future = <<>> /\ HISTORY_LIMIT \in Nat
    BY SketchAssumption DEF SketchInit
  <1> QED
    BY <1>1, <1>2, <1>3, WholeIsSound DEF SketchInv, InHand, Begun

(* Who visits does not change, so neither does what holds together. *)
LEMMA SameVisitor ==
    ASSUME visitor' = visitor PROVE Whole' = Whole
  BY DEF Whole

(* A change: what is drawn is replaced, what was drawn can be undone.      *)
LEMMA Changed ==
    ASSUME InHand, NEW next \in Whole, Commit(next), visitor' = visitor
    PROVE  InHand' /\ sketch' = next
  <1>1. Whole' = Whole
    BY SameVisitor
  <1>2. sketch' = next /\ edits' \in Nat /\ visitor' \in {"tidy", "hasty"}
    BY DEF InHand, Commit
  <1>3. CASE next = sketch
    BY <1>1, <1>2, <1>3 DEF InHand, Commit
  <1>4. CASE next # sketch
    <2>1. past' = Keep(past, sketch) /\ future' = <<>>
      BY <1>4 DEF Commit
    <2>2. past' \in Seq(Whole) /\ Len(past') <= HISTORY_LIMIT /\ Len(past') \in Nat
      <3>1. Len(past) \in Nat /\ Len(future) \in Nat /\ Len(past) <= HISTORY_LIMIT
        BY SketchAssumption DEF InHand
      <3> QED
        BY <2>1, <3>1, Kept DEF InHand
    <2>3. future' \in Seq(Whole) /\ Len(future') = 0
      BY <2>1
    <2> QED
      BY <1>1, <1>2, <2>2, <2>3 DEF InHand
  <1> QED
    BY <1>3, <1>4

(* An edit to a label is not undone.                                       *)
LEMMA Amended ==
    ASSUME InHand, NEW next \in Whole, Amend(next), visitor' = visitor
    PROVE  InHand' /\ sketch' = next /\ linking' = linking
  BY SameVisitor DEF InHand, Amend

(* A connection begun stays where it began. *)
LEMMA StillBegun ==
    ASSUME Begun, linking' \in {linking, NotLinking}, visitor' = visitor,
           visitor = "tidy" /\ linking' # NotLinking
               => (linking.source \in Ids(sketch.steps) => linking.source \in Ids(sketch'.steps))
    PROVE  Begun'
  BY DEF Begun

-----------------------------------------------------------------------------
(* What a change makes of a sketch that holds together.                    *)

LEMMA WithAStep ==
    ASSUME InHand, NEW type \in Block
    PROVE  LET next == [sketch EXCEPT !.steps = @ \cup {Step(NextStepId(type, sketch.steps))}]
           IN  next \in Whole /\ Ids(sketch.steps) \subseteq Ids(next.steps)
  <1> DEFINE S == sketch.steps
             id == NextStepId(type, S)
             next == [sketch EXCEPT !.steps = @ \cup {Step(id)}]
  <1>1. sketch \in Sketches /\ IsFiniteSet(S)
    BY DEF InHand, Whole
  <1>2. IsFiniteSet(Ids(S)) /\ Cardinality(Ids(S)) <= Cardinality(S) /\ Cardinality(S) \in Nat
    BY <1>1, CountingIds, FS_CardinalityType DEF Ids
  <1>3. id \in StepId /\ id \notin Ids(S)
    BY <1>2, AFreeNumber DEF NextStepId, StepId
  <1> HIDE DEF id
  <1>4. Step(id) \in [id : StepId, named : BOOLEAN, moved : BOOLEAN] /\ Step(id).id = id
    BY <1>3 DEF Step
  <1>5. /\ next \in Sketches /\ next.steps = S \cup {Step(id)} /\ next.edges = sketch.edges
    BY <1>1, <1>4 DEF Sketches
  <1>6. IsFiniteSet(next.steps)
    BY <1>1, <1>5, FS_AddElement
  <1> HIDE DEF next
  <1>7. Ids(S) \subseteq Ids(next.steps)
    BY <1>5 DEF Ids
  <1>8. \A a, b \in next.steps : a.id = b.id => a = b
    BY <1>3, <1>4, <1>5 DEF Ids, InHand, Whole
  <1>9. next \in Whole
    BY <1>5, <1>6, <1>7, <1>8 DEF Whole, InHand
  <1> QED
    BY <1>7, <1>9 DEF next, id

LEMMA WithoutSteps ==
    ASSUME NEW s \in Whole, NEW ids
    PROVE  /\ Without(s, ids) \in Whole
           /\ Ids(Without(s, ids).steps) = Ids(s.steps) \ ids
  <1> DEFINE steps == {step \in s.steps : step.id \notin ids}
             joining == {edge \in s.edges : ~Touching(edge, ids)}
             next == Without(s, ids)
  <1>1. s \in Sketches /\ IsFiniteSet(s.steps)
    BY DEF Whole
  <1>2. next = [s EXCEPT !.steps = steps, !.edges = joining]
    BY Zenon DEF Without
  <1>3. next \in Sketches /\ next.steps = steps /\ next.edges = joining
    BY <1>1, <1>2 DEF Sketches
  <1> HIDE DEF next
  <1>4. IsFiniteSet(steps)
    BY <1>1, FS_Subset
  <1>5. Ids(steps) = Ids(s.steps) \ ids
    BY DEF Ids
  <1>6. next \in Whole
    BY <1>3, <1>4, <1>5 DEF Whole, Touching
  <1> QED
    BY <1>3, <1>5, <1>6 DEF next

LEMMA WithFewerEdges ==
    ASSUME NEW s \in Whole, NEW gone
    PROVE  [s EXCEPT !.edges = @ \ gone] \in Whole
  <1> DEFINE next == [s EXCEPT !.edges = @ \ gone]
  <1>1. next \in Sketches /\ next.steps = s.steps /\ next.edges = s.edges \ gone
    BY DEF Whole, Sketches
  <1> HIDE DEF next
  <1>2. next \in Whole
    BY <1>1 DEF Whole
  <1> QED
    BY <1>2 DEF next

LEMMA WithAChangedStep ==
    ASSUME NEW s \in Whole, NEW old \in s.steps,
           NEW new \in [id : StepId, named : BOOLEAN, moved : BOOLEAN], new.id = old.id
    PROVE  LET next == [s EXCEPT !.steps = (@ \ {old}) \cup {new}]
           IN  next \in Whole /\ Ids(next.steps) = Ids(s.steps)
  <1> DEFINE next == [s EXCEPT !.steps = (@ \ {old}) \cup {new}]
  <1>1. s \in Sketches /\ IsFiniteSet(s.steps)
    BY DEF Whole
  <1>2. /\ next \in Sketches /\ next.steps = (s.steps \ {old}) \cup {new}
        /\ next.edges = s.edges
    BY <1>1 DEF Sketches
  <1> HIDE DEF next
  <1>3. IsFiniteSet(next.steps)
    <2>1. IsFiniteSet(s.steps \ {old})
      BY <1>1, FS_RemoveElement
    <2> QED
      BY <1>2, <2>1, FS_AddElement
  <1>4. Ids(next.steps) = Ids(s.steps)
    BY <1>2 DEF Ids
  <1>5. \A a, b \in next.steps : a.id = b.id => a = b
    BY <1>2 DEF Whole
  <1>6. next \in Whole
    BY <1>2, <1>3, <1>4, <1>5 DEF Whole
  <1> QED
    BY <1>4, <1>6 DEF next

LEMMA WithVariables ==
    ASSUME NEW s \in Whole, NEW vs \in SUBSET [id : Nat, named : BOOLEAN]
    PROVE  LET next == [s EXCEPT !.variables = vs]
           IN  next \in Whole /\ next.steps = s.steps /\ next.edges = s.edges /\ next.variables = vs
  <1> DEFINE next == [s EXCEPT !.variables = vs]
  <1>1. next \in Sketches /\ next.steps = s.steps /\ next.edges = s.edges /\ next.variables = vs
    BY DEF Whole, Sketches
  <1> HIDE DEF next
  <1>2. next \in Whole
    BY <1>1 DEF Whole
  <1> QED
    BY <1>1, <1>2 DEF next

LEMMA WithAnEdge ==
    ASSUME InHand, NEW source \in StepId, NEW target \in StepId, NEW branch \in Handles(source),
           CanBeTarget(target), source # target,
           source \in Ids(sketch.steps) \/ visitor = "hasty"
    PROVE  /\ Connected(source, target, branch) \in Whole
           /\ Connected(source, target, branch).steps = sketch.steps
  <1> DEFINE edge == [source |-> source, target |-> target, branch |-> branch]
             next == [sketch EXCEPT !.edges = @ \cup {edge}]
  <1>1. CASE target \notin Ids(sketch.steps)
    BY <1>1 DEF Connected, InHand
  <1>2. CASE target \in Ids(sketch.steps)
    <2>1. Connected(source, target, branch) = next
      BY <1>2 DEF Connected
    <2>2. edge \in [source : StepId, target : StepId, branch : Branch]
      BY HandlesAreBranches
    <2>3. sketch \in Sketches
      BY DEF InHand, Whole
    <2>4. /\ next \in Sketches /\ next.steps = sketch.steps
          /\ next.edges = sketch.edges \cup {edge}
      BY <2>2, <2>3 DEF Sketches
    <2>5. edge.source = source /\ edge.target = target /\ edge.branch = branch
      OBVIOUS
    <2> HIDE DEF next, edge
    <2>6. next \in Whole
      BY <1>2, <2>4, <2>5 DEF Whole, InHand
    <2> QED
      BY <2>1, <2>4, <2>6
  <1> QED
    BY <1>1, <1>2

-----------------------------------------------------------------------------
(* Each step of the sketchpad.                                             *)

StepT == [id : StepId, named : BOOLEAN, moved : BOOLEAN]

LEMMA CardsKeep ==
    ASSUME SketchInv, OnTheCards
    PROVE  SketchInv'
  <1> USE DEF SketchInv
  <1>1. sketch \in Whole /\ sketch \in Sketches /\ sketch.steps \subseteq StepT
    BY DEF InHand, Whole, Sketches, StepT
  <1>2. PICK step \in sketch.steps :
            RemoveStep(step.id) \/ RenameStep(step) \/ StartLink(step.id) \/ CompleteLink(step.id)
    BY DEF OnTheCards
  <1>3. step \in StepT /\ step.id \in StepId /\ step.id \in Ids(sketch.steps)
    BY <1>1 DEF StepT, Ids
  <1>4. CASE RemoveStep(step.id)
    <2>1. InHand' /\ sketch' = Without(sketch, {step.id})
      BY <1>1, <1>4, WithoutSteps, Changed DEF RemoveStep
    <2>2. Ids(sketch'.steps) = Ids(sketch.steps) \ {step.id}
      BY <1>1, <2>1, WithoutSteps
    <2> QED
      BY <1>4, <2>1, <2>2, StillBegun DEF RemoveStep
  <1>5. CASE RenameStep(step)
    <2> DEFINE new == [step EXCEPT !.named = ~@]
               next == [sketch EXCEPT !.steps = (@ \ {step}) \cup {new}]
    <2>1. new \in StepT /\ new.id = step.id
      BY <1>3 DEF StepT
    <2> HIDE DEF new
    <2>2. next \in Whole /\ Ids(next.steps) = Ids(sketch.steps)
      BY <1>1, <2>1, WithAChangedStep DEF StepT
    <2>3. Amend(next) /\ visitor' = visitor
      BY <1>5 DEF RenameStep, new
    <2> HIDE DEF next
    <2> QED
      BY <2>2, <2>3, Amended, StillBegun
  <1>6. CASE StartLink(step.id)
    <2>1. /\ UNCHANGED <<visitor, sketch, past, future, edits>>
          /\ linking'.source = step.id /\ linking'.branch \in Handles(step.id)
      BY <1>6 DEF StartLink
    <2>2. InHand'
      BY <2>1, SameVisitor DEF InHand
    <2> QED
      BY <1>3, <2>1, <2>2 DEF Begun
  <1>7. CASE CompleteLink(step.id)
    <2>1. /\ linking # NotLinking /\ step.id # linking.source /\ CanBeTarget(step.id)
          /\ Commit(Connected(linking.source, step.id, linking.branch))
          /\ linking' = NotLinking /\ visitor' = visitor
      BY <1>7 DEF CompleteLink
    <2>2. /\ linking.source \in StepId /\ linking.branch \in Handles(linking.source)
          /\ linking.source \in Ids(sketch.steps) \/ visitor = "hasty"
      BY <2>1 DEF Begun, InHand
    <2>3. Connected(linking.source, step.id, linking.branch) \in Whole
      BY <1>3, <2>1, <2>2, WithAnEdge
    <2> QED
      BY <2>1, <2>3, Changed DEF Begun
  <1> QED
    BY <1>2, <1>4, <1>5, <1>6, <1>7

(* Undo and redo, and Delete, find nothing begun unless the visitor is hasty. *)
LEMMA FreeKeepsBegun ==
    ASSUME SketchInv, Free, linking' = linking, visitor' = visitor
    PROVE  Begun'
  BY DEF Free, SketchInv, Begun, InHand

LEMMA UndoRedoKeep ==
    ASSUME SketchInv, SketchUndo \/ SketchRedo
    PROVE  SketchInv'
  <1> USE DEF SketchInv
  <1>1. /\ Whole' = Whole /\ Begun' /\ visitor' \in {"tidy", "hasty"} /\ edits' \in Nat
    BY SameVisitor, FreeKeepsBegun DEF SketchUndo, SketchRedo, InHand
  <1>2. sketch \in Whole /\ past \in Seq(Whole) /\ future \in Seq(Whole)
    BY DEF InHand
  <1>3. Len(past) \in Nat /\ Len(future) \in Nat /\ Len(past) + Len(future) <= HISTORY_LIMIT
    BY <1>2 DEF InHand
  <1>4. CASE SketchUndo
    <2>1. /\ past # <<>> /\ sketch' = Last(past) /\ past' = Front(past)
          /\ future' = <<sketch>> \o future
      BY <1>4 DEF SketchUndo
    <2>2. sketch' \in Whole /\ past' \in Seq(Whole) /\ Len(past') = Len(past) - 1
      <3>1. Len(past) > 0
        BY <1>2, <2>1, EmptySeq
      <3> QED
        BY <1>2, <2>1, <3>1 DEF Last, Front
    <2>3. future' \in Seq(Whole) /\ Len(future') = 1 + Len(future)
      BY <1>2, <2>1
    <2> QED
      BY <1>1, <1>3, <2>2, <2>3 DEF InHand
  <1>5. CASE SketchRedo
    <2>1. /\ future # <<>> /\ sketch' = Head(future) /\ future' = Tail(future)
          /\ past' = Append(past, sketch)
      BY <1>5 DEF SketchRedo
    <2>2. sketch' \in Whole /\ future' \in Seq(Whole) /\ Len(future') = Len(future) - 1
      BY <1>2, <2>1
    <2>3. past' \in Seq(Whole) /\ Len(past') = Len(past) + 1
      BY <1>2, <2>1
    <2> QED
      BY <1>1, <1>3, <2>2, <2>3 DEF InHand
  <1> QED
    BY <1>4, <1>5

(* What one press of Delete leaves, and what it may leave in between.      *)
LEMMA Deleted ==
    ASSUME SketchInv, NEW ids, NEW es, Delete(ids, es)
    PROVE  /\ sketch' \in Whole /\ future' = <<>> /\ edits' \in Nat
           /\ visitor' = visitor /\ linking' = linking /\ Free
           /\ \/ past' = Keep(past, sketch)
              \/ \E first \in Whole : past' = Keep(Keep(past, sketch), first)
  <1> DEFINE gone == es \cup {edge \in sketch.edges : Touching(edge, ids)}
             done == [Without(sketch, ids) EXCEPT !.edges = @ \ gone]
  <1>1. sketch \in Whole
    BY DEF SketchInv, InHand
  <1>2. /\ Without(sketch, ids) \in Whole /\ [sketch EXCEPT !.edges = @ \ gone] \in Whole
        /\ done \in Whole
    BY <1>1, WithoutSteps, WithFewerEdges
  <1>3. PICK first \in {[sketch EXCEPT !.edges = @ \ gone], Without(sketch, ids)} :
            /\ sketch' = done
            /\ past' = IF first \in {sketch, done} THEN Keep(past, sketch)
                       ELSE Keep(Keep(past, sketch), first)
    BY Zenon DEF Delete
  <1>4. first \in Whole /\ sketch' \in Whole
    BY <1>2, <1>3
  <1>5. /\ Free /\ edits' = edits + 1 /\ future' = <<>> /\ visitor' = visitor
        /\ linking' = linking
    BY DEF Delete
  <1> HIDE DEF gone, done
  <1> QED
    BY <1>3, <1>4, <1>5 DEF SketchInv, InHand

LEMMA DeleteKeeps ==
    ASSUME SketchInv, NEW ids, NEW es, Delete(ids, es)
    PROVE  SketchInv'
  <1>1. /\ sketch' \in Whole /\ future' = <<>> /\ edits' \in Nat
        /\ visitor' = visitor /\ linking' = linking /\ Free
        /\ \/ past' = Keep(past, sketch)
           \/ \E first \in Whole : past' = Keep(Keep(past, sketch), first)
    BY Deleted
  <1>2. /\ sketch \in Whole /\ past \in Seq(Whole) /\ Len(past) <= HISTORY_LIMIT
    <2>1. Len(past) \in Nat /\ Len(future) \in Nat /\ HISTORY_LIMIT \in Nat
      BY SketchAssumption DEF SketchInv, InHand
    <2> QED
      BY <2>1 DEF SketchInv, InHand
  <1>3. Keep(past, sketch) \in Seq(Whole) /\ Len(Keep(past, sketch)) <= HISTORY_LIMIT
    BY <1>2, Kept
  <1>4. past' \in Seq(Whole) /\ Len(past') <= HISTORY_LIMIT
    <2> DEFINE kept == Keep(past, sketch)
    <2>1. \A first \in Whole : /\ Keep(kept, first) \in Seq(Whole)
                              /\ Len(Keep(kept, first)) <= HISTORY_LIMIT
      <3> HIDE DEF kept
      <3> QED
        BY <1>3, Kept DEF kept
    <2> QED
      BY <1>1, <1>3, <2>1
  <1>5. future' \in Seq(Whole) /\ Len(past') + Len(future') <= HISTORY_LIMIT
    BY <1>1, <1>4
  <1>6. InHand'
    BY <1>1, <1>4, <1>5, SameVisitor DEF SketchInv, InHand
  <1> QED
    BY <1>1, <1>6, FreeKeepsBegun DEF SketchInv

LEMMA CanvasKeeps ==
    ASSUME SketchInv, OnTheCanvas
    PROVE  SketchInv'
  <1> USE DEF SketchInv
  <1>1. sketch \in Whole /\ sketch.steps \subseteq StepT
    BY DEF InHand, Whole, Sketches, StepT
  <1>2. ASSUME NEW step \in sketch.steps, MoveStep(step)
        PROVE  SketchInv'
    <2> DEFINE new == [step EXCEPT !.moved = ~@]
               next == [sketch EXCEPT !.steps = (@ \ {step}) \cup {new}]
    <2>1. new \in StepT /\ new.id = step.id
      BY <1>1 DEF StepT
    <2> HIDE DEF new
    <2>2. next \in Whole /\ Ids(next.steps) = Ids(sketch.steps)
      BY <1>1, <2>1, WithAChangedStep DEF StepT
    <2>3. Commit(next) /\ visitor' = visitor /\ linking' = linking
      BY <1>2 DEF MoveStep, new
    <2> HIDE DEF next
    <2> QED
      BY <2>2, <2>3, Changed, StillBegun
  <1>3. ASSUME NEW source \in Ids(sketch.steps), NEW target \in Ids(sketch.steps),
               Connect(source, target)
        PROVE  SketchInv'
    <2>1. source \in StepId /\ target \in StepId
      BY <1>1 DEF StepT, Ids
    <2>2. PICK branch \in Handles(source) :
              /\ Connected(source, target, branch) # sketch
              /\ Commit(Connected(source, target, branch))
      BY <1>3 DEF Connect
    <2>3. CanBeTarget(target) /\ source # target /\ visitor' = visitor /\ linking' = linking
      BY <1>3, <2>2 DEF Connect, Connected
    <2>4. /\ Connected(source, target, branch) \in Whole
          /\ Connected(source, target, branch).steps = sketch.steps
      BY <2>1, <2>3, WithAnEdge
    <2> QED
      BY <2>2, <2>3, <2>4, Changed, StillBegun
  <1> QED
    BY <1>2, <1>3, UndoRedoKeep, DeleteKeeps, Zenon DEF OnTheCanvas

LEMMA PanelKeeps ==
    ASSUME SketchInv, InThePanel
    PROVE  SketchInv'
  <1> USE DEF SketchInv
  <1> DEFINE V == [id : Nat, named : BOOLEAN]
             With(vs) == [sketch EXCEPT !.variables = vs]
  <1>1. sketch \in Whole /\ sketch.variables \subseteq V /\ edits \in Nat
    BY DEF InHand, Whole, Sketches
  <1>2. ASSUME NEW vs \in SUBSET V
        PROVE  With(vs) \in Whole /\ With(vs).steps = sketch.steps
    BY <1>1, WithVariables
  <1>3. ASSUME NEW vs \in SUBSET V, Commit(With(vs)), visitor' = visitor, linking' = linking
        PROVE  SketchInv'
    <2> HIDE DEF With
    <2> QED
      BY <1>2, <1>3, Changed, StillBegun
  <1>4. CASE AddVariable
    <2> DEFINE vs == sketch.variables \cup {[id |-> edits + 1, named |-> FALSE]}
    <2>1. vs \in SUBSET V
      <3>1. edits + 1 \in Nat
        BY <1>1
      <3>2. [id |-> edits + 1, named |-> FALSE] \in V
        BY <3>1
      <3> QED
        BY <1>1, <3>2, Zenon
    <2>2. Commit(With(vs)) /\ visitor' = visitor /\ linking' = linking
      BY <1>4 DEF AddVariable
    <2> HIDE DEF vs, With
    <2> QED
      BY <1>3, <2>1, <2>2
  <1>5. ASSUME NEW variable \in sketch.variables, ChangeVariable(variable)
        PROVE  SketchInv'
    <2> DEFINE vs == (sketch.variables \ {variable}) \cup {[variable EXCEPT !.named = ~@]}
    <2>1. vs \in SUBSET V
      BY <1>1
    <2>2. Amend(With(vs)) /\ visitor' = visitor
      BY <1>5 DEF ChangeVariable
    <2> HIDE DEF vs
    <2>3. With(vs) \in Whole /\ With(vs).steps = sketch.steps
      BY <1>2, <2>1
    <2> HIDE DEF With
    <2> QED
      BY <2>2, <2>3, Amended, StillBegun
  <1>6. ASSUME NEW variable \in sketch.variables, RemoveVariable(variable)
        PROVE  SketchInv'
    BY <1>1, <1>3, <1>6 DEF RemoveVariable
  <1> QED
    BY <1>4, <1>5, <1>6 DEF InThePanel

LEMMA OthersKeep ==
    ASSUME SketchInv, OnTheRail \/ InTheList \/ CancelLink \/ StartOver
    PROVE  SketchInv'
  <1> USE DEF SketchInv
  <1>1. ASSUME NEW type \in Block, AddBlock(type)
        PROVE  SketchInv'
    BY <1>1, WithAStep, Changed, StillBegun DEF AddBlock
  <1>2. ASSUME NEW edge \in sketch.edges, RemoveEdge(edge)
        PROVE  SketchInv'
    <2> DEFINE next == [sketch EXCEPT !.edges = @ \ {edge}]
    <2>1. sketch \in Whole /\ sketch \in Sketches
      BY DEF InHand, Whole
    <2>2. next \in Whole /\ next.steps = sketch.steps
      BY <2>1, WithFewerEdges DEF Sketches
    <2>3. Commit(next) /\ visitor' = visitor /\ linking' = linking
      BY <1>2 DEF RemoveEdge
    <2> HIDE DEF next
    <2> QED
      BY <2>2, <2>3, Changed, StillBegun
  <1>3. CASE CancelLink
    BY <1>3, SameVisitor DEF CancelLink, InHand, Begun
  <1>4. CASE StartOver
    <2>1. /\ sketch' = seedSketch /\ past' = Keep(past, sketch) /\ future' = <<>>
          /\ linking' = NotLinking /\ visitor' = visitor /\ edits' = edits + 1
      BY <1>4 DEF StartOver
    <2>2. seedSketch \in Whole
      <3>1. Sound(seedSketch)
        BY SeedAssumption DEF Sound, SoundFor
      <3> QED
        BY <3>1, SeedAssumption, WholeIsSound
    <2>3. sketch \in Whole /\ past \in Seq(Whole) /\ Len(past) <= HISTORY_LIMIT
      <3>1. Len(past) \in Nat /\ Len(future) \in Nat /\ HISTORY_LIMIT \in Nat
        BY SketchAssumption DEF InHand
      <3> QED
        BY <3>1 DEF InHand
    <2>4. past' \in Seq(Whole) /\ Len(past') <= HISTORY_LIMIT
      BY <2>1, <2>3, Kept
    <2>5. future' \in Seq(Whole) /\ Len(past') + Len(future') <= HISTORY_LIMIT
      BY <2>1, <2>4
    <2> QED
      BY <2>1, <2>2, <2>4, <2>5, SameVisitor DEF InHand, Begun
  <1> QED
    BY <1>1, <1>2, <1>3, <1>4 DEF OnTheRail, InTheList

LEMMA SketchStep ==
    ASSUME SketchInv, [SketchNext]_sketchVars
    PROVE  SketchInv'
  <1>1. CASE UNCHANGED sketchVars
    BY <1>1, SameVisitor DEF sketchVars, SketchInv, InHand, Begun
  <1> QED
    BY <1>1, CardsKeep, CanvasKeeps, PanelKeeps, OthersKeep DEF SketchNext

(* The sketchpad's invariant is that what is drawn is sound. *)
LEMMA InHandIsSound == SketchInv => SketchIsSound
  <1> SUFFICES ASSUME SketchInv PROVE SketchIsSound
    OBVIOUS
  <1>1. \A s \in Whole : Sound(s)
    BY WholeIsSound DEF Whole
  <1>2. \A s \in ToSet(past) \cup ToSet(future) : s \in Whole
    BY DEF ToSet, SketchInv, InHand
  <1>3. linking # NotLinking /\ visitor = "tidy" => linking.source \in Ids(sketch.steps)
    BY DEF SketchInv, Begun
  <1> QED
    BY <1>1, <1>2, <1>3 DEF SketchInv, InHand, SketchIsSound

-----------------------------------------------------------------------------
(* The Studio's canvas.                                                    *)

Fit(ns, es) ==
    /\ ns \in SUBSET Node /\ IsFiniteSet(ns)
    /\ \A a, b \in ns : a.id = b.id => a = b
    /\ es \in SUBSET Edge
    /\ \A edge \in es :
          /\ edge.source \in NodeIds(ns) /\ edge.target \in NodeIds(ns)
          /\ edge.source # edge.target /\ TargetHandle(edge.target)
          /\ edge.branch # "" <=> isBranching(edge.source)

Drafts == {d \in [nodes : SUBSET Node, edges : SUBSET Edge] : Fit(d.nodes, d.edges)}

CanvasInv ==
    /\ Fit(nodes, edges)
    /\ undoable \in Seq(Drafts) /\ redoable \in Seq(Drafts)
    /\ field # Nothing => selectedId \in NodeIds(nodes)

LEMMA FitIsCoherent ==
    ASSUME NEW ns \in SUBSET Node, NEW es \in SUBSET Edge, IsFiniteSet(ns)
    PROVE  Fit(ns, es) <=> Coherent(ns, es)
  <1>1. Cardinality(NodeIds(ns)) = Cardinality(ns) <=> \A a, b \in ns : a.id = b.id => a = b
    BY CountingIds DEF NodeIds
  <1> QED
    BY <1>1, Zenon DEF Fit, Coherent

LEMMA DraftsFit ==
    ASSUME NEW ns, NEW es, Fit(ns, es)
    PROVE  Definitions(ns, es) \in Drafts
  <1> DEFINE d == Definitions(ns, es)
  <1>1. d.nodes = ns /\ d.edges = es /\ d \in [nodes : SUBSET Node, edges : SUBSET Edge]
    BY DEF Definitions, Fit
  <1> HIDE DEF d
  <1>2. d \in Drafts
    BY <1>1 DEF Drafts
  <1> QED
    BY <1>2 DEF d

LEMMA Reseeding ==
    ASSUME NEW ns, NEW id
    PROVE  Reseeded(ns, id) # Nothing => id \in NodeIds(ns)
  BY Zenon DEF Reseeded

LEMMA TheNode ==
    ASSUME NEW ns, Fit(ns, {}), NEW id \in NodeIds(ns)
    PROVE  NodeOf(ns, id) \in ns /\ NodeOf(ns, id) \in Node /\ NodeOf(ns, id).id = id
           /\ id \in NodeId
  BY DEF NodeOf, NodeIds, Fit, Node

(* With more nodes, or fewer edges, a drawing still fits. *)
LEMMA FitWithNode ==
    ASSUME NEW ns, NEW es, Fit(ns, es), NEW node \in Node, node.id \notin NodeIds(ns)
    PROVE  Fit(ns \cup {node}, es)
  <1>1. IsFiniteSet(ns \cup {node})
    BY FS_AddElement DEF Fit
  <1>2. NodeIds(ns) \subseteq NodeIds(ns \cup {node})
    BY DEF NodeIds
  <1>3. \A a, b \in ns \cup {node} : a.id = b.id => a = b
    BY DEF Fit, NodeIds
  <1> QED
    BY <1>1, <1>2, <1>3, Zenon DEF Fit

LEMMA FewerFit ==
    ASSUME NEW ns, NEW es, Fit(ns, es), NEW fewer \in SUBSET es
    PROVE  Fit(ns, fewer)
  BY Zenon DEF Fit

LEMMA FitWithout ==
    ASSUME NEW ids, Fit(nodes, edges)
    PROVE  Fit(WithoutNodes(ids), WithoutEnds(ids))
  <1> DEFINE ns == WithoutNodes(ids)
             es == WithoutEnds(ids)
  <1>1. ns \in SUBSET nodes /\ es \in SUBSET edges
    BY DEF WithoutNodes, WithoutEnds
  <1>2. IsFiniteSet(ns)
    BY <1>1, FS_Subset DEF Fit
  <1>3. \A id \in NodeIds(nodes) : id \notin ids => id \in NodeIds(ns)
    BY DEF NodeIds, WithoutNodes
  <1>4. \A edge \in es : edge.source \notin ids /\ edge.target \notin ids
    BY DEF WithoutEnds
  <1> HIDE DEF ns, es
  <1>5. \A edge \in es : edge.source \in NodeIds(ns) /\ edge.target \in NodeIds(ns)
    BY <1>1, <1>3, <1>4 DEF Fit
  <1>6. Fit(ns, es)
    BY <1>1, <1>2, <1>5, Zenon DEF Fit
  <1> QED
    BY <1>6 DEF ns, es

LEMMA FitWithConfig ==
    ASSUME NEW ns, NEW es, Fit(ns, es), NEW old \in ns, NEW new \in Node, new.id = old.id
    PROVE  Fit((ns \ {old}) \cup {new}, es)
  <1> DEFINE next == (ns \ {old}) \cup {new}
  <1>1. IsFiniteSet(next)
    <2>1. IsFiniteSet(ns \ {old})
      BY FS_RemoveElement DEF Fit
    <2> QED
      BY <2>1, FS_AddElement
  <1>2. NodeIds(next) = NodeIds(ns)
    BY DEF NodeIds
  <1>3. \A a, b \in next : a.id = b.id => a = b
    BY DEF Fit
  <1>4. next \in SUBSET Node
    BY DEF Fit
  <1> HIDE DEF next
  <1>5. Fit(next, es)
    BY <1>1, <1>2, <1>3, <1>4, Zenon DEF Fit
  <1> QED
    BY <1>5 DEF next

(* A handle has a name exactly when it is one of a diamond's. *)
LEMMA HandlesTell ==
    ASSUME NEW node \in Node, NEW branch \in SourceHandles(node)
    PROVE  /\ branch \in {"", "true", "false"} \cup UNION Labels
           /\ branch # "" <=> isBranching(node.id)
  <1>1. node.config \in Labels \/ node.config = {}
    BY DEF Node
  <1>2. \A label \in node.config : label # "" /\ label \in UNION Labels
    BY <1>1, CanvasAssumption, Zenon
  <1>3. CASE isBranching(node.id)
    <2>1. branch \in branchesOf(node)
      BY <1>3, Zenon DEF SourceHandles
    <2>2. CASE Type(node.id) = "condition"
      <3>1. branch \in {"true", "false"}
        BY <2>1, <2>2, Zenon DEF branchesOf
      <3>2. branch # ""
        BY <3>1, Zenon
      <3> QED
        BY <1>3, <3>1, <3>2, Zenon
    <2>3. CASE Type(node.id) = "router"
      <3>1. "condition" # "router"
        BY Zenon
      <3>2. branchesOf(node) = node.config
        BY <2>3, <3>1, Zenon DEF branchesOf
      <3> QED
        BY <1>2, <1>3, <2>1, <3>2, Zenon
    <2> QED
      BY <1>3, <2>2, <2>3, Zenon DEF isBranching
  <1>4. CASE ~isBranching(node.id)
    <2>1. branch = ""
      BY <1>4, Zenon DEF SourceHandles
    <2> QED
      BY <1>4, <2>1, Zenon
  <1> QED
    BY <1>3, <1>4

LEMMA NextNodeIdIsFree ==
    ASSUME NEW type \in {"input", "agent", "condition", "router", "output"},
           NEW ns, Fit(ns, {})
    PROVE  nextNodeId(type, ns) \in NodeId /\ nextNodeId(type, ns) \notin NodeIds(ns)
  <1>1. /\ IsFiniteSet(NodeIds(ns)) /\ Cardinality(NodeIds(ns)) <= Cardinality(ns)
        /\ Cardinality(ns) \in Nat
    BY CountingIds, FS_CardinalityType DEF NodeIds, Fit
  <1>2. PICK n : n = Min({k \in 1..Cardinality(ns) + 1 : <<type, k>> \notin NodeIds(ns)})
    OBVIOUS
  <1>3. n \in Nat \ {0} /\ <<type, n>> \notin NodeIds(ns)
    BY <1>1, <1>2, AFreeNumber
  <1>4. nextNodeId(type, ns) = <<type, n>>
    BY <1>2 DEF nextNodeId
  <1> QED
    BY <1>3, <1>4 DEF NodeId

-----------------------------------------------------------------------------
(* Each step of the canvas.                                                *)

LEMMA CanvasStarts == CanvasInit => CanvasInv
  <1> SUFFICES ASSUME CanvasInit PROVE CanvasInv
    OBVIOUS
  <1>1. nodes = opened.nodes /\ edges = opened.edges /\ undoable = <<>> /\ redoable = <<>>
        /\ field = Nothing
    BY DEF CanvasInit
  <1>2. Fit(nodes, edges)
    BY <1>1, OpenedAssumption, FitIsCoherent
  <1> QED
    BY <1>1, <1>2 DEF CanvasInv

LEMMA AppliedKeeps ==
    ASSUME CanvasInv, NEW ns, NEW es, Fit(ns, es), Applied(ns, es),
           field' # Nothing => selectedId' \in NodeIds(ns)
    PROVE  CanvasInv'
  <1>1. /\ nodes' = ns /\ edges' = es /\ redoable' = <<>>
        /\ undoable' = Append(undoable, Definitions(nodes, edges))
    BY DEF Applied
  <1>2. Definitions(nodes, edges) \in Drafts
    BY DraftsFit DEF CanvasInv
  <1> QED
    BY <1>1, <1>2 DEF CanvasInv

LEMMA UndoneKeeps ==
    ASSUME CanvasInv, undo \/ redo
    PROVE  CanvasInv'
  <1>1. Definitions(nodes, edges) \in Drafts
    BY DraftsFit DEF CanvasInv
  <1>2. undoable \in Seq(Drafts) /\ redoable \in Seq(Drafts)
    BY DEF CanvasInv
  <1>3. \A d \in Drafts : Fit(d.nodes, d.edges)
    BY DEF Drafts
  <1>4. field' # Nothing => selectedId' \in NodeIds(nodes')
    BY Reseeding DEF undo, redo
  <1>5. ASSUME NEW s \in Seq(Drafts), s # <<>>
        PROVE  Last(s) \in Drafts /\ Front(s) \in Seq(Drafts)
    <2>1. Len(s) \in Nat /\ Len(s) > 0
      BY <1>5, EmptySeq
    <2> QED
      BY <2>1 DEF Last, Front
  <1>6. CASE undo
    BY <1>1, <1>2, <1>3, <1>4, <1>5, <1>6 DEF undo, CanvasInv
  <1>7. CASE redo
    BY <1>1, <1>2, <1>3, <1>4, <1>5, <1>7 DEF redo, CanvasInv
  <1> QED
    BY <1>6, <1>7

LEMMA AddingKeeps ==
    ASSUME CanvasInv, InTheLibrary
    PROVE  CanvasInv'
  <1>1. PICK type \in NodeType : addNode(type)
    BY DEF InTheLibrary
  <1> DEFINE id == nextNodeId(type, nodes)
             node == [id |-> id, config |-> defaultConfig(type)]
  <1>2. Fit(nodes, edges) /\ Fit(nodes, {})
    BY FewerFit DEF CanvasInv
  <1>3. id \in NodeId /\ id \notin NodeIds(nodes)
    BY <1>2, CanvasAssumption, NextNodeIdIsFree
  <1>4. defaultConfig(type) \in Labels \cup {{}}
    BY CanvasAssumption DEF defaultConfig
  <1>5. Applied(nodes \cup {node}, edges) /\ Show(id)
    BY <1>1 DEF addNode
  <1> HIDE DEF id
  <1>6. node \in Node /\ node.id = id
    BY <1>3, <1>4 DEF Node
  <1> HIDE DEF node
  <1>7. Fit(nodes \cup {node}, edges)
    BY <1>2, <1>3, <1>6, FitWithNode
  <1>8. field' # Nothing => selectedId' \in NodeIds(nodes \cup {node})
    BY <1>5, Reseeding DEF Show, Applied
  <1> QED
    BY <1>5, <1>7, <1>8, AppliedKeeps

LEMMA SettingsKeep ==
    ASSUME CanvasInv, InTheSettings
    PROVE  CanvasInv'
  <1>1. Fit(nodes, edges) /\ Fit(nodes, {})
    BY FewerFit DEF CanvasInv
  <1>2. ASSUME NEW labels \in Labels, updateConfig(labels)
        PROVE  CanvasInv'
    <2> DEFINE old == NodeOf(nodes, selectedId)
               new == [old EXCEPT !.config = labels]
    <2>1. selectedId \in NodeIds(nodes) /\ field # Nothing
      BY <1>2 DEF updateConfig, CanvasInv
    <2>2. old \in nodes /\ old \in Node /\ old.id = selectedId
      BY <1>1, <2>1, TheNode
    <2>3. Applied((nodes \ {old}) \cup {new}, edges) /\ selectedId' = selectedId
      BY <1>2 DEF updateConfig
    <2> HIDE DEF old
    <2>4. new \in Node /\ new.id = old.id
      BY <2>2 DEF Node
    <2> HIDE DEF new
    <2>5. Fit((nodes \ {old}) \cup {new}, edges)
      BY <1>1, <2>2, <2>4, FitWithConfig
    <2>6. selectedId \in NodeIds((nodes \ {old}) \cup {new})
      BY <2>2, <2>4 DEF NodeIds
    <2> QED
      BY <2>3, <2>5, <2>6, AppliedKeeps
  <1>3. ASSUME NEW original \in NodeIds(nodes), duplicateNode(original)
        PROVE  CanvasInv'
    <2> DEFINE id == nextNodeId(Type(original), nodes)
               node == [NodeOf(nodes, original) EXCEPT !.id = id]
    <2>1. NodeOf(nodes, original) \in Node /\ original \in NodeId
      BY <1>1, TheNode
    <2>2. Type(original) \in {"input", "agent", "condition", "router", "output"}
      BY <2>1 DEF Type, NodeId
    <2>3. id \in NodeId /\ id \notin NodeIds(nodes)
      BY <1>1, <2>2, NextNodeIdIsFree
    <2>4. Applied(nodes \cup {node}, edges) /\ Show(id)
      BY <1>3 DEF duplicateNode
    <2> HIDE DEF id
    <2>5. node \in Node /\ node.id = id
      BY <2>1, <2>3 DEF Node
    <2> HIDE DEF node
    <2>6. Fit(nodes \cup {node}, edges)
      BY <1>1, <2>3, <2>5, FitWithNode
    <2>7. field' # Nothing => selectedId' \in NodeIds(nodes \cup {node})
      BY <2>4, Reseeding DEF Show, Applied
    <2> QED
      BY <2>4, <2>6, <2>7, AppliedKeeps
  <1>4. ASSUME NEW id \in NodeIds(nodes), removeNode(id)
        PROVE  CanvasInv'
    <2>1. Applied(WithoutNodes({id}), WithoutEnds({id})) /\ Show(Nothing)
      BY <1>4 DEF removeNode
    <2>2. Fit(WithoutNodes({id}), WithoutEnds({id}))
      BY <1>1, FitWithout
    <2>3. field' # Nothing => selectedId' \in NodeIds(WithoutNodes({id}))
      BY <2>1, Reseeding DEF Show, Applied
    <2> QED
      BY <2>1, <2>2, <2>3, AppliedKeeps
  <1> QED
    BY <1>2, <1>3, <1>4 DEF InTheSettings

LEMMA DrawingKeeps ==
    ASSUME CanvasInv, OnTheStudioCanvas
    PROVE  CanvasInv'
  <1>1. Fit(nodes, edges) /\ Fit(nodes, {})
    BY FewerFit DEF CanvasInv
  <1>2. ASSUME NEW id, onSelect(id)
        PROVE  CanvasInv'
    BY <1>2, Reseeding DEF onSelect, Show, CanvasInv
  <1>3. ASSUME NEW source \in NodeIds(nodes), NEW target \in NodeIds(nodes),
               handleConnect(source, target)
        PROVE  CanvasInv'
    <2>1. NodeOf(nodes, source) \in Node /\ NodeOf(nodes, source).id = source
          /\ source \in NodeId /\ target \in NodeId
      BY <1>1, TheNode
    <2>2. PICK branch \in SourceHandles(NodeOf(nodes, source)) :
              Applied(nodes, edges \cup {[source |-> source, target |-> target, branch |-> branch]})
      BY <1>3 DEF handleConnect
    <2> DEFINE edge == [source |-> source, target |-> target, branch |-> branch]
    <2>3. /\ source # target /\ TargetHandle(target)
          /\ selectedId' = selectedId /\ field' = field
      BY <1>3 DEF handleConnect
    <2>4. /\ branch \in {"", "true", "false"} \cup UNION Labels
          /\ branch # "" <=> isBranching(source)
      BY <2>1, HandlesTell
    <2>5. edge \in Edge
      BY <2>1, <2>4, Zenon DEF Edge
    <2>6. edge.source = source /\ edge.target = target /\ edge.branch = branch
      OBVIOUS
    <2> HIDE DEF edge
    <2>7. Fit(nodes, edges \cup {edge})
      <3>1. edges \cup {edge} \in SUBSET Edge
        BY <1>1, <2>5 DEF Fit
      <3>2. ASSUME NEW e \in edges \cup {edge}
            PROVE  /\ e.source \in NodeIds(nodes) /\ e.target \in NodeIds(nodes)
                   /\ e.source # e.target /\ TargetHandle(e.target)
                   /\ e.branch # "" <=> isBranching(e.source)
        <4>1. CASE e \in edges
          BY <1>1, <4>1, Zenon DEF Fit
        <4>2. CASE e = edge
          BY <2>3, <2>4, <2>6, <4>2, Zenon
        <4> QED
          BY <4>1, <4>2
      <3> QED
        BY <1>1, <3>1, <3>2, Zenon DEF Fit
    <2>8. field' # Nothing => selectedId' \in NodeIds(nodes)
      BY <2>3 DEF CanvasInv
    <2> QED
      BY <2>2, <2>7, <2>8, AppliedKeeps DEF edge
  <1>4. ASSUME NEW ids, NEW es, handleRemove(ids, es)
        PROVE  CanvasInv'
    <2> DEFINE was == Definitions(nodes, edges)
               twice == ids # {} /\ (es # {} \/ WithoutEnds(ids) # edges)
    <2>1. /\ nodes' = WithoutNodes(ids) /\ redoable' = <<>>
          /\ edges' = IF ids = {} THEN edges \ es ELSE WithoutEnds(ids)
          /\ undoable' = undoable \o (IF twice THEN <<was, was>> ELSE <<was>>)
          /\ field' = Reseeded(nodes', selectedId) /\ selectedId' = selectedId
      BY <1>4, Zenon DEF handleRemove
    <2>2. was \in Drafts
      BY <1>1, DraftsFit
    <2>3. <<was, was>> \in Seq(Drafts) /\ <<was>> \in Seq(Drafts)
      BY <2>2
    <2>4. undoable' \in Seq(Drafts)
      <3>1. undoable \in Seq(Drafts)
        BY DEF CanvasInv
      <3>2. (IF twice THEN <<was, was>> ELSE <<was>>) \in Seq(Drafts)
        BY <2>3, Zenon
      <3> HIDE DEF was, twice
      <3> QED
        BY <2>1, <3>1, <3>2, ConcatProperties
    <2>5. Fit(nodes', edges')
      <3>1. CASE ids = {}
        <4>1. nodes' = nodes /\ edges' \in SUBSET edges
          BY <2>1, <3>1 DEF WithoutNodes
        <4> QED
          BY <1>1, <4>1, FewerFit
      <3>2. CASE ids # {}
        BY <1>1, <2>1, <3>2, FitWithout
      <3> QED
        BY <3>1, <3>2
    <2>6. field' # Nothing => selectedId' \in NodeIds(nodes')
      BY <2>1, Reseeding
    <2> QED
      BY <2>1, <2>4, <2>5, <2>6 DEF CanvasInv
  <1> QED
    BY <1>2, <1>3, <1>4, Zenon DEF OnTheStudioCanvas

LEMMA CanvasStep ==
    ASSUME CanvasInv, [CanvasNext]_canvasVars
    PROVE  CanvasInv'
  <1>1. CASE UNCHANGED canvasVars
    BY <1>1 DEF canvasVars, CanvasInv
  <1> QED
    BY <1>1, UndoneKeeps, AddingKeeps, SettingsKeep, DrawingKeeps DEF CanvasNext

-----------------------------------------------------------------------------

(* What is drawn on both canvases holds together, whatever is added, moved,  *)
(* connected, renamed, deleted, undone and redone, and in whatever order:   *)
(* no two steps share an id, and a connection joins steps that are there by *)
(* handles they have (AgentBuilder, BuilderCanvas, and Canvas of the       *)
(* Studio).                                                                *)
THEOREM DrawingsAreSoundAlways == Spec => []DrawingsAreSound
  <1>1. Init => SketchInv /\ CanvasInv
    BY InitInHand, CanvasStarts DEF Init
  <1>2. (SketchInv /\ CanvasInv) /\ [Next]_vars => (SketchInv /\ CanvasInv)'
    <2> SUFFICES ASSUME SketchInv, CanvasInv, [Next]_vars
                 PROVE  SketchInv' /\ CanvasInv'
      OBVIOUS
    <2>1. [SketchNext]_sketchVars /\ [CanvasNext]_canvasVars
      BY Zenon DEF Next, vars
    <2> QED
      BY <2>1, SketchStep, CanvasStep
  <1>3. SketchInv /\ CanvasInv => DrawingsAreSound
    <2> SUFFICES ASSUME SketchInv, CanvasInv
                 PROVE  DrawingsAreSound
      OBVIOUS
    <2>1. CanvasIsSound
      BY FitIsCoherent DEF CanvasInv, CanvasIsSound, Fit
    <2> QED
      BY <2>1, InHandIsSound DEF DrawingsAreSound
  <1> QED
    BY <1>1, <1>2, <1>3, PTL DEF Spec

-----------------------------------------------------------------------------
(* Nothing drawn in the sketchpad is lost to one press.                    *)

LEMMA LabelsAreNotDrawn ==
    ASSUME SketchInv, NEW next, Amend(next),
           \/ \E step \in sketch.steps :
                 next = [sketch EXCEPT !.steps = (@ \ {step}) \cup {[step EXCEPT !.named = ~@]}]
           \/ \E variable \in sketch.variables :
                 next = [sketch EXCEPT !.variables =
                            (@ \ {variable}) \cup {[variable EXCEPT !.named = ~@]}]
    PROVE  Drawing(sketch') = Drawing(sketch)
  <1> DEFINE Plain(step) == [step EXCEPT !.named = FALSE]
  <1>1. sketch \in Sketches /\ sketch' = next
    BY DEF SketchInv, InHand, Whole, Amend
  <1>2. CASE \E step \in sketch.steps :
                 next = [sketch EXCEPT !.steps = (@ \ {step}) \cup {[step EXCEPT !.named = ~@]}]
    <2>1. PICK step \in sketch.steps :
              next = [sketch EXCEPT !.steps = (@ \ {step}) \cup {[step EXCEPT !.named = ~@]}]
      BY <1>2
    <2> DEFINE new == [step EXCEPT !.named = ~@]
    <2>2. step \in [id : StepId, named : BOOLEAN, moved : BOOLEAN]
      BY <1>1 DEF Sketches
    <2>3. Plain(new) = Plain(step)
      BY <2>2
    <2> HIDE DEF new
    <2>4. /\ next.steps = (sketch.steps \ {step}) \cup {new}
          /\ next.edges = sketch.edges /\ next.variables = sketch.variables
      BY <1>1, <2>1 DEF Sketches, new
    <2> HIDE DEF Plain
    <2>5. {Plain(s) : s \in next.steps} = {Plain(s) : s \in sketch.steps}
      BY <2>3, <2>4
    <2> QED
      BY <1>1, <2>4, <2>5, Zenon DEF Drawing, Plain
  <1>3. CASE \E variable \in sketch.variables :
                 next = [sketch EXCEPT !.variables =
                            (@ \ {variable}) \cup {[variable EXCEPT !.named = ~@]}]
    <2>1. PICK variable \in sketch.variables :
              next = [sketch EXCEPT !.variables =
                         (@ \ {variable}) \cup {[variable EXCEPT !.named = ~@]}]
      BY <1>3
    <2> DEFINE new == [variable EXCEPT !.named = ~@]
    <2>2. new.id = variable.id
      BY <1>1 DEF Sketches
    <2> HIDE DEF new
    <2>3. /\ next.variables = (sketch.variables \ {variable}) \cup {new}
          /\ next.edges = sketch.edges /\ next.steps = sketch.steps
      BY <1>1, <2>1 DEF Sketches, new
    <2>4. {v.id : v \in next.variables} = {v.id : v \in sketch.variables}
      BY <2>2, <2>3
    <2> QED
      BY <1>1, <2>3, <2>4, Zenon DEF Drawing
  <1> QED
    BY <1>2, <1>3

(* Whatever a change of the sketchpad replaced is at most two undos or one  *)
(* redo away, and only names are not (AgentBuilder's commit, amend, undo    *)
(* and redo).                                                              *)
THEOREM DrawingsComeBackAlways == SketchSpec => DrawingsComeBack
  <1> DEFINE n == Len(past')
             Back == \/ Drawing(sketch') = Drawing(sketch)
                     \/ \E i \in {n - 1, n} \cap 1..n : past'[i] = sketch
                     \/ future' # <<>> /\ Head(future') = sketch
  <1>1. SketchInv /\ [SketchNext]_sketchVars => [Back]_sketchVars
    <2> SUFFICES ASSUME SketchInv, SketchNext
                 PROVE  Back
      BY Zenon
    <2>1. sketch \in Whole /\ past \in Seq(Whole) /\ future \in Seq(Whole)
      BY DEF SketchInv, InHand
    <2>2. ASSUME sketch' = sketch PROVE Back
      BY <2>2, Zenon
    <2>3. ASSUME past' = Keep(past, sketch) PROVE Back
      <3> DEFINE kept == Keep(past, sketch)
      <3>1. Len(kept) \in Nat \ {0} /\ kept[Len(kept)] = sketch
        BY <2>1, Kept
      <3> HIDE DEF kept
      <3> QED
        BY <2>3, <3>1 DEF kept
    <2>4. ASSUME NEW next, Commit(next) PROVE Back
      <3>1. sketch' = next /\ (next # sketch => past' = Keep(past, sketch))
        BY <2>4 DEF Commit
      <3> QED
        BY <2>2, <2>3, <3>1, Zenon
    <2>5. ASSUME OnTheCards PROVE Back
      <3>1. PICK step \in sketch.steps :
                RemoveStep(step.id) \/ RenameStep(step) \/ StartLink(step.id) \/ CompleteLink(step.id)
        BY <2>5 DEF OnTheCards
      <3>2. ASSUME RenameStep(step) PROVE Back
        BY <3>2, LabelsAreNotDrawn, Zenon DEF RenameStep
      <3> HIDE DEF Back
      <3> QED
        BY <2>2, <2>4, <3>1, <3>2, Zenon DEF RemoveStep, StartLink, CompleteLink
    <2>6. ASSUME SketchUndo PROVE Back
      <3>1. future' = <<sketch>> \o future
        BY <2>6 DEF SketchUndo
      <3>2. future' # <<>> /\ Head(future') = sketch
        BY <2>1, <3>1
      <3> QED
        BY <3>2, Zenon
    <2>7. ASSUME SketchRedo PROVE Back
      <3>1. past' = Append(past, sketch)
        BY <2>7 DEF SketchRedo
      <3>2. n \in Nat \ {0} /\ past'[n] = sketch
        BY <2>1, <3>1, AppendProperties
      <3> QED
        BY <3>2
    <2>8. ASSUME NEW ids, NEW es, Delete(ids, es) PROVE Back
      <3> DEFINE kept == Keep(past, sketch)
      <3>1. kept \in Seq(Whole) /\ Len(kept) \in Nat \ {0} /\ kept[Len(kept)] = sketch
        BY <2>1, Kept
      <3>2. past' = kept \/ \E first \in Whole : past' = Keep(kept, first)
        BY <2>8, Deleted
      <3> HIDE DEF kept
      <3>3. ASSUME NEW first \in Whole, past' = Keep(kept, first) PROVE Back
        <4> DEFINE last == Keep(kept, first)
        <4>1. Len(kept) > 0 /\ kept \in Seq(Whole) /\ first \in Whole
          BY <3>1, <3>3
        <4>2. /\ Len(last) > 1 /\ Len(last) \in Nat /\ last[Len(last) - 1] = kept[Len(kept)]
          <5> HIDE DEF Back
          <5> QED
            BY <4>1, Kept
        <4> HIDE DEF last
        <4>3. Len(last) - 1 \in {Len(last) - 1, Len(last)} \cap 1..Len(last)
          BY <4>2
        <4>4. past' = last
          BY <3>3 DEF last
        <4> QED
          BY <3>1, <4>2, <4>3, <4>4
      <3> QED
        BY <2>3, <3>2, <3>3 DEF kept
    <2>9. ASSUME OnTheCanvas PROVE Back
      <3> HIDE DEF Back
      <3> QED
        BY <2>4, <2>6, <2>7, <2>8, <2>9, Zenon DEF OnTheCanvas, MoveStep, Connect
    <2>10. ASSUME InThePanel PROVE Back
      <3>1. ASSUME NEW variable \in sketch.variables, ChangeVariable(variable) PROVE Back
        BY <3>1, LabelsAreNotDrawn, Zenon DEF ChangeVariable
      <3> HIDE DEF Back
      <3> QED
        BY <2>4, <2>10, <3>1, Zenon DEF InThePanel, AddVariable, RemoveVariable
    <2>11. ASSUME OnTheRail \/ InTheList \/ CancelLink \/ StartOver PROVE Back
      <3> HIDE DEF Back
      <3> QED
        BY <2>2, <2>3, <2>4, <2>11, Zenon
        DEF OnTheRail, AddBlock, InTheList, RemoveEdge, CancelLink, StartOver
    <2> HIDE DEF Back
    <2> QED
      BY <2>5, <2>9, <2>10, <2>11, Zenon DEF SketchNext
  <1> QED
    BY <1>1, InitInHand, SketchStep, PTL DEF SketchSpec, DrawingsComeBack

-----------------------------------------------------------------------------
(* The inputs of a workflow.                                               *)

Entries == [name : FieldName \cup {"loan_id"}, type : Declared \cup {"string"}]

Apart(fields) == \A i, j \in 1..Len(fields) : fields[i].name = fields[j].name => i = j

Declarations == {fields \in Seq(Entries) : Apart(fields)}

(* A declaration is as long as the list of its names; a name has one type. *)
LEMMA DeclarationsAre ==
    ASSUME NEW fields \in Declarations
    PROVE  /\ ToSet(fields) = {fields[i] : i \in 1..Len(fields)}
           /\ Names(fields) = {fields[i].name : i \in 1..Len(fields)}
           /\ \A i \in 1..Len(fields) : TypeFor(fields, fields[i].name) = fields[i].type
           /\ IsFiniteSet(Names(fields)) /\ Cardinality(Names(fields)) = Len(fields)
  <1> DEFINE n == Len(fields)
             f == [i \in 1..n |-> fields[i].name]
  <1>0. fields \in Seq(Entries) /\ Apart(fields) /\ n \in Nat /\ DOMAIN fields = 1..n
    BY DEF Declarations
  <1>1. ToSet(fields) = {fields[i] : i \in 1..n}
    BY <1>0 DEF ToSet
  <1>2. Names(fields) = {fields[i].name : i \in 1..n}
    BY <1>1 DEF Names
  <1>3. ASSUME NEW i \in 1..n PROVE TypeFor(fields, fields[i].name) = fields[i].type
    <2>1. \A entry \in ToSet(fields) : entry.name = fields[i].name => entry = fields[i]
      BY <1>0, <1>1 DEF Apart
    <2>2. fields[i] \in ToSet(fields)
      BY <1>1
    <2>3. (CHOOSE entry \in ToSet(fields) : entry.name = fields[i].name) = fields[i]
      BY <2>1, <2>2
    <2> QED
      BY <2>3 DEF TypeFor
  <1>4. f \in Bijection(1..n, Names(fields))
    <2>1. f \in Surjection(1..n, Names(fields))
      BY <1>2 DEF Surjection
    <2>2. f \in Injection(1..n, Names(fields))
      BY <1>0, <2>1 DEF Injection, Surjection, IsInjective, Apart
    <2> QED
      BY <2>1, <2>2 DEF Bijection
  <1>5. IsFiniteSet(1..n) /\ Cardinality(1..n) = n
    BY <1>0, FS_Interval
  <1> HIDE DEF f
  <1>6. IsFiniteSet(Names(fields)) /\ Cardinality(Names(fields)) = n
    <2>1. \E g : g \in Bijection(1..n, Names(fields))
      BY <1>4
    <2> QED
      BY <1>5, <2>1, FS_Bijection DEF ExistsBijection
  <1> QED
    BY <1>1, <1>2, <1>3, <1>6

LEMMA AtMostOne ==
    ASSUME NEW x, NEW S \in SUBSET {x}
    PROVE  Cardinality(S) <= 1
  <1>1. S = {} \/ S = {x}
    OBVIOUS
  <1> QED
    BY <1>1, FS_Singleton, FS_EmptySet

(* The first that passes is the first, and there is one if any passes.     *)
FirstIn(I, n, at) ==
    IF I = {} THEN at = 0 ELSE at \in I /\ at \in 1..n

LEMMA FirstIsThere ==
    ASSUME NEW n \in Nat, NEW I \in SUBSET (1..n)
    PROVE  FirstIn(I, n, IF I # {} THEN Min(I) ELSE 0)
  <1>1. I \in SUBSET Nat
    OBVIOUS
  <1> QED
    BY <1>1, MinIsLeast DEF FirstIn

(* A field taken out leaves the others in their order.                     *)
LEMMA TakenOut ==
    ASSUME NEW fields \in Seq(Entries), NEW at \in 1..Len(fields)
    PROVE  LET left == RemoveAt(fields, at) IN
           /\ left \in Seq(Entries) /\ Len(left) = Len(fields) - 1
           /\ \A i \in 1..Len(fields) - 1 :
                 left[i] = IF i < at THEN fields[i] ELSE fields[i + 1]
  <1> DEFINE n == Len(fields)
             front == SubSeq(fields, 1, at - 1)
             back == SubSeq(fields, at + 1, n)
  <1>1. n \in Nat /\ at \in Nat /\ 1 <= at /\ at <= n
    OBVIOUS
  <1>2. front \in Seq(Entries) /\ Len(front) = at - 1
        /\ \A i \in 1..at - 1 : front[i] = fields[i]
    BY <1>1
  <1>3. back \in Seq(Entries) /\ Len(back) = n - at
        /\ \A i \in 1..n - at : back[i] = fields[at + i]
    BY <1>1
  <1>4. RemoveAt(fields, at) = front \o back
    BY DEF RemoveAt
  <1> HIDE DEF front, back
  <1>5. front \o back \in Seq(Entries) /\ Len(front \o back) = n - 1
    <2>1. front \o back \in Seq(Entries) /\ Len(front \o back) = Len(front) + Len(back)
      BY <1>2, <1>3, ConcatProperties
    <2> QED
      BY <1>1, <1>2, <1>3, <2>1
  <1>6. ASSUME NEW i \in 1..n - 1
        PROVE  (front \o back)[i] = IF i < at THEN fields[i] ELSE fields[i + 1]
    <2>1. CASE i < at
      BY <1>1, <1>2, <1>3, <2>1
    <2>2. CASE ~(i < at)
      <3>1. (front \o back)[i] = back[i - (at - 1)]
        BY <1>1, <1>2, <1>3, <2>2
      <3>2. i - (at - 1) \in 1..n - at /\ at + (i - (at - 1)) = i + 1
        BY <1>1, <2>2
      <3> QED
        BY <1>3, <2>2, <3>1, <3>2
    <2> QED
      BY <2>1, <2>2
  <1> QED
    BY <1>4, <1>5, <1>6

(* The fields keep their place in a change of one at most, and of the one  *)
(* it takes the name of.                                                   *)
LEMMA ChangesOfOne ==
    ASSUME NEW before \in Declarations, NEW after \in Declarations, NEW one, NEW typed,
           NEW taken \in SUBSET {typed},
           Names(before) \ Names(after) \subseteq {one},
           Names(after) \ Names(before) \subseteq {typed},
           \A name \in (Names(before) \cap Names(after)) \ {typed} :
               TypeFor(before, name) = TypeFor(after, name),
           taken # {} => Names(before) \ Names(after) # {} /\ Names(after) \ Names(before) = {},
           \A first, second \in (Names(before) \cap Names(after)) \ taken :
               InOrder(before, first, second) => InOrder(after, first, second),
           \A name \in Names(before) \ Names(after), fresh \in Names(after) \ Names(before),
              other \in Names(before) \cap Names(after) :
               InOrder(before, name, other) => InOrder(after, fresh, other)
    PROVE  KeepTheirPlace(before, after)
  <1> DEFINE kept == Names(before) \cap Names(after)
             gone == Names(before) \ Names(after)
             new == Names(after) \ Names(before)
             settled == kept \ Number
             retyped == {name \in kept : TypeFor(before, name) # TypeFor(after, name)}
             moved == taken \cap settled
  <1>1. Cardinality(Names(after)) = Len(after)
    BY DeclarationsAre
  <1>2. gone \in SUBSET {one} /\ new \in SUBSET {typed} /\ retyped \in SUBSET {typed}
        /\ moved \in SUBSET {typed}
    OBVIOUS
  <1>3. /\ moved \in SUBSET settled
        /\ moved # {} => gone # {} /\ new = {}
        /\ \A first, second \in settled \ moved :
              InOrder(before, first, second) => InOrder(after, first, second)
        /\ \A name \in gone, fresh \in new \ Number, other \in settled :
              InOrder(before, name, other) => InOrder(after, fresh, other)
    OBVIOUS
  <1> HIDE DEF gone, new, retyped, moved
  <1>4. Cardinality(gone) <= 1 /\ Cardinality(new) <= 1 /\ Cardinality(retyped) <= 1
        /\ Cardinality(moved) <= 1
    BY <1>2, AtMostOne
  <1> HIDE DEF settled
  <1>5. \E m \in SUBSET settled :
              /\ Cardinality(m) <= 1
              /\ m # {} => gone # {} /\ new = {}
              /\ \A first, second \in settled \ m :
                    InOrder(before, first, second) => InOrder(after, first, second)
    BY <1>3, <1>4, Zenon
  <1> QED
    BY <1>1, <1>3, <1>4, <1>5, Zenon DEF KeepTheirPlace, gone, new, retyped, settled

(* With the number in front it is the same declaration, and the others are *)
(* in their order.                                                         *)
LEMMA NumbersFirst ==
    ASSUME NEW fields \in Declarations
    PROVE  LET ordered == Ordered(fields) IN
           /\ ordered \in Declarations /\ ToSet(ordered) = ToSet(fields)
           /\ Len(ordered) = Len(fields)
           /\ \A first \in Names(fields) \ Number, second \in Names(fields) \ Number :
                 InOrder(fields, first, second) => InOrder(ordered, first, second)
  <1> DEFINE n == Len(fields)
             I == {i \in 1..n : fields[i].name \in Number}
             at == IF I # {} THEN Min(I) ELSE 0
             left == RemoveAt(fields, at)
             ordered == <<fields[at]>> \o left
             To(i) == IF i = at THEN 1 ELSE IF i < at THEN i + 1 ELSE i
             From(i) == IF i = 1 THEN at ELSE IF i - 1 < at THEN i - 1 ELSE i
  <1>1. fields \in Seq(Entries) /\ Apart(fields) /\ n \in Nat
    BY DEF Declarations
  <1>2. Ordered(fields) = IF at = 0 THEN fields ELSE ordered
    BY DEF Ordered, SelectInSeq
  <1>3. FirstIn(I, n, at)
    <2>1. I \in SUBSET (1..n)
      OBVIOUS
    <2> HIDE DEF I
    <2> QED
      BY <1>1, <2>1, FirstIsThere
  <1>4. CASE at = 0
    BY <1>1, <1>2, <1>4 DEF Declarations
  <1>5. CASE at # 0
    <2>1. at \in 1..n /\ fields[at].name \in Number
      BY <1>3, <1>5 DEF FirstIn
    <2> HIDE DEF at
    <2>2. /\ left \in Seq(Entries) /\ Len(left) = n - 1
          /\ \A i \in 1..n - 1 : left[i] = IF i < at THEN fields[i] ELSE fields[i + 1]
      BY <1>1, <2>1, TakenOut
    <2>3. fields[at] \in Entries
      BY <1>1, <2>1, ElementOfSeq
    <2> HIDE DEF left
    <2>4. <<fields[at]>> \in Seq(Entries) /\ Len(<<fields[at]>>) = 1
          /\ <<fields[at]>>[1] = fields[at]
      BY <2>3
    <2>5. ordered \in Seq(Entries) /\ Len(ordered) = n
      <3>1. ordered \in Seq(Entries) /\ Len(ordered) = 1 + Len(left)
        BY <2>2, <2>4, ConcatProperties
      <3> QED
        BY <1>1, <2>2, <3>1
    <2>6. ASSUME NEW i \in 1..n PROVE ordered[i] = fields[From(i)]
      <3>1. CASE i = 1
        BY <2>2, <2>4, <3>1
      <3>2. CASE i # 1
        <4>1. ordered[i] = left[i - 1]
          BY <2>2, <2>4, <3>2
        <4> QED
          BY <2>1, <2>2, <3>2, <4>1
      <3> QED
        BY <3>1, <3>2
    <2> HIDE DEF ordered
    <2>7. \A i \in 1..n : From(i) \in 1..n /\ To(i) \in 1..n /\ From(To(i)) = i /\ To(From(i)) = i
      BY <1>1, <2>1
    <2>8. \A i, j \in 1..n : i < j /\ i # at /\ j # at => To(i) < To(j)
      BY <1>1, <2>1
    <2>9. \A i \in 1..n : ordered[To(i)] = fields[i]
      BY <2>6, <2>7
    <2> HIDE DEF To, From
    <2>10. Apart(ordered)
      <3> SUFFICES ASSUME NEW i \in 1..n, NEW j \in 1..n, ordered[i].name = ordered[j].name
                   PROVE  i = j
        BY <2>5 DEF Apart
      <3>1. fields[From(i)].name = fields[From(j)].name
        BY <2>6
      <3>2. From(i) = From(j)
        BY <1>1, <2>7, <3>1 DEF Apart
      <3> QED
        BY <2>7, <3>2
    <2>11. ordered \in Declarations
      BY <2>5, <2>10 DEF Declarations
    <2>12. ToSet(ordered) = ToSet(fields)
      <3>1. ToSet(ordered) = {ordered[i] : i \in 1..n} /\ ToSet(fields) = {fields[i] : i \in 1..n}
        BY <2>5, <2>11, DeclarationsAre
      <3>2. \A i \in 1..n : ordered[i] \in {fields[k] : k \in 1..n}
        BY <2>6, <2>7
      <3>3. \A i \in 1..n : fields[i] \in {ordered[k] : k \in 1..n}
        <4> SUFFICES ASSUME NEW i \in 1..n PROVE fields[i] \in {ordered[k] : k \in 1..n}
          OBVIOUS
        <4>1. To(i) \in 1..n /\ ordered[To(i)] = fields[i]
          BY <2>7, <2>9
        <4> QED
          BY <4>1
      <3> QED
        BY <3>1, <3>2, <3>3
    <2>13. ASSUME NEW first \in Names(fields) \ Number, NEW second \in Names(fields) \ Number,
                  InOrder(fields, first, second)
           PROVE  InOrder(ordered, first, second)
      <3>1. PICK i, j \in 1..n : i < j /\ fields[i].name = first /\ fields[j].name = second
        BY <2>13 DEF InOrder
      <3>2. i # at /\ j # at
        BY <2>1, <3>1
      <3>3. To(i) \in 1..n /\ To(j) \in 1..n /\ To(i) < To(j)
        BY <2>7, <2>8, <3>1, <3>2
      <3>4. ordered[To(i)].name = first /\ ordered[To(j)].name = second
        BY <2>9, <3>1
      <3> QED
        BY <2>5, <3>3, <3>4, Zenon DEF InOrder
    <2> QED
      BY <1>2, <1>5, <2>5, <2>11, <2>12, <2>13
  <1> QED
    BY <1>4, <1>5

(* Whatever is kept is kept with the number in front.                      *)
LEMMA KeptInOrder ==
    ASSUME NEW before, NEW after \in Declarations, KeepTheirPlace(before, after)
    PROVE  KeepTheirPlace(before, Ordered(after))
  <1> DEFINE ordered == Ordered(after)
             settled == (Names(before) \cap Names(after)) \ Number
  <1>1. ToSet(ordered) = ToSet(after) /\ Len(ordered) = Len(after)
    BY NumbersFirst
  <1>2. \A first \in Names(after) \ Number, second \in Names(after) \ Number :
            InOrder(after, first, second) => InOrder(ordered, first, second)
    BY NumbersFirst
  <1> HIDE DEF ordered
  <1>3. Names(ordered) = Names(after) /\ \A name : TypeFor(ordered, name) = TypeFor(after, name)
    BY <1>1, Zenon DEF Names, TypeFor
  <1>4. PICK taken \in SUBSET settled :
              /\ Cardinality(taken) <= 1
              /\ taken # {} => Names(before) \ Names(after) # {} /\ Names(after) \ Names(before) = {}
              /\ \A first, second \in settled \ taken :
                    InOrder(before, first, second) => InOrder(after, first, second)
    BY Zenon DEF KeepTheirPlace
  <1>5. \A first, second \in settled \ taken :
            InOrder(before, first, second) => InOrder(ordered, first, second)
    BY <1>2, <1>4
  <1>6. \A name \in Names(before) \ Names(after),
           fresh \in (Names(after) \ Names(before)) \ Number, other \in settled :
            InOrder(before, name, other) => InOrder(ordered, fresh, other)
    <2>1. \A name \in Names(before) \ Names(after),
             fresh \in (Names(after) \ Names(before)) \ Number, other \in settled :
              InOrder(before, name, other) => InOrder(after, fresh, other)
      BY Zenon DEF KeepTheirPlace
    <2> QED
      BY <1>2, <2>1
  <1>7. /\ Cardinality(Names(after)) = Len(after)
        /\ Cardinality(Names(before) \ Names(after)) <= 1
        /\ Cardinality(Names(after) \ Names(before)) <= 1
        /\ Cardinality({name \in Names(before) \cap Names(after) :
                           TypeFor(before, name) # TypeFor(after, name)}) <= 1
    BY Zenon DEF KeepTheirPlace
  <1>8. /\ Cardinality(Names(ordered)) = Len(ordered)
        /\ Cardinality(Names(before) \ Names(ordered)) <= 1
        /\ Cardinality(Names(ordered) \ Names(before)) <= 1
        /\ Cardinality({name \in Names(before) \cap Names(ordered) :
                           TypeFor(before, name) # TypeFor(ordered, name)}) <= 1
    BY <1>1, <1>3, <1>7, Zenon
  <1>9. \E t \in SUBSET settled :
              /\ Cardinality(t) <= 1
              /\ t # {} => Names(before) \ Names(after) # {} /\ Names(after) \ Names(before) = {}
              /\ \A first, second \in settled \ t :
                    InOrder(before, first, second) => InOrder(ordered, first, second)
    BY <1>4, <1>5, Zenon
  <1>10. KeepTheirPlace(before, ordered)
    BY <1>3, <1>6, <1>8, <1>9, Zenon DEF KeepTheirPlace
  <1> QED
    BY <1>10 DEF ordered

-----------------------------------------------------------------------------
(* What the rebuilding of an object computes: it assigns its fields, the   *)
(* renamed one under its new name, one after the other.                    *)

Renaming(name, typed, entry) == IF entry.name = name THEN Field(typed, entry.type) ELSE entry

Rebuilds(g, name, typed, fields, U) ==
    g = [s \in SUBSET U |->
            IF s = {} THEN <<>>
            ELSE Assign(g[s \ {Max(s)}], Renaming(name, typed, fields[Max(s)]))]

Rebuilt(name, typed, fields) ==
    FoldLeft(LAMBDA done, entry : Assign(done, Renaming(name, typed, entry)), <<>>, fields)

LEMMA RebuiltIs ==
    ASSUME NEW name, NEW typed, NEW fields
    PROVE  LET U == DOMAIN fields IN
           Rebuilt(name, typed, fields) = (CHOOSE g : Rebuilds(g, name, typed, fields, U))[U]
  BY DEF Rebuilt, FoldLeft, MapThenFoldSet, Rebuilds

(* The last of a set is the last.                                          *)
LEMMA LastOfSome ==
    ASSUME NEW n \in Nat, NEW s \in SUBSET (1..n + 1), n + 1 \in s
    PROVE  Max(s) = n + 1
  <1>1. \A y \in s : n + 1 >= y
    OBVIOUS
  <1>2. \A x \in s : (\A y \in s : x >= y) => x = n + 1
    OBVIOUS
  <1> QED
    BY <1>1, <1>2 DEF Max

(* What rebuilds the first fields rebuilds one more.                       *)
LEMMA OneMoreRebuilt ==
    ASSUME NEW name, NEW typed, NEW fields, NEW n \in Nat,
           NEW g, Rebuilds(g, name, typed, fields, 1..n)
    PROVE  \E h : Rebuilds(h, name, typed, fields, 1..n + 1)
  <1> DEFINE More(done, i) == Assign(done, Renaming(name, typed, fields[i]))
             h == [s \in SUBSET (1..n + 1) |->
                      IF n + 1 \in s THEN More(g[s \ {n + 1}], n + 1) ELSE g[s]]
  <1>1. \A s \in SUBSET (1..n) : g[s] = IF s = {} THEN <<>> ELSE More(g[s \ {Max(s)}], Max(s))
    BY Zenon DEF Rebuilds
  <1>2. ASSUME NEW s \in SUBSET (1..n + 1)
        PROVE  h[s] = IF s = {} THEN <<>> ELSE More(h[s \ {Max(s)}], Max(s))
    <2>1. CASE n + 1 \in s
      <3>1. Max(s) = n + 1
        BY <2>1, LastOfSome
      <3>2. s \ {n + 1} \in SUBSET (1..n + 1) /\ n + 1 \notin s \ {n + 1}
        OBVIOUS
      <3>3. h[s \ {n + 1}] = g[s \ {n + 1}]
        BY <3>2, Zenon
      <3>4. h[s] = More(g[s \ {n + 1}], n + 1)
        BY <2>1, Zenon
      <3>5. s # {}
        BY <2>1
      <3> HIDE DEF h, More
      <3> QED
        BY <3>1, <3>3, <3>4, <3>5
    <2>2. CASE n + 1 \notin s
      <3>1. s \in SUBSET (1..n)
        BY <2>2
      <3>2. s \ {Max(s)} \in SUBSET (1..n + 1) /\ n + 1 \notin s \ {Max(s)}
        BY <2>2
      <3>3. h[s \ {Max(s)}] = g[s \ {Max(s)}] /\ h[s] = g[s]
        BY <2>2, <3>2, Zenon
      <3> HIDE DEF h, More
      <3> QED
        BY <1>1, <3>1, <3>3
    <2> QED
      BY <2>1, <2>2
  <1>3. h = [s \in SUBSET (1..n + 1) |-> h[s]]
    OBVIOUS
  <1> HIDE DEF h
  <1>4. Rebuilds(h, name, typed, fields, 1..n + 1)
    BY <1>2, <1>3, Zenon DEF Rebuilds
  <1> QED
    BY <1>4

(* So there is such a function for any number of fields.                   *)
LEMMA RebuildsExist ==
    ASSUME NEW name, NEW typed, NEW fields, NEW n \in Nat
    PROVE  \E g : Rebuilds(g, name, typed, fields, 1..n)
  <1> DEFINE Unbuilt == {k \in Nat : ~\E g : Rebuilds(g, name, typed, fields, 1..k)}
             first == Min(Unbuilt)
  <1>1. SUFFICES ASSUME Unbuilt # {} PROVE FALSE
    BY <1>1
  <1>2. first \in Unbuilt /\ \A k \in Unbuilt : first <= k
    <2>1. Unbuilt \in SUBSET Nat
      OBVIOUS
    <2> HIDE DEF Unbuilt
    <2> QED
      BY <1>1, <2>1, MinIsLeast
  <1> HIDE DEF first
  <1>3. first # 0
    <2> DEFINE g == [s \in SUBSET {} |-> <<>>]
    <2>1. Rebuilds(g, name, typed, fields, {})
      <3>1. \A s \in SUBSET {} : s = {}
        OBVIOUS
      <3> QED
        BY <3>1, Zenon DEF Rebuilds
    <2>2. 1..0 = {}
      OBVIOUS
    <2> HIDE DEF g
    <2> QED
      BY <1>2, <2>1, <2>2
  <1>4. first - 1 \in Nat /\ (first - 1) + 1 = first /\ first - 1 \notin Unbuilt
    BY <1>2, <1>3
  <1>5. PICK g : Rebuilds(g, name, typed, fields, 1..first - 1)
    BY <1>4
  <1>6. \E h : Rebuilds(h, name, typed, fields, 1..first)
    BY <1>4, <1>5, OneMoreRebuilt
  <1> QED
    BY <1>2, <1>6

(* The steps of the rebuilding.                                            *)
Steps(done, name, typed, fields) ==
    /\ done[0] = <<>>
    /\ \A k \in 1..Len(fields) :
          done[k] = Assign(done[k - 1], Renaming(name, typed, fields[k]))

LEMMA RebuiltInSteps ==
    ASSUME NEW name, NEW typed, NEW fields \in Seq(Entries)
    PROVE  \E done : Steps(done, name, typed, fields) /\ done[Len(fields)] = Rebuilt(name, typed, fields)
  <1> DEFINE n == Len(fields)
             g == CHOOSE g : Rebuilds(g, name, typed, fields, 1..n)
             done == [k \in 0..n |-> g[1..k]]
  <1>1. n \in Nat /\ DOMAIN fields = 1..n
    OBVIOUS
  <1>2. Rebuilds(g, name, typed, fields, 1..n)
    BY <1>1, RebuildsExist
  <1>3. Rebuilt(name, typed, fields) = g[1..n]
    BY <1>1, RebuiltIs, Zenon
  <1> HIDE DEF g
  <1>4. \A s \in SUBSET (1..n) :
           g[s] = IF s = {} THEN <<>>
                  ELSE Assign(g[s \ {Max(s)}], Renaming(name, typed, fields[Max(s)]))
    BY <1>2, Zenon DEF Rebuilds
  <1>5. done[0] = <<>>
    <2>1. 1..0 = {} /\ 0 \in 0..n
      BY <1>1
    <2>2. done[0] = g[{}]
      BY <2>1
    <2>3. g[{}] = <<>>
      BY <1>4
    <2> QED
      BY <2>2, <2>3
  <1>6. ASSUME NEW k \in 1..n
        PROVE  done[k] = Assign(done[k - 1], Renaming(name, typed, fields[k]))
    <2>1. k - 1 \in Nat /\ (k - 1) + 1 = k /\ k \in 1..k /\ k - 1 \in 0..n /\ k \in 0..n
      BY <1>1
    <2>2. Max(1..k) = k
      BY <2>1, LastOfSome
    <2>3. (1..k) \ {k} = 1..k - 1
      <3>1. k \in Nat
        BY <1>1
      <3>2. \A x : x \in (1..k) \ {k} <=> x \in 1..k - 1
        BY <3>1
      <3> QED
        BY <3>2
    <2>4. 1..k \in SUBSET (1..n) /\ 1..k # {}
      <3>1. k \in Nat /\ k <= n /\ k \in 1..k
        BY <1>1, <2>1
      <3>2. \A x \in 1..k : x \in 1..n
        BY <1>1, <3>1
      <3> QED
        BY <3>1, <3>2
    <2>5. g[1..k] = Assign(g[1..k - 1], Renaming(name, typed, fields[k]))
      BY <1>4, <2>2, <2>3, <2>4, Zenon
    <2>6. done[k] = g[1..k] /\ done[k - 1] = g[1..k - 1]
      BY <1>1, <2>1
    <2> QED
      BY <2>5, <2>6, Zenon
  <1>7. done[n] = g[1..n]
    BY <1>1
  <1> HIDE DEF done
  <1> QED
    BY <1>3, <1>5, <1>6, <1>7, Zenon DEF Steps

-----------------------------------------------------------------------------
(* Of a list in which the name at hi is that at lo, and the others are     *)
(* apart, the object has the one at hi in the place of the one at lo.      *)
Merged(r, lo, hi, k) ==
    IF k < hi THEN [i \in 1..k |-> r[i]]
    ELSE [i \in 1..k - 1 |-> IF i = lo THEN r[hi] ELSE IF i < hi THEN r[i] ELSE r[i + 1]]

OneTwice(r, lo, hi, n) ==
    /\ lo \in Nat /\ hi \in 1..n + 1 /\ lo < hi
    /\ hi <= n => 1 <= lo /\ r[lo].name = r[hi].name
    /\ \A i, j \in 1..n : i < j /\ r[i].name = r[j].name => i = lo /\ j = hi

LEMMA NamesOfAList ==
    ASSUME NEW k \in Nat, NEW r \in [1..k -> Entries]
    PROVE  /\ Len(r) = k /\ r \in Seq(Entries)
           /\ Names(r) = {r[i].name : i \in 1..k}
  <1>1. Len(r) = k /\ r \in Seq(Entries) /\ DOMAIN r = 1..k
    BY LenProperties, IsASeq
  <1> QED
    BY <1>1 DEF Names, ToSet

(* A field with a name that is not there comes last.                       *)
LEMMA AssignsLast ==
    ASSUME NEW k \in Nat, NEW r \in [1..k -> Entries], NEW entry \in Entries,
           \A i \in 1..k : r[i].name # entry.name
    PROVE  /\ Assign(r, entry) \in [1..k + 1 -> Entries]
           /\ \A i \in 1..k + 1 : Assign(r, entry)[i] = IF i <= k THEN r[i] ELSE entry
  <1>1. Len(r) = k /\ r \in Seq(Entries) /\ Names(r) = {r[i].name : i \in 1..k}
    BY NamesOfAList
  <1>2. entry.name \notin Names(r)
    BY <1>1
  <1>3. Assign(r, entry) = Append(r, entry)
    BY <1>2, Zenon DEF Assign
  <1>4. /\ Append(r, entry) \in Seq(Entries) /\ Len(Append(r, entry)) = k + 1
        /\ \A i \in 1..k : Append(r, entry)[i] = r[i]
        /\ Append(r, entry)[k + 1] = entry
    BY <1>1, AppendProperties
  <1>5. Append(r, entry) \in [1..k + 1 -> Entries]
    BY <1>4, LenProperties
  <1> HIDE DEF Assign
  <1> QED
    BY <1>3, <1>4, <1>5

(* One with a name that is there takes its place.                          *)
LEMMA AssignsInPlace ==
    ASSUME NEW k \in Nat, NEW r \in [1..k -> Entries], NEW entry \in Entries,
           entry.name \in {r[i].name : i \in 1..k}
    PROVE  /\ Assign(r, entry) \in [1..k -> Entries]
           /\ \A i \in 1..k :
                 Assign(r, entry)[i] = IF r[i].name = entry.name THEN entry ELSE r[i]
  <1>1. Len(r) = k /\ Names(r) = {r[i].name : i \in 1..k}
    BY NamesOfAList
  <1>2. Assign(r, entry) = [i \in 1..k |-> IF r[i].name = entry.name THEN entry ELSE r[i]]
    BY <1>1, Zenon DEF Assign
  <1> QED
    BY <1>2

LEMMA MergesOneMore ==
    ASSUME NEW n \in Nat, NEW r \in [1..n -> Entries], NEW lo, NEW hi, OneTwice(r, lo, hi, n),
           NEW k \in 1..n
    PROVE  Assign(Merged(r, lo, hi, k - 1), r[k]) = Merged(r, lo, hi, k)
  <1> DEFINE m == Merged(r, lo, hi, k - 1)
             size == IF k - 1 < hi THEN k - 1 ELSE k - 2
  <1>1. /\ lo \in Nat /\ hi \in 1..n + 1 /\ lo < hi
        /\ hi <= n => 1 <= lo /\ r[lo].name = r[hi].name
        /\ \A i, j \in 1..n : i < j /\ r[i].name = r[j].name => i = lo /\ j = hi
    BY DEF OneTwice
  <1>2. size \in Nat /\ k \in Nat /\ r[k] \in Entries
    BY <1>1
  <1>3. CASE k <= hi
    <2>1. m = [i \in 1..k - 1 |-> r[i]] /\ m \in [1..k - 1 -> Entries] /\ k - 1 \in Nat
      BY <1>1, <1>2, <1>3 DEF Merged
    <2> HIDE DEF m
    <2>2. CASE k < hi
      <3>1. \A i \in 1..k - 1 : m[i].name # r[k].name
        BY <1>1, <1>2, <2>1, <2>2
      <3>2. /\ Assign(m, r[k]) \in [1..(k - 1) + 1 -> Entries]
            /\ \A i \in 1..(k - 1) + 1 : Assign(m, r[k])[i] = IF i <= k - 1 THEN m[i] ELSE r[k]
        <4> DEFINE p == k - 1
        <4>1. p \in Nat /\ m \in [1..p -> Entries] /\ \A i \in 1..p : m[i].name # r[k].name
          BY <2>1, <3>1
        <4> HIDE DEF p
        <4>2. /\ Assign(m, r[k]) \in [1..p + 1 -> Entries]
              /\ \A i \in 1..p + 1 : Assign(m, r[k])[i] = IF i <= p THEN m[i] ELSE r[k]
          BY <1>2, <4>1, AssignsLast
        <4> QED
          BY <4>2 DEF p
      <3>3. Merged(r, lo, hi, k) = [i \in 1..k |-> r[i]]
        BY <2>2 DEF Merged
      <3>4. (k - 1) + 1 = k
        BY <1>2
      <3>5. \A i \in 1..k : Assign(m, r[k])[i] = r[i]
        BY <1>2, <2>1, <3>2, <3>4
      <3>6. Assign(m, r[k]) \in [1..k -> Entries]
        BY <3>2, <3>4
      <3>7. Assign(m, r[k]) = [i \in 1..k |-> r[i]]
        BY <3>5, <3>6
      <3> QED
        BY <3>3, <3>7 DEF m
    <2>3. CASE k = hi
      <3>1. lo \in 1..k - 1 /\ \A i \in 1..k - 1 : m[i].name = r[k].name <=> i = lo
        BY <1>1, <1>2, <2>1, <2>3
      <3>2. Assign(m, r[k]) = [i \in 1..k - 1 |-> IF i = lo THEN r[k] ELSE m[i]]
        <4> DEFINE p == k - 1
        <4>1. p \in Nat /\ m \in [1..p -> Entries] /\ lo \in 1..p
              /\ m[lo].name = r[k].name /\ \A i \in 1..p : m[i].name = r[k].name => i = lo
          BY <2>1, <3>1
        <4> HIDE DEF p
        <4>2. /\ Assign(m, r[k]) \in [1..p -> Entries]
              /\ \A i \in 1..p : Assign(m, r[k])[i] = IF i = lo THEN r[k] ELSE m[i]
          <5>1. r[k].name \in {m[i].name : i \in 1..p}
            BY <4>1
          <5>2. /\ Assign(m, r[k]) \in [1..p -> Entries]
                /\ \A i \in 1..p :
                      Assign(m, r[k])[i] = IF m[i].name = r[k].name THEN r[k] ELSE m[i]
            BY <1>2, <4>1, <5>1, AssignsInPlace
          <5> QED
            BY <4>1, <5>2
        <4> QED
          BY <4>2 DEF p
      <3>3. Merged(r, lo, hi, k) =
               [i \in 1..k - 1 |-> IF i = lo THEN r[hi] ELSE IF i < hi THEN r[i] ELSE r[i + 1]]
        BY <2>3, <1>1 DEF Merged
      <3>4. \A i \in 1..k - 1 : i < hi /\ m[i] = r[i]
        BY <1>2, <2>1, <2>3
      <3>5. Assign(m, r[k]) = Merged(r, lo, hi, k)
        BY <2>3, <3>2, <3>3, <3>4
      <3> QED
        BY <3>5 DEF m
    <2> QED
      BY <1>1, <1>2, <1>3, <2>2, <2>3
  <1>4. CASE hi < k
    <2> DEFINE At(i) == IF i = lo THEN r[hi] ELSE IF i < hi THEN r[i] ELSE r[i + 1]
    <2>1. m = [i \in 1..k - 2 |-> At(i)] /\ k - 2 \in Nat
      BY <1>1, <1>2, <1>4 DEF Merged
    <2>2. \A i \in 1..k - 1 : At(i) \in Entries
      BY <1>1, <1>2, <1>4
    <2>3. \A i \in 1..k - 2 : At(i).name # r[k].name
      BY <1>1, <1>2, <1>4
    <2>4. At(k - 1) = r[k]
      BY <1>1, <1>2, <1>4
    <2>5. Merged(r, lo, hi, k) = [i \in 1..k - 1 |-> At(i)]
      BY <1>1, <1>2, <1>4 DEF Merged
    <2> HIDE DEF m, At
    <2>6. m \in [1..k - 2 -> Entries] /\ \A i \in 1..k - 2 : m[i].name # r[k].name
      BY <1>2, <2>1, <2>2, <2>3
    <2>7. /\ Assign(m, r[k]) \in [1..(k - 2) + 1 -> Entries]
          /\ \A i \in 1..(k - 2) + 1 : Assign(m, r[k])[i] = IF i <= k - 2 THEN m[i] ELSE r[k]
      BY <1>2, <2>1, <2>6, AssignsLast
    <2>8. (k - 2) + 1 = k - 1
      BY <1>2
    <2>9. \A i \in 1..k - 1 : Assign(m, r[k])[i] = At(i)
      BY <1>2, <2>1, <2>4, <2>7, <2>8
    <2>10. Assign(m, r[k]) = [i \in 1..k - 1 |-> At(i)]
      BY <2>7, <2>8, <2>9
    <2> QED
      BY <2>5, <2>10 DEF m
  <1> QED
    BY <1>1, <1>2, <1>3, <1>4

(* What a declaration is rebuilt to.                                       *)
Renamed(name, typed, fields) == [k \in 1..Len(fields) |-> Renaming(name, typed, fields[k])]

LEMMA RebuiltIsMerged ==
    ASSUME NEW fields \in Declarations, NEW name, NEW typed, NEW lo, NEW hi,
           Renamed(name, typed, fields) \in [1..Len(fields) -> Entries],
           OneTwice(Renamed(name, typed, fields), lo, hi, Len(fields))
    PROVE  Rebuilt(name, typed, fields) = Merged(Renamed(name, typed, fields), lo, hi, Len(fields))
  <1> DEFINE n == Len(fields)
             r == Renamed(name, typed, fields)
  <1>1. fields \in Seq(Entries) /\ n \in Nat
    BY DEF Declarations
  <1>2. PICK done : Steps(done, name, typed, fields) /\ done[n] = Rebuilt(name, typed, fields)
    BY <1>1, RebuiltInSteps
  <1> DEFINE Wrong == {k \in 0..n : done[k] # Merged(r, lo, hi, k)}
             first == Min(Wrong)
  <1>3. SUFFICES ASSUME Wrong # {} PROVE FALSE
    BY <1>1, <1>2, <1>3
  <1>4. first \in Wrong /\ \A k \in Wrong : first <= k
    <2>1. Wrong \in SUBSET Nat
      BY <1>1
    <2> HIDE DEF Wrong
    <2> QED
      BY <1>3, <2>1, MinIsLeast
  <1> HIDE DEF first
  <1>5. first # 0
    <2>1. done[0] = <<>>
      BY <1>2, Zenon DEF Steps
    <2>2. hi \in Nat /\ 0 < hi
      BY <1>1 DEF OneTwice
    <2>3. Merged(r, lo, hi, 0) = <<>>
      BY <2>2 DEF Merged
    <2> QED
      BY <1>4, <2>1, <2>3
  <1>6. first \in 1..n /\ first - 1 \in 0..n /\ ~(first <= first - 1)
    BY <1>1, <1>4, <1>5
  <1>7. done[first - 1] = Merged(r, lo, hi, first - 1)
    BY <1>4, <1>6
  <1>8. r[first] = Renaming(name, typed, fields[first])
    BY <1>6 DEF Renamed
  <1>9. done[first] = Assign(done[first - 1], r[first])
    BY <1>2, <1>6, <1>8, Zenon DEF Steps
  <1> HIDE DEF r
  <1>10. Assign(Merged(r, lo, hi, first - 1), r[first]) = Merged(r, lo, hi, first)
    BY <1>1, <1>6, MergesOneMore DEF r
  <1> QED
    BY <1>4, <1>7, <1>9, <1>10

(* A name that is being typed keeps what FieldsKeepTheirPlace promises.    *)
LEMMA RenamingKeeps ==
    ASSUME NEW before \in Declarations, NEW name \in Names(before), NEW typed \in FieldName,
           typed # name
    PROVE  LET after == Rebuilt(name, typed, before) IN
           after \in Declarations /\ KeepTheirPlace(before, after)
  <1> DEFINE n == Len(before)
             r == Renamed(name, typed, before)
             after == Rebuilt(name, typed, before)
  <1>1. before \in Seq(Entries) /\ Apart(before) /\ n \in Nat
        /\ \A i \in 1..n : before[i] \in Entries
    BY ElementOfSeq DEF Declarations
  <1>2. /\ Names(before) = {before[i].name : i \in 1..n}
        /\ \A i \in 1..n : TypeFor(before, before[i].name) = before[i].type
    BY DeclarationsAre
  <1>3. PICK a \in 1..n : before[a].name = name
    BY <1>2
  <1>4. \A i, j \in 1..n : before[i].name = before[j].name => i = j
    BY <1>1 DEF Apart
  <1>5. \A i \in 1..n : r[i] \in Entries
    BY <1>1 DEF Renamed, Renaming, Field, Entries
  <1>6. r \in [1..n -> Entries]
    BY <1>5 DEF Renamed
  <1>7. \A i \in 1..n : /\ r[i].name = IF i = a THEN typed ELSE before[i].name
                        /\ r[i].type = before[i].type
    BY <1>1, <1>3, <1>4 DEF Renamed, Renaming, Field, Entries
  <1> HIDE DEF r, after
  <1>8. CASE typed \notin Names(before)
    <2>1. \A i \in 1..n : before[i].name # typed
      BY <1>2, <1>8
    <2>2. \A i, j \in 1..n : r[i].name = r[j].name => i = j
      BY <1>4, <1>7, <2>1
    <2>3. OneTwice(r, 0, n + 1, n)
      BY <1>1, <2>2 DEF OneTwice
    <2>4. after = Merged(r, 0, n + 1, n)
      BY <1>6, <2>3, RebuiltIsMerged DEF r, after
    <2>5. after = r
      <3>1. Merged(r, 0, n + 1, n) = [i \in 1..n |-> r[i]]
        BY <1>1 DEF Merged
      <3> QED
        BY <1>6, <2>4, <3>1
    <2>6. Len(after) = n /\ after \in Seq(Entries)
      BY <1>1, <1>6, <2>5, NamesOfAList
    <2>7. after \in Declarations
      BY <2>2, <2>5, <2>6 DEF Declarations, Apart
    <2>8. /\ Names(after) = {after[i].name : i \in 1..n}
          /\ \A i \in 1..n : TypeFor(after, after[i].name) = after[i].type
      BY <2>6, <2>7, DeclarationsAre
    <2>9. Names(before) \ Names(after) \subseteq {name}
      <3>1. \A i \in 1..n : i # a => before[i].name = after[i].name
        BY <1>7, <2>5
      <3> QED
        BY <1>2, <1>3, <2>8, <3>1
    <2>10. Names(after) \ Names(before) \subseteq {typed}
      <3>1. \A i \in 1..n : after[i].name = typed \/ after[i].name = before[i].name
        BY <1>7, <2>5
      <3> QED
        BY <1>2, <2>8, <3>1
    <2>11. ASSUME NEW key \in (Names(before) \cap Names(after)) \ {typed}
           PROVE  TypeFor(before, key) = TypeFor(after, key)
      <3>1. PICK i \in 1..n : after[i].name = key
        BY <2>8
      <3>2. i # a /\ before[i].name = key
        BY <1>7, <2>5, <3>1
      <3> QED
        BY <1>2, <1>7, <2>5, <2>8, <3>1, <3>2
    <2>12. ASSUME NEW first \in Names(before) \cap Names(after),
                  NEW second \in Names(before) \cap Names(after),
                  InOrder(before, first, second)
           PROVE  InOrder(after, first, second)
      <3>1. PICK i, j \in 1..n : i < j /\ before[i].name = first /\ before[j].name = second
        BY <2>12 DEF InOrder
      <3>2. name \notin Names(after)
        BY <1>3, <1>4, <1>7, <2>5, <2>8
      <3>3. i # a /\ j # a
        BY <1>3, <3>1, <3>2
      <3>4. after[i].name = first /\ after[j].name = second
        BY <1>7, <2>5, <3>1, <3>3
      <3> QED
        BY <2>6, <3>1, <3>4 DEF InOrder
    <2>13. ASSUME NEW old \in Names(before) \ Names(after), NEW fresh \in Names(after) \ Names(before),
                  NEW other \in Names(before) \cap Names(after), InOrder(before, old, other)
           PROVE  InOrder(after, fresh, other)
      <3>1. PICK i, j \in 1..n : i < j /\ before[i].name = old /\ before[j].name = other
        BY <2>13 DEF InOrder
      <3>2. old = name /\ fresh = typed
        BY <2>9, <2>10
      <3>3. i = a /\ j # a
        BY <1>1, <1>3, <1>4, <3>1, <3>2
      <3>4. after[i].name = fresh /\ after[j].name = other
        BY <1>7, <2>5, <3>1, <3>2, <3>3
      <3> QED
        BY <2>6, <3>1, <3>4 DEF InOrder
    <2>14. KeepTheirPlace(before, after)
      BY <2>7, <2>9, <2>10, <2>11, <2>12, <2>13, ChangesOfOne
    <2> QED
      BY <2>7, <2>14 DEF after
  <1>9. CASE typed \in Names(before)
    <2>1. PICK b \in 1..n : before[b].name = typed
      BY <1>2, <1>9
    <2> DEFINE lo == IF a < b THEN a ELSE b
               hi == IF a < b THEN b ELSE a
               At(i) == IF i = lo THEN r[hi] ELSE IF i < hi THEN r[i] ELSE r[i + 1]
               From(i) == IF i = lo THEN hi ELSE IF i < hi THEN i ELSE i + 1
               To(i) == IF i < hi THEN i ELSE i - 1
    <2>2. a # b /\ lo \in 1..n /\ hi \in 1..n /\ lo < hi /\ {lo, hi} = {a, b}
      BY <1>1, <1>3, <2>1
    <2> HIDE DEF lo, hi
    <2>3. r[lo].name = typed /\ r[hi].name = typed
      BY <1>7, <2>1, <2>2
    <2>4. \A i \in 1..n : i # lo /\ i # hi => r[i].name = before[i].name /\ r[i].name # typed
                                           /\ r[i].name # name
      BY <1>3, <1>4, <1>7, <2>1, <2>2
    <2>5. \A i, j \in 1..n : r[i].name = r[j].name =>
              i = j \/ (i = lo /\ j = hi) \/ (i = hi /\ j = lo)
      BY <1>4, <2>2, <2>3, <2>4
    <2>6. OneTwice(r, lo, hi, n)
      <3>1. ASSUME NEW i \in 1..n, NEW j \in 1..n, i < j, r[i].name = r[j].name
            PROVE  i = lo /\ j = hi
        BY <1>1, <2>2, <2>5, <3>1
      <3> QED
        BY <1>1, <2>2, <2>3, <3>1 DEF OneTwice
    <2>7. after = [i \in 1..n - 1 |-> At(i)]
      <3>1. after = Merged(r, lo, hi, n)
        BY <1>6, <2>6, RebuiltIsMerged DEF r, after
      <3>2. ~(n < hi)
        BY <1>1, <2>2
      <3> QED
        BY <3>1, <3>2 DEF Merged
    <2>8. \A i \in 1..n - 1 : From(i) \in 1..n /\ At(i) = r[From(i)]
      BY <1>1, <2>2
    <2>9. after \in [1..n - 1 -> Entries] /\ n - 1 \in Nat
          /\ \A i \in 1..n - 1 : after[i] = r[From(i)]
      BY <1>1, <1>5, <2>2, <2>7, <2>8
    <2>10. \A i, j \in 1..n - 1 : From(i) = From(j) => i = j
      BY <1>1, <2>2
    <2>11. \A i \in 1..n - 1 : From(i) # lo
      BY <1>1, <2>2
    <2>12. \A i \in 1..n : i # lo /\ i # hi => To(i) \in 1..n - 1 /\ From(To(i)) = i
      BY <1>1, <2>2
    <2>13. \A i, j \in 1..n : i < j /\ i # hi /\ j # hi => To(i) < To(j)
      BY <1>1, <2>2
    <2> HIDE DEF At, From, To
    <2>14. Len(after) = n - 1 /\ after \in Seq(Entries)
      <3> DEFINE p == n - 1
      <3>1. p \in Nat /\ after \in [1..p -> Entries]
        BY <2>9
      <3> HIDE DEF p
      <3>2. Len(after) = p /\ after \in Seq(Entries)
        BY <3>1, NamesOfAList
      <3> QED
        BY <3>2 DEF p
    <2>15. ASSUME NEW i \in 1..n - 1, NEW j \in 1..n - 1, after[i].name = after[j].name
           PROVE  i = j
      <3>1. r[From(i)].name = r[From(j)].name
        BY <2>9, <2>15
      <3>2. From(i) = From(j)
        BY <2>5, <2>8, <2>11, <3>1
      <3> QED
        BY <2>10, <3>2
    <2>16. after \in Declarations
      BY <2>14, <2>15 DEF Declarations, Apart
    <2>17. /\ Names(after) = {after[i].name : i \in 1..n - 1}
           /\ \A i \in 1..n - 1 : TypeFor(after, after[i].name) = after[i].type
      BY <2>14, <2>16, DeclarationsAre
    <2>18. \A i \in 1..n : i # lo /\ i # hi => after[To(i)].name = before[i].name
                                             /\ after[To(i)].type = before[i].type
      BY <1>7, <2>4, <2>9, <2>12
    <2>19. Names(before) \ Names(after) \subseteq {name}
      <3> SUFFICES ASSUME NEW i \in 1..n, before[i].name # name PROVE before[i].name \in Names(after)
        BY <1>2
      <3>1. CASE i # lo /\ i # hi
        BY <2>12, <2>17, <2>18, <3>1
      <3>2. CASE i \in {lo, hi}
        <4>1. before[i].name = typed
          BY <1>3, <2>1, <2>2, <3>2
        <4>2. lo \in 1..n - 1 /\ From(lo) = hi
          BY <1>1, <2>2 DEF From
        <4>3. after[lo].name = typed
          BY <2>3, <2>9, <4>2
        <4> QED
          BY <2>17, <4>1, <4>2, <4>3
      <3> QED
        BY <3>1, <3>2
    <2>20. ASSUME NEW i \in 1..n - 1
           PROVE  /\ after[i].name # name
                  /\ after[i].name \in Names(before)
                  /\ after[i].name # typed => From(i) # hi
      <3>1. CASE From(i) = hi
        BY <1>9, <2>3, <2>9, <3>1
      <3>2. CASE From(i) # hi
        <4>1. after[i].name = before[From(i)].name /\ after[i].name # name
          BY <2>4, <2>8, <2>9, <2>11, <3>2
        <4> QED
          BY <1>2, <2>8, <3>2, <4>1
      <3> QED
        BY <3>1, <3>2
    <2>21. Names(after) \subseteq Names(before) /\ name \notin Names(after)
      BY <2>17, <2>20
    <2>22. ASSUME NEW key \in (Names(before) \cap Names(after)) \ {typed}
           PROVE  TypeFor(before, key) = TypeFor(after, key)
      <3>1. PICK i \in 1..n - 1 : after[i].name = key
        BY <2>17
      <3>2. From(i) \in 1..n /\ From(i) # lo /\ From(i) # hi
        BY <2>8, <2>11, <2>20, <3>1
      <3>3. after[i].name = before[From(i)].name /\ after[i].type = before[From(i)].type
        BY <1>7, <2>4, <2>9, <3>2
      <3> QED
        BY <1>2, <2>17, <3>1, <3>2, <3>3
    <2>23. ASSUME NEW first \in (Names(before) \cap Names(after)) \ {typed},
                  NEW second \in (Names(before) \cap Names(after)) \ {typed},
                  InOrder(before, first, second)
           PROVE  InOrder(after, first, second)
      <3>1. PICK i, j \in 1..n : i < j /\ before[i].name = first /\ before[j].name = second
        BY <2>23 DEF InOrder
      <3>2. i # lo /\ i # hi /\ j # lo /\ j # hi
        BY <1>3, <2>1, <2>2, <2>21, <3>1
      <3>3. To(i) \in 1..n - 1 /\ To(j) \in 1..n - 1 /\ To(i) < To(j)
        BY <2>12, <2>13, <3>1, <3>2
      <3>4. after[To(i)].name = first /\ after[To(j)].name = second
        BY <2>18, <3>1, <3>2
      <3> QED
        BY <2>14, <3>3, <3>4, Zenon DEF InOrder
    <2>24. KeepTheirPlace(before, after)
      <3>1. Names(before) \ Names(after) # {} /\ Names(after) \ Names(before) = {}
        BY <2>21
      <3>2. {typed} \in SUBSET {typed}
        OBVIOUS
      <3> QED
        BY <2>16, <2>19, <2>22, <2>23, <3>1, <3>2, ChangesOfOne
    <2> QED
      BY <2>16, <2>24 DEF after
  <1> QED
    BY <1>8, <1>9

-----------------------------------------------------------------------------
(* The other changes of the panel.                                         *)

LEMMA SameKeeps == ASSUME NEW fields \in Declarations PROVE KeepTheirPlace(fields, fields)
  <1>1. /\ Names(fields) \ Names(fields) \subseteq {0}
        /\ \A name \in Names(fields) \ Names(fields) : FALSE
    OBVIOUS
  <1>2. {} \in SUBSET {0}
    OBVIOUS
  <1> QED
    BY <1>1, <1>2, ChangesOfOne

(* A field of another type is where it was.                                *)
LEMMA RetypingKeeps ==
    ASSUME NEW before \in Declarations, NEW name \in Names(before), NEW type \in Declared
    PROVE  LET after == Assign(before, Field(name, type)) IN
           after \in Declarations /\ KeepTheirPlace(before, after)
  <1> DEFINE n == Len(before)
             entry == Field(name, type)
             after == Assign(before, entry)
  <1>1. before \in Seq(Entries) /\ Apart(before) /\ n \in Nat
        /\ \A i \in 1..n : before[i] \in Entries
    BY ElementOfSeq DEF Declarations
  <1>2. /\ Names(before) = {before[i].name : i \in 1..n}
        /\ \A i \in 1..n : TypeFor(before, before[i].name) = before[i].type
    BY DeclarationsAre
  <1>3. entry.name = name /\ entry \in Entries
    BY <1>1, <1>2 DEF Field, Entries
  <1> HIDE DEF entry
  <1>4. before \in [1..n -> Entries]
    BY <1>1, LenProperties
  <1>5. /\ after \in [1..n -> Entries]
        /\ \A i \in 1..n : after[i] = IF before[i].name = name THEN entry ELSE before[i]
    <2>1. entry.name \in {before[i].name : i \in 1..n}
      BY <1>2, <1>3
    <2> QED
      BY <1>1, <1>3, <1>4, <2>1, AssignsInPlace
  <1> HIDE DEF after
  <1>6. Len(after) = n /\ after \in Seq(Entries)
    BY <1>1, <1>5, NamesOfAList
  <1>7. \A i \in 1..n : after[i].name = before[i].name
    BY <1>3, <1>5
  <1>8. after \in Declarations
    BY <1>1, <1>6, <1>7 DEF Declarations, Apart
  <1>9. /\ Names(after) = {after[i].name : i \in 1..n}
        /\ \A i \in 1..n : TypeFor(after, after[i].name) = after[i].type
    BY <1>6, <1>8, DeclarationsAre
  <1>10. Names(after) = Names(before)
    BY <1>2, <1>7, <1>9
  <1>11. ASSUME NEW key \in Names(before), key # name
         PROVE  TypeFor(before, key) = TypeFor(after, key)
    <2>1. PICK i \in 1..n : before[i].name = key
      BY <1>2
    <2>2. after[i] = before[i]
      BY <1>5, <1>11, <2>1
    <2> QED
      BY <1>2, <1>9, <2>1, <2>2
  <1>12. \A first, second : InOrder(before, first, second) => InOrder(after, first, second)
    BY <1>6, <1>7 DEF InOrder
  <1>13. {} \in SUBSET {name}
    OBVIOUS
  <1>14. KeepTheirPlace(before, after)
    BY <1>8, <1>10, <1>11, <1>12, <1>13, ChangesOfOne
  <1> QED
    BY <1>8, <1>14 DEF after, entry

(* A field that is removed leaves the others in their order.               *)
LEMMA RemovingKeeps ==
    ASSUME NEW before \in Declarations, NEW name \in Names(before)
    PROVE  LET after == RemoveAt(before, SelectInSeq(before, LAMBDA entry : entry.name = name)) IN
           after \in Declarations /\ KeepTheirPlace(before, after)
  <1> DEFINE n == Len(before)
             I == {i \in 1..n : before[i].name = name}
             at == IF I # {} THEN Min(I) ELSE 0
             after == RemoveAt(before, at)
             From(i) == IF i < at THEN i ELSE i + 1
             To(i) == IF i < at THEN i ELSE i - 1
  <1>1. before \in Seq(Entries) /\ Apart(before) /\ n \in Nat
    BY DEF Declarations
  <1>2. /\ Names(before) = {before[i].name : i \in 1..n}
        /\ \A i \in 1..n : TypeFor(before, before[i].name) = before[i].type
    BY DeclarationsAre
  <1>3. at = SelectInSeq(before, LAMBDA entry : entry.name = name)
    BY DEF SelectInSeq
  <1>4. at \in 1..n /\ before[at].name = name
    <2>1. FirstIn(I, n, at)
      <3>1. I \in SUBSET (1..n)
        OBVIOUS
      <3> HIDE DEF I
      <3> QED
        BY <1>1, <3>1, FirstIsThere
    <2>2. I # {}
      BY <1>2
    <2> QED
      BY <2>1, <2>2 DEF FirstIn
  <1> HIDE DEF at
  <1>5. /\ after \in Seq(Entries) /\ Len(after) = n - 1
        /\ \A i \in 1..n - 1 : after[i] = before[From(i)]
    <2>1. /\ after \in Seq(Entries) /\ Len(after) = n - 1
          /\ \A i \in 1..n - 1 : after[i] = IF i < at THEN before[i] ELSE before[i + 1]
      BY <1>1, <1>4, TakenOut
    <2> QED
      BY <2>1
  <1> HIDE DEF after
  <1>6. \A i \in 1..n - 1 : From(i) \in 1..n /\ From(i) # at
    BY <1>1, <1>4
  <1>7. \A i, j \in 1..n - 1 : From(i) = From(j) => i = j
    BY <1>1, <1>4
  <1>8. \A i \in 1..n : i # at => To(i) \in 1..n - 1 /\ From(To(i)) = i
    BY <1>1, <1>4
  <1>9. \A i, j \in 1..n : i < j /\ i # at /\ j # at => To(i) < To(j)
    BY <1>1, <1>4
  <1> HIDE DEF From, To
  <1>10. \A i \in 1..n : i # at => after[To(i)] = before[i]
    BY <1>5, <1>8
  <1>11. after \in Declarations
    <2>1. ASSUME NEW i \in 1..n - 1, NEW j \in 1..n - 1, after[i].name = after[j].name PROVE i = j
      <3>1. From(i) = From(j)
        BY <1>1, <1>5, <1>6, <2>1 DEF Apart
      <3> QED
        BY <1>7, <3>1
    <2> QED
      BY <1>5, <2>1 DEF Declarations, Apart
  <1>12. /\ Names(after) = {after[i].name : i \in 1..n - 1}
         /\ \A i \in 1..n - 1 : TypeFor(after, after[i].name) = after[i].type
    BY <1>5, <1>11, DeclarationsAre
  <1>13. Names(after) \subseteq Names(before) /\ name \notin Names(after)
    <2>1. \A i \in 1..n - 1 : after[i].name \in Names(before) /\ after[i].name # name
      BY <1>1, <1>2, <1>4, <1>5, <1>6 DEF Apart
    <2> QED
      BY <1>12, <2>1
  <1>14. Names(before) \ Names(after) \subseteq {name}
    <2>1. \A i \in 1..n : i # at => before[i].name \in Names(after)
      BY <1>8, <1>10, <1>12
    <2> QED
      BY <1>2, <1>4, <2>1
  <1>15. ASSUME NEW key \in Names(before) \cap Names(after)
         PROVE  TypeFor(before, key) = TypeFor(after, key)
    <2>1. PICK i \in 1..n - 1 : after[i].name = key
      BY <1>12
    <2> QED
      BY <1>2, <1>5, <1>6, <1>12, <2>1
  <1>16. ASSUME NEW first \in Names(before) \cap Names(after),
                NEW second \in Names(before) \cap Names(after),
                InOrder(before, first, second)
         PROVE  InOrder(after, first, second)
    <2>1. PICK i, j \in 1..n : i < j /\ before[i].name = first /\ before[j].name = second
      BY <1>16 DEF InOrder
    <2>2. i # at /\ j # at
      BY <1>4, <1>13, <2>1
    <2>3. To(i) \in 1..n - 1 /\ To(j) \in 1..n - 1 /\ To(i) < To(j)
      BY <1>8, <1>9, <2>1, <2>2
    <2>4. after[To(i)].name = first /\ after[To(j)].name = second
      BY <1>10, <2>1, <2>2
    <2> QED
      BY <1>5, <2>3, <2>4, Zenon DEF InOrder
  <1>17. {} \in SUBSET {name}
    OBVIOUS
  <1>18. Names(after) \ Names(before) = {}
    BY <1>13
  <1>19. KeepTheirPlace(before, after)
    BY <1>11, <1>14, <1>15, <1>16, <1>17, <1>18, ChangesOfOne
  <1> QED
    BY <1>3, <1>11, <1>19 DEF after

(* Of more suggestions than there are fields one is free; the new field    *)
(* comes last.                                                             *)
LEMMA RequiringKeeps ==
    ASSUME NEW before \in Declarations, Len(before) < MaxFields
    PROVE  LET free == SelectInSeq(Suggested, LAMBDA name : name \notin Names(before))
               after == Assign(before, Field(Suggested[free], "any"))
           IN  after \in Declarations /\ Len(after) > 0 /\ KeepTheirPlace(before, after)
  <1> DEFINE n == Len(before)
             m == Len(Suggested)
             I == {i \in 1..m : Suggested[i] \notin Names(before)}
             free == IF I # {} THEN Min(I) ELSE 0
             fresh == Suggested[free]
             entry == Field(fresh, "any")
             after == Assign(before, entry)
  <1>1. before \in Seq(Entries) /\ Apart(before) /\ n \in Nat
        /\ \A i \in 1..n : before[i] \in Entries
    BY ElementOfSeq DEF Declarations
  <1>2. /\ Names(before) = {before[i].name : i \in 1..n}
        /\ \A i \in 1..n : TypeFor(before, before[i].name) = before[i].type
        /\ IsFiniteSet(Names(before)) /\ Cardinality(Names(before)) = n
    BY DeclarationsAre
  <1>3. m \in Nat /\ n < m /\ \A i \in 1..m : Suggested[i] \in FieldName
    BY <1>1, InputsAssumption
  <1>4. free = SelectInSeq(Suggested, LAMBDA name : name \notin Names(before))
    BY DEF SelectInSeq
  <1>5. I # {}
    <2> SUFFICES ASSUME I = {} PROVE FALSE
      OBVIOUS
    <2> DEFINE f == [i \in 1..m |-> Suggested[i]]
    <2>1. f \in [1..m -> Names(before)]
      OBVIOUS
    <2>2. IsFiniteSet(1..m) /\ Cardinality(1..m) = m
      <3> HIDE DEF m
      <3> QED
        BY <1>3, FS_Interval
    <2>3. Cardinality(Names(before)) < Cardinality(1..m)
      BY <1>2, <1>3, <2>2
    <2>4. PICK x, y \in 1..m : x # y /\ f[x] = f[y]
      <3> DEFINE S == 1..m
                 T == Names(before)
      <3>1. f \in [S -> T] /\ IsFiniteSet(S) /\ IsFiniteSet(T) /\ Cardinality(T) < Cardinality(S)
        BY <1>2, <2>1, <2>2, <2>3
      <3> HIDE DEF f, S, T
      <3>2. \E x, y \in S : x # y /\ f[x] = f[y]
        BY <3>1, FS_PigeonHole
      <3> QED
        BY <3>2 DEF S
    <2> QED
      BY <2>4, InputsAssumption DEF f
  <1>6. free \in 1..m /\ fresh \notin Names(before)
    <2>1. FirstIn(I, m, free)
      <3>1. I \in SUBSET (1..m)
        OBVIOUS
      <3> HIDE DEF I
      <3> QED
        BY <1>3, <3>1, FirstIsThere
    <2> HIDE DEF free
    <2> QED
      BY <1>5, <2>1 DEF FirstIn
  <1> HIDE DEF free
  <1>7. entry \in Entries /\ entry.name = fresh
    BY <1>3, <1>6, InputsAssumption DEF Field, Entries
  <1> HIDE DEF entry
  <1>8. before \in [1..n -> Entries]
    BY <1>1, LenProperties
  <1>9. /\ after \in [1..n + 1 -> Entries]
        /\ \A i \in 1..n + 1 : after[i] = IF i <= n THEN before[i] ELSE entry
    <2>1. \A i \in 1..n : before[i].name # entry.name
      BY <1>2, <1>6, <1>7
    <2> QED
      BY <1>1, <1>7, <1>8, <2>1, AssignsLast
  <1> HIDE DEF after, fresh
  <1>13. \A i \in 1..n : i \in 1..n + 1 /\ after[i] = before[i]
    BY <1>1, <1>9
  <1>10. Len(after) = n + 1 /\ after \in Seq(Entries)
    <2> DEFINE p == n + 1
    <2>1. p \in Nat /\ after \in [1..p -> Entries]
      BY <1>1, <1>9
    <2> HIDE DEF p
    <2>2. Len(after) = p /\ after \in Seq(Entries)
      BY <2>1, NamesOfAList
    <2> QED
      BY <2>2 DEF p
  <1>11. after \in Declarations
    <2>1. ASSUME NEW i \in 1..n + 1, NEW j \in 1..n + 1, after[i].name = after[j].name PROVE i = j
      <3>1. \A k \in 1..n : after[k] = before[k] /\ before[k].name # fresh
        BY <1>2, <1>6, <1>13
      <3>2. after[n + 1].name = fresh
        BY <1>1, <1>7, <1>9
      <3>3. CASE i \in 1..n /\ j \in 1..n
        BY <1>1, <2>1, <3>1, <3>3 DEF Apart
      <3>4. CASE ~(i \in 1..n /\ j \in 1..n)
        <4>1. i = n + 1 \/ j = n + 1
          BY <1>1, <3>4
        <4>2. (i \in 1..n \/ i = n + 1) /\ (j \in 1..n \/ j = n + 1)
          BY <1>1
        <4> QED
          BY <2>1, <3>1, <3>2, <4>1, <4>2
      <3> QED
        BY <3>3, <3>4
    <2> QED
      BY <1>10, <2>1 DEF Declarations, Apart
  <1>12. /\ Names(after) = {after[i].name : i \in 1..n + 1}
         /\ \A i \in 1..n + 1 : TypeFor(after, after[i].name) = after[i].type
    BY <1>10, <1>11, DeclarationsAre
  <1>14. Names(before) \subseteq Names(after)
    BY <1>2, <1>12, <1>13
  <1>15. Names(after) \ Names(before) \subseteq {fresh}
    <2>1. \A i \in 1..n + 1 : after[i].name \in Names(before) \/ after[i].name = fresh
      <3> SUFFICES ASSUME NEW i \in 1..n + 1
                   PROVE  after[i].name \in Names(before) \/ after[i].name = fresh
        OBVIOUS
      <3>1. CASE i \in 1..n
        BY <1>2, <1>13, <3>1
      <3>2. CASE i \notin 1..n
        BY <1>1, <1>7, <1>9, <3>2
      <3> QED
        BY <3>1, <3>2
    <2> QED
      BY <1>12, <2>1
  <1>16. ASSUME NEW key \in Names(before)
         PROVE  TypeFor(before, key) = TypeFor(after, key)
    <2>1. PICK i \in 1..n : before[i].name = key
      BY <1>2
    <2> QED
      BY <1>2, <1>12, <1>13, <2>1
  <1>17. \A first, second : InOrder(before, first, second) => InOrder(after, first, second)
    BY <1>10, <1>13 DEF InOrder
  <1>18. {} \in SUBSET {fresh}
    OBVIOUS
  <1>19. Names(before) \ Names(after) = {}
    BY <1>14
  <1>20. KeepTheirPlace(before, after)
    BY <1>11, <1>15, <1>16, <1>17, <1>18, <1>19, ChangesOfOne
  <1>21. Len(after) > 0
    BY <1>1, <1>10
  <1> QED
    BY <1>4, <1>11, <1>20, <1>21 DEF after, entry, fresh

-----------------------------------------------------------------------------
(* What holds of the panel and of the input of a test.  An input that was  *)
(* not typed over is of the fields it was last written for, and those are  *)
(* the ones declared, if any are.                                          *)
Asked(fields) == {<<entry.name, ExampleOf(entry.type)>> : entry \in ToSet(fields)}

InputsInv ==
    /\ schema \in Declarations /\ inputNode \in BOOLEAN
    /\ ~inputNode => schema = <<>>
    /\ schema # <<>> => seeded = schema
    /\ testInput # Typed => testInput = Asked(seeded)

(* What a change of the panel does.                                        *)
Keeping ==
    /\ InputsInv'
    /\ inputNode /\ inputNode' /\ seeded' = schema' => KeepTheirPlace(schema, schema')
    /\ testInput = Typed /\ testInput' # Typed => schema' # schema

LEMMA NothingIsADeclaration == <<>> \in Declarations
  BY DEF Declarations, Apart

(* A changed declaration is asked for.                                     *)
LEMMA DeclaringKeeps ==
    ASSUME InputsInv, inputNode, NEW after \in Declarations, KeepTheirPlace(schema, after),
           schema # <<>> \/ after # <<>>, Declare(after)
    PROVE  Keeping
  <1>1. schema' = after /\ seeded' = after /\ inputNode' = inputNode
        /\ IF seeded = after THEN testInput' = testInput ELSE testInput' = Asked(after)
    BY Zenon DEF Declare, Seeds, Asked
  <1>2. InputsInv'
    <2>1. testInput' # Typed => testInput' = Asked(after)
      <3>1. CASE seeded = after
        BY <1>1, <3>1, Zenon DEF InputsInv
      <3>2. CASE seeded # after
        BY <1>1, <3>2, Zenon
      <3> QED
        BY <3>1, <3>2, Zenon
    <2>2. (testInput # Typed => testInput = Asked(seeded))'
      BY <1>1, <2>1, Zenon DEF Asked
    <2> QED
      BY <1>1, <2>2, Zenon DEF InputsInv
  <1>3. ASSUME testInput = Typed, testInput' # Typed, schema' = schema PROVE FALSE
    <2>1. seeded # after
      BY <1>1, <1>3, Zenon
    <2>2. schema = <<>>
      BY <1>1, <1>3, <2>1, Zenon DEF InputsInv
    <2> QED
      BY <1>1, <1>3, <2>2, Zenon
  <1> QED
    BY <1>1, <1>2, <1>3, Zenon DEF Keeping

LEMMA InputsStart == InputsInit => InputsInv
  <1> SUFFICES ASSUME InputsInit PROVE InputsInv
    OBVIOUS
  <1>1. Asked(<<>>) = {}
    BY DEF Asked, ToSet
  <1> QED
    BY <1>1, NothingIsADeclaration DEF InputsInit, InputsInv

LEMMA NamedSo == ASSUME schema \in Declarations, NEW name \in Names(schema) PROVE schema # <<>>
  <1>1. Names(<<>>) = {}
    BY DEF Names, ToSet
  <1> QED
    BY <1>1

LEMMA InputsStep == InputsInv /\ InputsNext => Keeping
  <1> SUFFICES ASSUME InputsInv, InputsNext PROVE Keeping
    OBVIOUS
  <1>0. schema \in Declarations
    BY DEF InputsInv
  <1>1. ASSUME NEW name \in Names(schema), NEW typed \in FieldName, RenameField(name, typed)
        PROVE  Keeping
    <2> DEFINE after == Rebuilt(name, typed, schema)
    <2>1. inputNode /\ typed # name /\ Declare(Ordered(after))
      BY <1>1, Zenon DEF RenameField, Shown, Rebuilt, Renaming
    <2>2. after \in Declarations /\ KeepTheirPlace(schema, after)
      BY <1>0, <1>1, <2>1, RenamingKeeps
    <2> HIDE DEF after
    <2>3. Ordered(after) \in Declarations /\ KeepTheirPlace(schema, Ordered(after))
      BY <1>0, <2>2, NumbersFirst, KeptInOrder
    <2>4. schema # <<>>
      BY <1>0, <1>1, NamedSo
    <2> QED
      BY <2>1, <2>3, <2>4, DeclaringKeeps
  <1>2. ASSUME NEW name \in Names(schema), NEW type \in Declared, RetypeField(name, type)
        PROVE  Keeping
    <2> DEFINE after == Assign(schema, Field(name, type))
    <2>1. inputNode /\ Declare(after)
      BY <1>2 DEF RetypeField, Shown
    <2>2. after \in Declarations /\ KeepTheirPlace(schema, after)
      BY <1>0, <1>2, RetypingKeeps
    <2> HIDE DEF after
    <2>3. schema # <<>>
      BY <1>0, <1>2, NamedSo
    <2> QED
      BY <2>1, <2>2, <2>3, DeclaringKeeps
  <1>3. ASSUME NEW name \in Names(schema), RemoveField(name)
        PROVE  Keeping
    <2> DEFINE after == RemoveAt(schema, SelectInSeq(schema, LAMBDA entry : entry.name = name))
    <2>1. inputNode /\ Declare(after)
      BY <1>3 DEF RemoveField, Shown
    <2>2. after \in Declarations /\ KeepTheirPlace(schema, after)
      BY <1>0, <1>3, RemovingKeeps
    <2> HIDE DEF after
    <2>3. schema # <<>>
      BY <1>0, <1>3, NamedSo
    <2> QED
      BY <2>1, <2>2, <2>3, DeclaringKeeps
  <1>4. ASSUME RequireField PROVE Keeping
    <2> DEFINE free == SelectInSeq(Suggested, LAMBDA name : name \notin Names(schema))
               after == Assign(schema, Field(Suggested[free], "any"))
    <2>1. inputNode /\ Len(schema) < MaxFields /\ Declare(Ordered(after))
      BY <1>4, Zenon DEF RequireField, Shown
    <2>2. after \in Declarations /\ Len(after) > 0 /\ KeepTheirPlace(schema, after)
      BY <1>0, <2>1, RequiringKeeps
    <2> HIDE DEF after
    <2>3. /\ Ordered(after) \in Declarations /\ KeepTheirPlace(schema, Ordered(after))
          /\ Len(Ordered(after)) > 0
      BY <1>0, <2>2, NumbersFirst, KeptInOrder
    <2>4. Ordered(after) # <<>>
      BY <2>3
    <2> QED
      BY <2>1, <2>3, <2>4, DeclaringKeeps
  <1>5. ASSUME TypeTestInput PROVE Keeping
    <2>1. testInput' = Typed /\ inputNode' = inputNode /\ schema' = schema /\ seeded' = seeded
      BY <1>5 DEF TypeTestInput
    <2>2. InputsInv'
      BY <2>1, Zenon DEF InputsInv
    <2> QED
      BY <1>0, <2>1, <2>2, SameKeeps DEF Keeping
  <1>6. ASSUME RemoveInputNode PROVE Keeping
    <2>1. inputNode' = FALSE /\ schema' = <<>> /\ seeded' = seeded /\ testInput' = testInput
      BY <1>6 DEF RemoveInputNode
    <2>2. InputsInv'
      <3>1. (testInput # Typed => testInput = Asked(seeded))'
        BY <2>1, Zenon DEF InputsInv, Asked
      <3> QED
        BY <2>1, <3>1, NothingIsADeclaration, Zenon DEF InputsInv
    <2> QED
      BY <2>1, <2>2, Zenon DEF Keeping
  <1>7. ASSUME AddInputNode PROVE Keeping
    <2> DEFINE declared == <<Field("loan_id", "string")>>
    <2>1. ~inputNode /\ inputNode' = TRUE /\ schema' = declared /\ Seeds(declared)
      BY <1>7 DEF AddInputNode
    <2>2. declared \in Declarations /\ declared # <<>>
      <3>1. Field("loan_id", "string") \in Entries
        BY DEF Field, Entries
      <3> QED
        BY <3>1 DEF Declarations, Apart
    <2> HIDE DEF declared
    <2>3. seeded' = declared
          /\ IF seeded = declared THEN testInput' = testInput ELSE testInput' = Asked(declared)
      BY <2>1, Zenon DEF Seeds, Asked
    <2>4. InputsInv'
      <3>1. testInput' # Typed => testInput' = Asked(declared)
        <4>1. CASE seeded = declared
          BY <2>3, <4>1, Zenon DEF InputsInv
        <4>2. CASE seeded # declared
          BY <2>3, <4>2, Zenon
        <4> QED
          BY <4>1, <4>2, Zenon
      <3>2. (testInput # Typed => testInput = Asked(seeded))'
        BY <2>3, <3>1, Zenon DEF Asked
      <3> QED
        BY <2>1, <2>2, <2>3, <3>2 DEF InputsInv
    <2>5. schema' # schema
      BY <2>1, <2>2, Zenon DEF InputsInv
    <2> QED
      BY <2>1, <2>4, <2>5, Zenon DEF Keeping
  <1>8. ASSUME DeclareNothing PROVE Keeping
    <2>1. schema' = <<>> /\ inputNode' = inputNode /\ seeded' = seeded /\ testInput' = testInput
      BY <1>8 DEF DeclareNothing
    <2>2. InputsInv'
      <3>1. (testInput # Typed => testInput = Asked(seeded))'
        BY <2>1, Zenon DEF InputsInv, Asked
      <3> QED
        BY <2>1, <3>1, NothingIsADeclaration, Zenon DEF InputsInv
    <2>3. seeded' = schema' => schema' = schema
      BY <2>1, Zenon DEF InputsInv
    <2>4. KeepTheirPlace(schema, schema)
      BY <1>0, SameKeeps
    <2> QED
      BY <2>1, <2>2, <2>3, <2>4, Zenon DEF Keeping
  <1> QED
    BY <1>1, <1>2, <1>3, <1>4, <1>5, <1>6, <1>7, <1>8, Zenon DEF InputsNext

(* What is asked for is what is declared, unless it was typed over.        *)
LEMMA AskedIsDeclared == InputsInv => AsksWhatIsDeclared
  <1> SUFFICES ASSUME InputsInv, schema # <<>>, testInput # Typed
               PROVE  /\ {pair[1] : pair \in testInput} = Names(schema)
                      /\ \A entry \in ToSet(schema) :
                            <<entry.name, ExampleOf(entry.type)>> \in testInput
    BY Zenon DEF AsksWhatIsDeclared
  <1>1. testInput = Asked(schema)
    BY Zenon DEF InputsInv
  <1>2. \A pair \in Asked(schema) : \E entry \in ToSet(schema) : pair = <<entry.name, ExampleOf(entry.type)>>
    BY DEF Asked
  <1>3. \A entry \in ToSet(schema) : <<entry.name, ExampleOf(entry.type)>> \in Asked(schema)
    BY DEF Asked
  <1>4. ASSUME NEW pair \in Asked(schema) PROVE pair[1] \in Names(schema)
    <2>1. PICK entry \in ToSet(schema) : pair = <<entry.name, ExampleOf(entry.type)>>
      BY <1>2
    <2>2. pair[1] = entry.name
      BY <2>1
    <2> QED
      BY <2>2 DEF Names
  <1>5. ASSUME NEW name \in Names(schema) PROVE \E pair \in Asked(schema) : pair[1] = name
    <2>1. PICK entry \in ToSet(schema) : entry.name = name
      BY DEF Names
    <2>2. <<entry.name, ExampleOf(entry.type)>> \in Asked(schema)
      BY <1>3
    <2>3. <<entry.name, ExampleOf(entry.type)>>[1] = name
      BY <2>1
    <2> QED
      BY <2>2, <2>3, Zenon
  <1>6. {pair[1] : pair \in Asked(schema)} = Names(schema)
    BY <1>4, <1>5
  <1> QED
    BY <1>1, <1>3, <1>6, Zenon

LEMMA InputsStepOrNot == InputsInv /\ [InputsNext]_inputVars => InputsInv'
  <1> SUFFICES ASSUME InputsInv, UNCHANGED inputVars PROVE InputsInv'
    BY InputsStep DEF Keeping
  <1>1. inputNode' = inputNode /\ schema' = schema /\ seeded' = seeded /\ testInput' = testInput
    BY Zenon DEF inputVars
  <1> QED
    BY <1>1, Zenon DEF InputsInv, Asked

(* A field that is not being edited keeps its name, its type and its place, *)
(* and a test asks for what is declared (InputsKeepTheirPlace), whatever   *)
(* the names, types and suggestions and however many fields.               *)
THEOREM InputsKeepTheirPlaceAlways == Spec => InputsKeepTheirPlace
  <1>1. Init => InputsInv
    BY InputsStart DEF Init
  <1>2. InputsInv /\ [Next]_vars => InputsInv'
    <2> SUFFICES ASSUME InputsInv, [Next]_vars PROVE InputsInv'
      OBVIOUS
    <2>1. [InputsNext]_inputVars
      BY Zenon DEF Next, vars
    <2> QED
      BY <2>1, InputsStepOrNot
  <1>3. InputsInv /\ [Next]_vars =>
          [inputNode /\ inputNode' /\ seeded' = schema' => KeepTheirPlace(schema, schema')]_inputVars
    BY InputsStep, Zenon DEF Next, vars, Keeping
  <1>4. InputsInv /\ [Next]_vars =>
          [testInput = Typed /\ testInput' # Typed => schema' # schema]_inputVars
    BY InputsStep, Zenon DEF Next, vars, Keeping
  <1> QED
    BY <1>1, <1>2, <1>3, <1>4, AskedIsDeclared, PTL
    DEF Spec, InputsKeepTheirPlace, FieldsKeepTheirPlace, TestAsksWhatIsDeclared
=============================================================================
