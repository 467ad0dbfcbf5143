----------------------------- MODULE StudioEditor -----------------------------
(***************************************************************************)
(* The Studio page of the console (console/studio/page.tsx): one canvas,   *)
(* its undo stack, the record it is a draft of, the writes on their way,    *)
(* and the steps that wait for one: a run, which needs the server to hold   *)
(* what is on screen, and the back link, which must not lose it.            *)
(*                                                                         *)
(* Writes overlap: the save button is disabled during a save, but ctrl-S   *)
(* is not, and neither are New, Open and the back link.  What an operation  *)
(* draws is not told apart here, only which canvas it was drawn on and      *)
(* whether two drawings are the same; modes and panes, which any person     *)
(* can switch at any time, are left out.                                   *)
(***************************************************************************)
EXTENDS Naturals, Sequences, FiniteSets, SequencesExt

CONSTANTS Visit,     \* the kinds of visit, see below
          Record,    \* the workflows there were before this visit
          NewRecord, \* ids the server can still give; bounds the creations
          MaxNew,    \* bound on the presses of New
          Rev,       \* what a drawing can look like; 0 is blankWorkflow
          Broken,    \* those that validation blocks
          MaxWrites, \* bound on the writes on their way
          HISTORY,   \* the length of the undo stack, 50 in the code
          Null

ASSUME EditorAssumption ==
    /\ Visit \subseteq {"calm", "hurried", "lossy"}
    /\ 0 \in Rev /\ Rev \subseteq Nat /\ Broken \subseteq Rev
    /\ MaxNew \in Nat /\ MaxWrites \in Nat \ {0} /\ HISTORY \in Nat \ {0}
    /\ Record \cap NewRecord = {} /\ Record \cap 0..MaxNew = {}
    /\ Null \notin Record \cup NewRecord \cup {"screen", "left", "other"}
    /\ Null \notin [of : Record \cup 0..MaxNew, rev : Rev]

(* Who is at the keyboard, and on what network, for the whole visit:       *)
(* "calm" starts nothing while something it started is on its way, except   *)
(* editing, and leaving unless a record is being opened, and redoes nothing *)
(* New left to redo from another canvas; "hurried" does both; "lossy" is    *)
(* calm and runs nothing, and the answer to a write that was carried out   *)
(* can be lost.                                                            *)
VARIABLES visit, page,       \* "here", then "saved" (by the back link) or "away"
          presses,           \* of New
          canvas,            \* which canvas is on screen: of a record, or of a press
          definition,        \* what is drawn on it
          current,           \* currentRef: the record it is a draft of
          savedJson,         \* the drawing last confirmed by the server, or Null
          history, undone,   \* for undo and redo; the code calls the latter future
          writes,            \* writes on their way
          saving,            \* the one registered in saving.current, or 0
          leaving,           \* flushAndLeave, and the write it waits for
          leaveError, busy, blocking,
          ask,               \* the open, compile or deploy on its way
          run,               \* the run, from press to answer
          ran,               \* whether what ran is what was on screen
          store              \* the drafts the server holds

editorVars ==
    <<visit, page, presses, canvas, definition, current, savedJson, history, undone,
      writes, saving, leaving, leaveError, busy, blocking, ask, run, ran, store>>

RecordId == Record \cup NewRecord
Canvas == Record \cup 0..MaxNew
Definition == [of : Canvas, rev : Rev]
Write == 1..MaxWrites

blankWorkflow(k) == [of |-> k, rev |-> 0]

NoWrite == [at |-> "none", id |-> Null, def |-> Null]
NotLeaving == [at |-> "no", slot |-> 0, def |-> Null]
NoAsk == [what |-> "none", id |-> Null, got |-> Null]
NotRunning == [at |-> "no", slot |-> 0, id |-> Null, def |-> Null]

-----------------------------------------------------------------------------
(* What the header shows and the panels offer.                             *)

Unsaved == definition # (IF current # Null THEN savedJson ELSE blankWorkflow(canvas))

Quiet == (\A w \in Write : writes[w].at = "none") /\ ask = NoAsk /\ run = NotRunning
May == page = "here" /\ (visit # "hurried" => Quiet /\ leaving = NotLeaving)

RunOffered == page = "here" /\ busy # "run" /\ ~blocking
CompileOffered == May /\ current # Null /\ busy # "compile" /\ ~blocking
DeployOffered == May /\ current # Null

-----------------------------------------------------------------------------
(* Editing.                                                                *)

(* apply: every edit goes on the undo stack but renaming in the header.    *)
Edit(rev) ==
    /\ page = "here" /\ rev # definition.rev
    /\ LET kept == IF Len(history) < HISTORY THEN history ELSE Tail(history) IN
          history' = Append(kept, definition)
    /\ undone' = <<>>
    /\ definition' = [definition EXCEPT !.rev = rev]
    /\ UNCHANGED <<visit, page, presses, canvas, current, savedJson, writes, saving,
                   leaving, leaveError, busy, blocking, ask, run, ran, store>>

(* Mutant: what is undone cannot be redone. *)
Undo_Forgets ==
    /\ page = "here" /\ history # <<>>
    /\ definition' = Last(history) /\ history' = Front(history)
    /\ UNCHANGED <<visit, page, presses, canvas, current, savedJson, undone, writes,
                   saving, leaving, leaveError, busy, blocking, ask, run, ran, store>>

Undo ==
    /\ page = "here" /\ history # <<>>
    /\ definition' = Last(history) /\ history' = Front(history)
    /\ undone' = Append(undone, definition)
    /\ UNCHANGED <<visit, page, presses, canvas, current, savedJson, writes, saving,
                   leaving, leaveError, busy, blocking, ask, run, ran, store>>

Redo ==
    /\ page = "here" /\ undone # <<>>
    /\ visit # "hurried" => Last(undone).of = canvas
    /\ definition' = Last(undone) /\ undone' = Front(undone)
    /\ history' = Append(history, definition)
    /\ UNCHANGED <<visit, page, presses, canvas, current, savedJson, writes, saving,
                   leaving, leaveError, busy, blocking, ask, run, ran, store>>

(* New: the undo stack goes, the redo stack stays.                         *)
New ==
    /\ May /\ presses < MaxNew
    /\ presses' = presses + 1
    /\ canvas' = presses' /\ definition' = blankWorkflow(presses')
    /\ current' = Null /\ savedJson' = Null /\ history' = <<>>
    /\ leaveError' = FALSE /\ blocking' = FALSE
    /\ UNCHANGED <<visit, page, undone, writes, saving, leaving, busy, ask, run, ran,
                   store>>

-----------------------------------------------------------------------------
(* Writing.                                                                *)

FreeId == {n \in NewRecord : store[n] = Null}
FreeWrite == {w \in Write : writes[w].at = "none"}

(* The request persist makes: a POST while no record is known, else a PUT. *)
Sent(known, def) == [at |-> "sent", id |-> known, def |-> def]

(* save: ctrl-S, or the button.                                            *)
Save ==
    /\ May /\ FreeWrite # {}
    /\ LET w == CHOOSE v \in FreeWrite : TRUE IN
          /\ writes' = [writes EXCEPT ![w] = Sent(current, definition)]
          /\ saving' = w
    /\ busy' = "save"
    /\ UNCHANGED <<visit, page, presses, canvas, definition, current, savedJson,
                   history, undone, leaving, leaveError, blocking, ask, run, ran,
                   store>>

(* The API carries a write out; answers to several come in any order.      *)
Apply(w) ==
    /\ writes[w].at \in {"sent", "orphan"}
    /\ writes[w].id # Null \/ FreeId # {}
    /\ LET id == IF writes[w].id # Null THEN writes[w].id ELSE CHOOSE n \in FreeId : TRUE IN
          /\ store' = [store EXCEPT ![id] = writes[w].def]
          /\ writes' = [writes EXCEPT ![w] =
                IF @.at = "orphan" THEN NoWrite ELSE [@ EXCEPT !.at = "applied", !.id = id]]
    /\ UNCHANGED <<visit, page, presses, canvas, definition, current, savedJson,
                   history, undone, saving, leaving, leaveError, busy, blocking, ask,
                   run, ran>>

(* What a write that ended confirms, and what it leaves registered.        *)
(* Mutant: what is on screen by then. *)
Confirmed_Screen(w) == definition
Confirmed(w) == writes[w].def
Cleared(w) == IF saving = w THEN 0 ELSE saving

(* What the back link does when the write it waits for has ended.          *)
LeavesNow(w, ok) ==
    /\ leaving.at # "no" /\ leaving.slot = w /\ ok
    /\ leaving.at = "inFlight" => writes[w].def = leaving.def

WritesAgain(w, ok) ==
    /\ leaving.at = "inFlight" /\ leaving.slot = w /\ ok
    /\ writes[w].def # leaving.def

Refuses(w, ok) == leaving.at # "no" /\ leaving.slot = w /\ ~ok

(* persist's tail, and in the same turn of the event loop what waited for  *)
(* it: the run that needed the save, and the back link, which may write     *)
(* again what it captured.  rest is what is left of the request.           *)
Settle(w, ok, rest) ==
    LET mine == writes[w]
        runs == run.at = "saving" /\ run.slot = w IN
    /\ page = "here"
    /\ current' = IF ok THEN mine.id ELSE current
    /\ savedJson' = IF ok THEN Confirmed(w) ELSE savedJson
    /\ leaveError' = IF Refuses(w, ok) THEN TRUE ELSE IF ok THEN FALSE ELSE leaveError
    /\ page' = IF LeavesNow(w, ok) THEN "saved" ELSE page
    /\ run' = IF ~runs THEN run
              ELSE IF ok THEN [run EXCEPT !.at = "sent", !.id = mine.id] ELSE NotRunning
    /\ IF WritesAgain(w, ok)
       THEN /\ writes' = [writes EXCEPT ![w] = Sent(mine.id, leaving.def)]
            /\ saving' = w
            /\ leaving' = [leaving EXCEPT !.at = "own"]
            /\ busy' = "save"
       ELSE /\ writes' = [writes EXCEPT ![w] = rest]
            /\ saving' = Cleared(w)
            /\ leaving' = IF Refuses(w, ok) THEN NotLeaving ELSE leaving
            /\ busy' = IF runs /\ ok THEN "run" ELSE ""
    /\ UNCHANGED <<visit, presses, canvas, definition, history, undone, blocking, ask,
                   ran, store>>

Saved(w) == writes[w].at = "applied" /\ Settle(w, TRUE, NoWrite)

NotSaved(w) ==
    \/ writes[w].at = "sent" /\ Settle(w, FALSE, NoWrite)
    \/ /\ visit = "lossy"
       /\ \/ writes[w].at = "applied" /\ Settle(w, FALSE, NoWrite)
          \/ writes[w].at = "sent" /\ Settle(w, FALSE, [writes[w] EXCEPT !.at = "orphan"])

-----------------------------------------------------------------------------
(* Opening, compiling, deploying.                                          *)

Ask(what, id) ==
    /\ ask = NoAsk
    /\ ask' = [NoAsk EXCEPT !.what = what, !.id = id]
    /\ UNCHANGED <<visit, page, presses, canvas, definition, current, savedJson,
                   history, undone, writes, saving, leaving, leaveError, blocking, run,
                   ran, store>>

Open(id) == May /\ store[id] # Null /\ Ask("open", id) /\ busy' = busy
Compile == CompileOffered /\ Ask("compile", current) /\ busy' = "compile"
Deploy == DeployOffered /\ Ask("deploy", current) /\ busy' = "deploy"

(* A version compiled or deployed is followed by opening the record again. *)
Versioned(ok) ==
    /\ page = "here" /\ ask.what \in {"compile", "deploy"}
    /\ ok /\ ask.what = "compile" => store[ask.id].rev \notin Broken
    /\ ask' = IF ok THEN [ask EXCEPT !.what = "reopen"] ELSE NoAsk
    /\ busy' = IF ok THEN busy ELSE ""
    /\ UNCHANGED <<visit, page, presses, canvas, definition, current, savedJson,
                   history, undone, writes, saving, leaving, leaveError, blocking, run,
                   ran, store>>

Read ==
    /\ ask.what \in {"open", "reopen"} /\ ask.got = Null
    /\ ask' = [ask EXCEPT !.got = store[ask.id]]
    /\ UNCHANGED <<visit, page, presses, canvas, definition, current, savedJson,
                   history, undone, writes, saving, leaving, leaveError, busy,
                   blocking, run, ran, store>>

Opened ==
    /\ page = "here" /\ ask.got # Null
    /\ current' = ask.id /\ definition' = ask.got /\ canvas' = ask.got.of
    /\ savedJson' = ask.got
    /\ history' = <<>> /\ undone' = <<>> /\ leaveError' = FALSE
    /\ busy' = IF ask.what = "reopen" THEN "" ELSE busy
    /\ ask' = NoAsk
    /\ UNCHANGED <<visit, page, presses, writes, saving, leaving, blocking, run, ran,
                   store>>

NotOpened ==
    /\ page = "here" /\ ask.what \in {"open", "reopen"}
    /\ ask' = NoAsk
    /\ busy' = IF ask.what = "reopen" THEN "" ELSE busy
    /\ UNCHANGED <<visit, page, presses, canvas, definition, current, savedJson,
                   history, undone, writes, saving, leaving, leaveError, blocking, run,
                   ran, store>>

(* revalidate, asked for whenever the record is replaced or has run; which  *)
(* record the answer is about is not looked at when it comes.              *)
Validated(id) ==
    /\ page = "here" /\ current # Null /\ store[id] # Null
    /\ blocking' = (store[id].rev \in Broken)
    /\ UNCHANGED <<visit, page, presses, canvas, definition, current, savedJson,
                   history, undone, writes, saving, leaving, leaveError, busy, ask,
                   run, ran, store>>

-----------------------------------------------------------------------------
(* Running.                                                                *)

(* Mutant: an open workflow is run as the server last stored it. *)
NeedsSave_OnlyNew == current = Null

NeedsSave == current = Null \/ definition # savedJson

Run ==
    /\ RunOffered /\ run = NotRunning /\ visit # "lossy"
    /\ (visit # "hurried" => Quiet /\ leaving = NotLeaving)
    /\ IF NeedsSave
       THEN /\ FreeWrite # {}
            /\ LET w == CHOOSE v \in FreeWrite : TRUE IN
                  /\ writes' = [writes EXCEPT ![w] = Sent(current, definition)]
                  /\ saving' = w
                  /\ run' = [at |-> "saving", slot |-> w, id |-> Null, def |-> definition]
            /\ busy' = "save"
       ELSE /\ run' = [at |-> "sent", slot |-> 0, id |-> current, def |-> definition]
            /\ busy' = "run"
            /\ UNCHANGED <<writes, saving>>
    /\ UNCHANGED <<visit, page, presses, canvas, definition, current, savedJson,
                   history, undone, leaving, leaveError, blocking, ask, ran, store>>

(* The server runs the draft it holds, whoever stored it.                  *)
RunExecutes ==
    /\ run.at = "sent"
    /\ ran' = IF store[run.id] = run.def THEN "screen"
              ELSE IF leaving # NotLeaving THEN "left" ELSE "other"
    /\ run' = [run EXCEPT !.at = "executed"]
    /\ UNCHANGED <<visit, page, presses, canvas, definition, current, savedJson,
                   history, undone, writes, saving, leaving, leaveError, busy,
                   blocking, ask, store>>

RunAnswered(ok) ==
    /\ page = "here" /\ run.at \in (IF ok THEN {"executed"} ELSE {"sent", "executed"})
    /\ run' = NotRunning /\ busy' = ""
    /\ UNCHANGED <<visit, page, presses, canvas, definition, current, savedJson,
                   history, undone, writes, saving, leaving, leaveError, blocking, ask,
                   ran, store>>

-----------------------------------------------------------------------------
(* Leaving.                                                                *)

(* The back link, or Try again: an ordinary link when there is nothing to  *)
(* keep, else it waits for the write registered, else it writes.           *)
Leave ==
    /\ page = "here" /\ leaving = NotLeaving /\ (visit # "hurried" => ask = NoAsk)
    /\ IF saving = 0 /\ ~Unsaved
       THEN /\ page' = "saved"
            /\ leaving' = [at |-> "link", slot |-> 0, def |-> definition]
            /\ UNCHANGED <<writes, saving, busy>>
       ELSE IF saving # 0
       THEN /\ leaving' = [at |-> "inFlight", slot |-> saving, def |-> definition]
            /\ UNCHANGED <<page, writes, saving, busy>>
       ELSE IF definition = savedJson
       THEN /\ page' = "saved"
            /\ leaving' = [at |-> "link", slot |-> 0, def |-> definition]
            /\ UNCHANGED <<writes, saving, busy>>
       ELSE /\ FreeWrite # {}
            /\ LET w == CHOOSE v \in FreeWrite : TRUE IN
                  /\ writes' = [writes EXCEPT ![w] = Sent(current, definition)]
                  /\ saving' = w
                  /\ leaving' = [at |-> "own", slot |-> w, def |-> definition]
            /\ busy' = "save" /\ page' = page
    /\ UNCHANGED <<visit, presses, canvas, definition, current, savedJson, history,
                   undone, leaveError, blocking, ask, run, ran, store>>

(* The wordmark, Leave without saving, closing the tab.                    *)
LeaveWithoutSaving ==
    /\ page = "here"
    /\ page' = "away"
    /\ UNCHANGED <<visit, presses, canvas, definition, current, savedJson, history,
                   undone, writes, saving, leaving, leaveError, busy, blocking, ask,
                   run, ran, store>>

-----------------------------------------------------------------------------

EditorInit ==
    /\ visit \in Visit /\ page = "here"
    /\ presses = 0 /\ canvas = 0 /\ definition = blankWorkflow(0)
    /\ current = Null /\ savedJson = Null
    /\ history = <<>> /\ undone = <<>>
    /\ writes = [w \in Write |-> NoWrite] /\ saving = 0
    /\ leaving = NotLeaving /\ leaveError = FALSE /\ busy = "" /\ blocking = FALSE
    /\ ask = NoAsk /\ run = NotRunning /\ ran = Null
    /\ store = [id \in RecordId |-> IF id \in Record THEN [of |-> id, rev |-> 0] ELSE Null]

Editing == Undo \/ Redo \/ New \/ \E rev \in Rev : Edit(rev)
Writing == Save \/ \E w \in Write : Apply(w) \/ Saved(w) \/ NotSaved(w)
Asking ==
    \/ \E id \in RecordId : Open(id) \/ Validated(id)
    \/ Compile \/ Deploy \/ (\E ok \in BOOLEAN : Versioned(ok)) \/ Read \/ Opened \/ NotOpened
Running == Run \/ RunExecutes \/ \E ok \in BOOLEAN : RunAnswered(ok)
Leaving == Leave \/ LeaveWithoutSaving

EditorNext == Editing \/ Writing \/ Asking \/ Running \/ Leaving

EditorSpec == EditorInit /\ [][EditorNext]_editorVars

-----------------------------------------------------------------------------

(* Every variable is of its shape, and the write registered as on its way  *)
(* is on its way.                                                          *)
EditorTypeOK ==
    /\ definition \in Definition /\ savedJson \in Definition \cup {Null}
    /\ current \in RecordId \cup {Null}
    /\ history \in Seq(Definition) /\ undone \in Seq(Definition)
    /\ Len(history) <= HISTORY
    /\ store \in [RecordId -> Definition \cup {Null}]
    /\ saving # 0 /\ page = "here" => writes[saving].at \in {"sent", "applied"}
    /\ leaving.at \in {"inFlight", "own"} /\ page = "here" =>
          writes[leaving.slot].at \in {"sent", "applied"}

(* Once everything is answered, a canvas the header does not call unsaved   *)
(* is what the server holds (unsaved, and the note above it); only for who  *)
(* waits for answers and gets them.                                        *)
SavedIsSaved ==
    visit = "calm" /\ page = "here" /\ Quiet /\ ~Unsaved =>
        IF current = Null THEN definition = blankWorkflow(canvas)
        ELSE store[current] = definition

(* Going back to the list by its link, with a write still on its way or    *)
(* not, leaves on the server what was on screen when it was pressed        *)
(* (flushAndLeave: "not before the server has what is on screen").         *)
LeftWithTheWork ==
    visit = "calm" /\ page = "saved" =>
        IF current = Null THEN leaving.def = blankWorkflow(canvas)
        ELSE store[current] = leaving.def

(* Each record only ever holds what was drawn for it, and a canvas that     *)
(* had none gets one, though leaving and running write too (persist's ref, *)
(* New's); with a lost answer a second POST can still make a second one.   *)
EachCanvasItsRecord ==
    visit # "hurried" =>
        /\ \A id \in Record : store[id].of = id
        /\ current # Null => store[current].of = canvas
        /\ visit = "calm" =>
              \A m, n \in NewRecord : m # n /\ store[m] # Null /\ store[n] # Null =>
                  store[m].of # store[n].of

(* The work is kept: nothing is called saved that is not, nothing is left   *)
(* behind by the back link, and no record is written over by another's.    *)
WorkIsKept == EditorTypeOK /\ SavedIsSaved /\ LeftWithTheWork /\ EachCanvasItsRecord

(* What a run executed is what was on screen when it was asked for, though  *)
(* the canvas was edited while the save before it was on its way (run:     *)
(* "an unsaved canvas is saved first"), unless the page is being left and   *)
(* is writing those edits.                                                 *)
RunIsOfTheScreen == visit = "calm" => ran # "other"

(* An edit, an undo or a redo never loses the drawing it replaces: it is   *)
(* one undo or redo away; only what replaces the whole canvas does.        *)
EditsCanBeTakenBack ==
    [][definition' # definition =>
          \/ history' # <<>> /\ Last(history') = definition
          \/ undone' # <<>> /\ Last(undone') = definition
          \/ history' = <<>> /\ definition' \in {ask.got, blankWorkflow(canvas')}]_editorVars

(* "... or the next save would PUT this blank canvas over the workflow     *)
(* that was open a moment ago" (the comment in New).                       *)
NeverOverAnother == \A id \in Record : store[id].of = id
=============================================================================
