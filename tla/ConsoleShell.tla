----------------------------- MODULE ConsoleShell -----------------------------
(***************************************************************************)
(* The frame round every console page (ConsoleShell.tsx) with the pill     *)
(* that reports its connection, the menu and the palette; the Settings     *)
(* page, where the token is written, tried and cleared; and the System     *)
(* status section of Administration.  The frame, Settings and that section *)
(* check the connection, each by a useConnection of its own.  Other tabs   *)
(* write the token too.                                                    *)
(***************************************************************************)
EXTENDS Integers, Sequences, FiniteSetsExt

CONSTANTS Tokens,   \* bearer tokens; NoBearer stands for none
          NoBearer,
          Expired,  \* the tokens whose expiry has passed
          Routes,   \* paths of the console
          Places,   \* [searches -> the routes the palette lists for them]
          MaxAsks   \* bound on the checks asked for again

ASSUME ShellAssumption ==
    /\ NoBearer \notin Tokens /\ Expired \subseteq Tokens
    /\ "" \in DOMAIN Places /\ \A q \in DOMAIN Places : Places[q] \in Seq(Routes)
    /\ MaxAsks \in Nat

VARIABLES held,       \* localStorage's token
          hooks,      \* the uses of useConnection that are mounted
          pathname, navOpen,
          palette,    \* whether it is open, what was typed, which row is lit
          settings    \* the draft, and the probe of it

shellVars == <<held, hooks, pathname, navOpen, palette, settings>>

Bearer == Tokens \cup {NoBearer}

-----------------------------------------------------------------------------
(* useConnection: two requests, one after the other, for each token and    *)
(* each tick; a new one cancels what went before.                          *)

(* What it knows, what token that was asked with, the requests that have   *)
(* not been cancelled, and what its effect last ran for.                   *)
Unchecked == [status |-> "checking", readiness |-> FALSE, of |-> NoBearer,
              checks |-> {}, nonce |-> 0, ranWith |-> <<>>]

(* The frame has one for good, Settings has one while it is mounted; and   *)
(* the status section of Administration while it is the one that is open.  *)
Connected(route) == {"frame"} \cup ({route} \cap {"settings"})
StatusOpen == "status" \in DOMAIN hooks

MountedWith(names) == [h \in names |-> IF h = "frame" THEN hooks[h] ELSE Unchecked]

CheckDue(h) == hooks[h].ranWith # <<held, hooks[h].nonce>>
EffectsDue == \E h \in DOMAIN hooks : CheckDue(h)

(* Mutant: a new check does not call off the one before. *)
Begun_KeepsTheLast(hook) ==
    [hook EXCEPT !.status = "checking", !.ranWith = <<held, hook.nonce>>,
                 !.checks = @ \cup {[for |-> held, phase |-> "health"]}]

Begun(hook) ==
    [hook EXCEPT !.status = "checking", !.ranWith = <<held, hook.nonce>>,
                 !.checks = {[for |-> held, phase |-> "health"]}]

(* The effects of one commit.                                              *)
BeginChecks ==
    /\ EffectsDue
    /\ hooks' = [h \in DOMAIN hooks |-> IF CheckDue(h) THEN Begun(hooks[h]) ELSE hooks[h]]
    /\ UNCHANGED <<held, pathname, navOpen, palette, settings>>

Hook(h, hook) ==
    /\ hooks' = [hooks EXCEPT ![h] = hook]
    /\ UNCHANGED <<held, pathname, navOpen, palette, settings>>

HealthAnswered(h, c, ok) ==
    /\ c.phase = "health"
    /\ Hook(h, IF ok THEN [hooks[h] EXCEPT !.checks = (@ \ {c}) \cup {[c EXCEPT !.phase = "readiness"]}]
               ELSE [hooks[h] EXCEPT !.checks = @ \ {c}, !.status = "unreachable",
                                     !.readiness = FALSE, !.of = c.for])

ReadinessAnswered(h, c, ok) ==
    /\ c.phase = "readiness"
    /\ Hook(h, [hooks[h] EXCEPT !.checks = @ \ {c}, !.readiness = ok, !.of = c.for,
                               !.status = IF c.for # NoBearer THEN "connected" ELSE "no-token"])

AsksAgain(h) ==
    /\ \A g \in DOMAIN hooks : hooks[g].nonce < MaxAsks
    /\ Hook(h, [hooks[h] EXCEPT !.nonce = @ + 1])

(* Each hook's tick of the minute, and Re-check, which asks the page's own. *)
Tick60(h) == AsksAgain(h)
Recheck == ~palette.open /\ \E h \in DOMAIN hooks \ {"frame"} : AsksAgain(h)

(* What the status section says in place of a report: an API that answers  *)
(* without one is told from one that is not there.                         *)
StatusSection(h) ==
    CASE hooks[h].readiness -> "report"
      [] ~hooks[h].readiness /\ hooks[h].status = "checking" -> "wait"
      [] ~hooks[h].readiness /\ hooks[h].status = "unreachable" -> "unreachable"
      [] OTHER -> "unreported"

(* What the pill says; an API that is not there outranks the token.        *)
describeConnection ==
    CASE hooks["frame"].status = "checking" -> "Checking"
      [] hooks["frame"].status = "unreachable" -> "Not reachable"
      [] OTHER -> IF held \in Expired THEN "Token expired"
                  ELSE IF held = NoBearer THEN "No token" ELSE "Live"

-----------------------------------------------------------------------------
(* Getting about.                                                          *)

(* Search and selection start afresh whenever the palette opens: what they *)
(* were when it closed is forgotten.                                       *)
NewPalette(open) == [open |-> open, q |-> "", lit |-> 1]

NewSettings == [draft |-> held, probe |-> "", probing |-> FALSE]

(* Another route mounts its page, and the page before it is gone with its  *)
(* hook and what that had asked.                                           *)
Goes(route) ==
    /\ pathname' = route
    /\ navOpen' = (navOpen /\ route = pathname)
    /\ settings' = IF route = pathname THEN settings ELSE NewSettings
    /\ hooks' = IF route = pathname THEN hooks ELSE MountedWith(Connected(route))
    /\ UNCHANGED held

FollowLink(route) == ~palette.open /\ Goes(route) /\ UNCHANGED palette

(* From the status section to another of Administration's, or back to it.  *)
TurnsToSection ==
    /\ pathname = "admin" /\ ~palette.open
    /\ hooks' = MountedWith({"frame"} \cup IF StatusOpen THEN {} ELSE {"status"})
    /\ UNCHANGED <<held, pathname, navOpen, palette, settings>>

ToggleMenu ==
    /\ ~palette.open /\ pathname # "studio" /\ navOpen' = ~navOpen
    /\ UNCHANGED <<held, hooks, pathname, palette, settings>>

InThePalette(p) ==
    /\ palette' = p
    /\ UNCHANGED <<held, hooks, pathname, navOpen, settings>>

Results == Places[palette.q]

(* Cmd-K opens and closes; Escape and the backdrop close.                  *)
TogglePalette == InThePalette(NewPalette(~palette.open))

(* Mutant: what is typed leaves the selection where it was. *)
TypeInPalette_KeepsRow(q) == palette.open /\ InThePalette([palette EXCEPT !.q = q])
TypeInPalette(q) == palette.open /\ InThePalette([palette EXCEPT !.q = q, !.lit = 1])

(* The arrows, and the mouse over a row.  Down where there is no row goes  *)
(* before the first (index -1), and up from there is the first again.      *)
PaletteKey ==
    /\ palette.open
    /\ \E row \in {Min({Len(Results), palette.lit + 1}), Max({1, palette.lit - 1})} :
           InThePalette([palette EXCEPT !.lit = row])

HoverRow(row) == palette.open /\ InThePalette([palette EXCEPT !.lit = row])

Jumps(row) ==
    /\ palette.open /\ Goes(Results[row])
    /\ palette' = NewPalette(FALSE)

(* Enter takes the row that is lit, if there is one, a click any row.      *)
Jump == palette.lit \in DOMAIN Results /\ Jumps(palette.lit)

-----------------------------------------------------------------------------
(* Settings.  What is saved is written to the browser and every hook that  *)
(* reads the token sees it; the probe tries the draft, saved or not.       *)

OnSettings(s) ==
    /\ pathname = "settings" /\ settings' = s
    /\ UNCHANGED <<hooks, pathname, navOpen, palette>>

EditDraft(t) ==
    ~palette.open /\ OnSettings([settings EXCEPT !.draft = t]) /\ UNCHANGED held

Save ==
    /\ ~palette.open
    /\ OnSettings([settings EXCEPT !.probe = ""])
    /\ held' = settings.draft

Clear ==
    /\ held # NoBearer /\ ~palette.open
    /\ OnSettings([settings EXCEPT !.draft = NoBearer, !.probe = ""])
    /\ held' = NoBearer

Test ==
    /\ ~settings.probing /\ ~palette.open
    /\ OnSettings([settings EXCEPT !.probing = TRUE, !.probe = ""]) /\ UNCHANGED held

ProbeAnswered(ok) ==
    /\ settings.probing
    /\ OnSettings([settings EXCEPT !.probing = FALSE,
                                   !.probe = IF ok THEN "Accepted" ELSE "Rejected"])
    /\ UNCHANGED held

(* The draft follows the token, whoever wrote it.                          *)
WriteToken ==
    /\ held' \in Bearer \ {held}
    /\ settings' = [settings EXCEPT !.draft = held']
    /\ UNCHANGED <<hooks, pathname, navOpen, palette>>

-----------------------------------------------------------------------------
ShellInit ==
    /\ held = NoBearer
    /\ pathname \in Routes /\ navOpen = FALSE
    /\ hooks = [h \in Connected(pathname) |-> Unchecked]
    /\ palette = NewPalette(FALSE)
    /\ settings = NewSettings

Checking ==
    \/ \E h \in DOMAIN hooks :
           \/ Tick60(h)
           \/ \E c \in hooks[h].checks, ok \in BOOLEAN :
                  HealthAnswered(h, c, ok) \/ ReadinessAnswered(h, c, ok)
    \/ Recheck

Navigating ==
    \/ \E route \in Routes : FollowLink(route)
    \/ TurnsToSection \/ ToggleMenu \/ TogglePalette \/ PaletteKey \/ Jump
    \/ \E row \in DOMAIN Results : HoverRow(row) \/ Jumps(row)
    \/ \E q \in DOMAIN Places : TypeInPalette(q)

Setting ==
    \/ \E t \in Bearer : EditDraft(t)
    \/ Save \/ Clear \/ Test
    \/ \E ok \in BOOLEAN : ProbeAnswered(ok)

ShellNext ==
    \/ BeginChecks
    \/ ~EffectsDue /\ (Checking \/ Navigating \/ Setting \/ WriteToken)

-----------------------------------------------------------------------------
(* What a useConnection tells, the pill's in the frame, the card's on the  *)
(* Settings page and the status section's, is about the token that is      *)
(* held: it was asked with it, and no late answer to a check of an earlier *)
(* token is taken, nor that of a page or section which was left; an API    *)
(* that is not there is not said to be ready, nor one that is there to be  *)
(* out of reach, and the pill says Live of one that took the token that is *)
(* held (ConsoleShell.tsx:383, useResource.ts:114, admin/page.tsx:830).    *)
(* And what is lit in the palette is a row that is there, if any is.       *)
ShellTellsTheTruth ==
    /\ ~EffectsDue =>
           \A h \in DOMAIN hooks :
               hooks[h].status # "checking" =>
                   /\ hooks[h].of = held /\ hooks[h].checks = {}
                   /\ hooks[h].status = "unreachable" <=> StatusSection(h) = "unreachable"
    /\ ~EffectsDue /\ describeConnection = "Live" => hooks["frame"].status = "connected"
    /\ DOMAIN hooks \ {"status"} = Connected(pathname) /\ (StatusOpen => pathname = "admin")
    /\ Results # <<>> => palette.lit \in DOMAIN Results
=============================================================================
