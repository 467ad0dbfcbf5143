----------------------------- MODULE ConsoleProofs -----------------------------
(***************************************************************************)
(* Proofs about the pages of the console: the frame with its settings, the *)
(* audit explorer, the MCP page and the reading pages; the menu and the    *)
(* two explainers of the public site; and the pictures, the figures of the *)
(* throughput model and the drawing on a card.  The first five are each a  *)
(* specification of its own, the last are read off a whole visit; what is  *)
(* shown is true for any tokens, rows, tools, scenarios and lengths.       *)
(***************************************************************************)
EXTENDS MCConsole, FiniteSetTheorems, SequenceTheorems, WellFoundedInduction, TLAPS

-----------------------------------------------------------------------------
(* The frame round every page and its Settings page (ConsoleShell).        *)

(* What is searched for, and the empty search.                             *)
Queries == DOMAIN Places
Blank == ""

(* Every search has its sequence of routes.                                *)
LEMMA PlacesOfASearch ==
    Blank \in Queries /\ \A q \in Queries : Places[q] \in Seq(Routes)
  <1>1. Blank \in DOMAIN Places
    BY ShellAssumption, Zenon DEF Blank
  <1>2. \A q \in DOMAIN Places : Places[q] \in Seq(Routes)
    BY ShellAssumption, Zenon
  <1> QED
    BY <1>1, <1>2 DEF Queries

(* What the palette can be: its selection is before the first row only     *)
(* where there is none.                                                    *)
Palettes == [open : BOOLEAN, q : Queries, lit : Nat]
LitIsThere(p) == p.lit = 1 \/ p.lit \in DOMAIN Places[p.q] \/ (p.lit = 0 /\ Places[p.q] = <<>>)

(* A palette just opened or closed is lit at its first row.                *)
LEMMA NewPaletteFacts ==
    ASSUME NEW open \in BOOLEAN PROVE NewPalette(open) \in Palettes /\ NewPalette(open).lit = 1
  <1>1. NewPalette(open) = [open |-> open, q |-> Blank, lit |-> 1]
    BY Zenon DEF NewPalette, Blank
  <1> QED
    BY <1>1, PlacesOfASearch DEF Palettes

(* Typing lights the first row again.                                      *)
LEMMA Retyping ==
    ASSUME NEW p \in Palettes, NEW q \in Queries
    PROVE  /\ [p EXCEPT !.q = q, !.lit = 1] \in Palettes
           /\ [p EXCEPT !.q = q, !.lit = 1].lit = 1
  <1>1. 1 \in Nat
    OBVIOUS
  <1> QED
    BY <1>1, Zenon DEF Palettes

(* The arrows go from row to row, and off the rows only of an empty list.  *)
LEMMA ArrowsStayOnRows ==
    ASSUME NEW n \in Nat, NEW lit \in Nat, lit = 1 \/ lit \in 1..n \/ (lit = 0 /\ n = 0),
           NEW row \in {Min({n, lit + 1}), Max({1, lit - 1})}
    PROVE  row \in Nat /\ (row = 1 \/ row \in 1..n \/ (row = 0 /\ n = 0))
  <1>1. Min({n, lit + 1}) = IF n <= lit + 1 THEN n ELSE lit + 1
    BY DEF Min
  <1>2. Max({1, lit - 1}) = IF 1 >= lit - 1 THEN 1 ELSE lit - 1
    BY DEF Max
  <1> QED
    BY <1>1, <1>2

(* What the Settings page can hold.                                        *)
SettingsPage == [draft : Bearer, probe : {"", "Accepted", "Rejected"}, probing : BOOLEAN]

(* A page of Settings just mounted holds the token.                        *)
LEMMA NewSettingsFacts == ASSUME held \in Bearer PROVE NewSettings \in SettingsPage
  <1>1. NewSettings = [draft |-> held, probe |-> Blank, probing |-> FALSE]
    BY Zenon DEF NewSettings, Blank
  <1>2. Blank \in {"", "Accepted", "Rejected"}
    BY Zenon DEF Blank
  <1> QED
    BY <1>1, <1>2, Zenon DEF SettingsPage

(* What a useConnection can hold.                                          *)
Checks == [for : Bearer, phase : {"health", "readiness"}]
Hooks == [status : {"checking", "unreachable", "connected", "no-token"}, readiness : BOOLEAN,
          of : Bearer, checks : SUBSET Checks, nonce : Nat, ranWith : {<<>>} \cup (Bearer \X Nat)]

(* Once its effect has run for the token t, the only check under way is    *)
(* about that token, or it has ended and so is what it said.               *)
CheckIsOf(hook, t) ==
    hook.ranWith = <<t, hook.nonce>> =>
        \/ /\ hook.status = "checking"
           /\ \E phase \in {"health", "readiness"} : hook.checks = {[for |-> t, phase |-> phase]}
        \/ /\ hook.status # "checking" /\ hook.of = t /\ hook.checks = {}
           /\ hook.status = "no-token" => t = NoBearer

HookOK(hook, t) ==
    /\ hook \in Hooks
    /\ hook.status = "unreachable" => ~hook.readiness
    /\ CheckIsOf(hook, t)

(* Every variable of the frame is of its shape.                            *)
ShellTypeOK ==
    /\ held \in Bearer
    /\ palette \in Palettes /\ LitIsThere(palette)
    /\ settings \in SettingsPage

(* Those hooks are mounted that the page has, and the status section's     *)
(* only in Administration; each with a check of the token that is held.    *)
Mounted(names, route) ==
    names \ {"status"} = Connected(route) /\ ("status" \in names => route = "admin")

HooksTell ==
    /\ hooks = [h \in DOMAIN hooks |-> hooks[h]]
    /\ Mounted(DOMAIN hooks, pathname)
    /\ \A h \in DOMAIN hooks : HookOK(hooks[h], held)

ShellInv == ShellTypeOK /\ HooksTell

ShellSpec == ShellInit /\ [][ShellNext]_shellVars

(* A hook that has been mounted claims nothing.                            *)
LEMMA UncheckedIsOK == ASSUME NEW t \in Bearer PROVE HookOK(Unchecked, t)
  <1>1. Unchecked \in Hooks
    BY DEF Unchecked, Hooks, Bearer
  <1>2. Unchecked.ranWith # <<t, Unchecked.nonce>>
    BY DEF Unchecked
  <1> QED
    BY <1>1, <1>2 DEF HookOK, CheckIsOf, Unchecked

(* A page has the frame's hook and its own.                                *)
LEMMA ThePageHasItsHooks ==
    ASSUME NEW route PROVE Mounted(Connected(route), route) /\ "frame" \in Connected(route)
  BY DEF Mounted, Connected

(* Before its first check the frame claims nothing.                        *)
LEMMA ShellInitially == ShellInit => ShellInv
  <1> SUFFICES ASSUME ShellInit PROVE ShellInv
    OBVIOUS
  <1>0. held \in Bearer
    BY DEF ShellInit, Bearer
  <1>1. palette \in Palettes /\ palette.lit = 1
    BY NewPaletteFacts DEF ShellInit
  <1>2. settings \in SettingsPage
    BY <1>0, NewSettingsFacts DEF ShellInit
  <1>3. hooks = [h \in Connected(pathname) |-> Unchecked]
    BY DEF ShellInit
  <1>4. /\ DOMAIN hooks = Connected(pathname) /\ hooks = [h \in DOMAIN hooks |-> hooks[h]]
        /\ \A h \in DOMAIN hooks : hooks[h] = Unchecked
    BY <1>3, Zenon
  <1>5. HooksTell
    BY <1>0, <1>4, UncheckedIsOK, ThePageHasItsHooks, Zenon DEF HooksTell
  <1> QED
    BY <1>0, <1>1, <1>2, <1>5 DEF ShellInv, ShellTypeOK, LitIsThere

(* The palette lists a sequence of routes.                                 *)
LEMMA ResultsAreASequence ==
    ASSUME NEW p \in Palettes PROVE Places[p.q] \in Seq(Routes) /\ Len(Places[p.q]) \in Nat
  BY PlacesOfASearch DEF Palettes

(* The frame's hook stays through what mounts and unmounts the others.     *)
LEMMA MountingKeeps ==
    ASSUME ShellInv, NEW names, Mounted(names, pathname'), "frame" \in names, held' = held,
           hooks' = MountedWith(names)
    PROVE  HooksTell'
  <1> USE DEF ShellInv
  <1>1. hooks' = [h \in names |-> IF h = "frame" THEN hooks[h] ELSE Unchecked]
    BY DEF MountedWith
  <1>2. "frame" \in DOMAIN hooks
    BY DEF HooksTell, Mounted, Connected
  <1>3. HookOK(hooks["frame"], held) /\ HookOK(Unchecked, held)
    BY <1>2, UncheckedIsOK DEF HooksTell, ShellTypeOK
  <1>4. DOMAIN hooks' = names /\ hooks' = [h \in DOMAIN hooks' |-> hooks'[h]]
    BY <1>1, Zenon
  <1>5. \A h \in DOMAIN hooks' : HookOK(hooks'[h], held')
    BY <1>1, <1>3, Zenon
  <1> QED
    BY <1>4, <1>5, Zenon DEF HooksTell

(* The page that is left takes its hook along, another starts with one;    *)
(* the frame's is untouched.                                               *)
LEMMA Moving ==
    ASSUME ShellInv, NEW route, Goes(route)
    PROVE  settings' \in SettingsPage /\ held' = held /\ HooksTell'
  <1>1. settings' \in SettingsPage /\ held' = held
    BY NewSettingsFacts DEF Goes, ShellInv, ShellTypeOK
  <1>2. CASE route = pathname
    <2>1. hooks' = hooks /\ pathname' = pathname
      BY <1>2 DEF Goes
    <2> QED
      BY <1>1, <2>1 DEF HooksTell, ShellInv
  <1>3. CASE route # pathname
    <2>1. hooks' = MountedWith(Connected(route)) /\ pathname' = route
      BY <1>3 DEF Goes
    <2> QED
      BY <1>1, <2>1, ThePageHasItsHooks, MountingKeeps, Zenon
  <1> QED
    BY <1>1, <1>2, <1>3

(* One hook changes, to one that is as it should be.                       *)
LEMMA HookChanges ==
    ASSUME ShellInv, NEW h \in DOMAIN hooks, NEW hook, HookOK(hook, held), Hook(h, hook)
    PROVE  ShellInv'
  <1>1. UNCHANGED <<held, pathname, palette, settings>>
    BY DEF Hook
  <1>2. hooks' = [hooks EXCEPT ![h] = hook]
    BY DEF Hook
  <1>3. \A g \in DOMAIN hooks' : HookOK(hooks'[g], held)
    BY <1>2, Zenon DEF ShellInv, HooksTell
  <1>4. DOMAIN hooks' = DOMAIN hooks /\ hooks' = [g \in DOMAIN hooks' |-> hooks'[g]]
    BY <1>2, Zenon DEF ShellInv, HooksTell
  <1>5. HooksTell'
    BY <1>1, <1>3, <1>4, Zenon DEF HooksTell, ShellInv
  <1> QED
    BY <1>1, <1>5 DEF ShellInv, ShellTypeOK, LitIsThere

(* The effects run for what is held now.                                   *)
LEMMA ChecksBegin == ASSUME ShellInv, BeginChecks PROVE ShellInv'
  <1>1. UNCHANGED <<held, pathname, palette, settings>>
    BY DEF BeginChecks
  <1>2. hooks' = [h \in DOMAIN hooks |-> IF CheckDue(h) THEN Begun(hooks[h]) ELSE hooks[h]]
    BY DEF BeginChecks
  <1>3. ASSUME NEW hook, HookOK(hook, held) PROVE HookOK(Begun(hook), held)
    <2>1. held \in Bearer /\ hook \in Hooks
      BY <1>3 DEF ShellInv, ShellTypeOK, HookOK
    <2>2. [for |-> held, phase |-> "health"] \in Checks
      BY <2>1 DEF Checks
    <2>3. <<held, hook.nonce>> \in Bearer \X Nat
      BY <2>1 DEF Hooks
    <2>4. Begun(hook) \in Hooks
      BY <2>1, <2>2, <2>3 DEF Begun, Hooks
    <2>5. Begun(hook).status = "checking" /\ Begun(hook).checks = {[for |-> held, phase |-> "health"]}
      BY <2>1 DEF Begun, Hooks
    <2> QED
      BY <2>4, <2>5 DEF HookOK, CheckIsOf
  <1>4. \A h \in DOMAIN hooks' : HookOK(hooks'[h], held)
    BY <1>2, <1>3, Zenon DEF ShellInv, HooksTell
  <1>5. DOMAIN hooks' = DOMAIN hooks /\ hooks' = [h \in DOMAIN hooks' |-> hooks'[h]]
    BY <1>2, Zenon
  <1>6. HooksTell'
    BY <1>1, <1>4, <1>5, Zenon DEF HooksTell, ShellInv
  <1> QED
    BY <1>1, <1>6 DEF ShellInv, ShellTypeOK, LitIsThere

(* The first answer leads to the second request, or ends the check.        *)
LEMMA HealthKeeps ==
    ASSUME ShellInv, ~EffectsDue, NEW h \in DOMAIN hooks, NEW c \in hooks[h].checks,
           NEW ok \in BOOLEAN, HealthAnswered(h, c, ok)
    PROVE  ShellInv'
  <1> DEFINE r == hooks[h]
  <1>1. HookOK(r, held) /\ r.ranWith = <<held, r.nonce>> /\ held \in Bearer
    BY DEF EffectsDue, CheckDue, ShellInv, ShellTypeOK, HooksTell
  <1>2. c \in r.checks /\ c.phase = "health"
    BY DEF HealthAnswered
  <1>3. /\ Hook(h, [r EXCEPT !.checks = (@ \ {c}) \cup {[c EXCEPT !.phase = "readiness"]}]) \/ ~ok
        /\ Hook(h, [r EXCEPT !.checks = @ \ {c}, !.status = "unreachable",
                              !.readiness = FALSE, !.of = c.for]) \/ ok
    BY DEF HealthAnswered
  <1> HIDE DEF r
  <1>4. /\ r \in Hooks /\ r.status = "checking"
        /\ r.checks = {[for |-> held, phase |-> "health"]} /\ c = [for |-> held, phase |-> "health"]
    BY <1>1, <1>2 DEF HookOK, CheckIsOf
  <1>5. CASE ok
    <2> DEFINE next == [r EXCEPT !.checks = (@ \ {c}) \cup {[c EXCEPT !.phase = "readiness"]}]
    <2>1. (r.checks \ {c}) \cup {[c EXCEPT !.phase = "readiness"]} = {[for |-> held, phase |-> "readiness"]}
      BY <1>4
    <2>2. next = [r EXCEPT !.checks = {[for |-> held, phase |-> "readiness"]}]
      BY <2>1, Zenon
    <2>3. [for |-> held, phase |-> "readiness"] \in Checks
      BY <1>1 DEF Checks
    <2>4. next \in Hooks /\ next.status = "checking"
          /\ next.checks = {[for |-> held, phase |-> "readiness"]}
      BY <1>4, <2>2, <2>3 DEF Hooks
    <2>5. HookOK(next, held)
      BY <2>4 DEF HookOK, CheckIsOf
    <2>6. Hook(h, next)
      BY <1>3, <1>5
    <2> HIDE DEF next
    <2> QED
      BY <2>5, <2>6, HookChanges
  <1>6. CASE ~ok
    <2> DEFINE next == [r EXCEPT !.checks = @ \ {c}, !.status = "unreachable",
                                 !.readiness = FALSE, !.of = c.for]
    <2>1. next \in Hooks /\ next.status = "unreachable" /\ next.readiness = FALSE
          /\ next.of = held /\ next.checks = {}
      BY <1>1, <1>4 DEF Hooks
    <2>2. HookOK(next, held)
      BY <2>1 DEF HookOK, CheckIsOf
    <2>3. Hook(h, next)
      BY <1>3, <1>6
    <2> HIDE DEF next
    <2> QED
      BY <2>2, <2>3, HookChanges
  <1> QED
    BY <1>5, <1>6

(* The second answer ends the check.                                       *)
LEMMA ReadinessKeeps ==
    ASSUME ShellInv, ~EffectsDue, NEW h \in DOMAIN hooks, NEW c \in hooks[h].checks,
           NEW ok \in BOOLEAN, ReadinessAnswered(h, c, ok)
    PROVE  ShellInv'
  <1> DEFINE r == hooks[h]
             next == [r EXCEPT !.checks = @ \ {c}, !.readiness = ok, !.of = c.for,
                               !.status = IF c.for # NoBearer THEN "connected" ELSE "no-token"]
  <1>1. HookOK(r, held) /\ r.ranWith = <<held, r.nonce>> /\ held \in Bearer
    BY DEF EffectsDue, CheckDue, ShellInv, ShellTypeOK, HooksTell
  <1>2. c \in r.checks /\ c.phase = "readiness" /\ Hook(h, next)
    BY DEF ReadinessAnswered
  <1> HIDE DEF r
  <1>4. /\ r \in Hooks
        /\ r.checks = {[for |-> held, phase |-> "readiness"]} /\ c = [for |-> held, phase |-> "readiness"]
    BY <1>1, <1>2 DEF HookOK, CheckIsOf
  <1>5. /\ next \in Hooks /\ next.of = held /\ next.checks = {}
        /\ next.status = IF held # NoBearer THEN "connected" ELSE "no-token"
    BY <1>1, <1>4 DEF Hooks
  <1>6. HookOK(next, held)
    BY <1>1, <1>5 DEF HookOK, CheckIsOf, Bearer
  <1> HIDE DEF next
  <1> QED
    BY <1>2, <1>6, HookChanges

(* What is asked again is due.                                             *)
LEMMA AsksAgainKeeps ==
    ASSUME ShellInv, ~EffectsDue, NEW h \in DOMAIN hooks, AsksAgain(h) PROVE ShellInv'
  <1> DEFINE r == hooks[h]
             next == [r EXCEPT !.nonce = @ + 1]
  <1>1. HookOK(r, held) /\ r.ranWith = <<held, r.nonce>>
    BY DEF EffectsDue, CheckDue, ShellInv, HooksTell
  <1>2. Hook(h, next)
    BY DEF AsksAgain
  <1> HIDE DEF r
  <1>3. r \in Hooks
    BY <1>1 DEF HookOK
  <1>4. /\ next \in Hooks /\ next.nonce = r.nonce + 1 /\ next.ranWith = <<held, r.nonce>>
        /\ next.status = r.status /\ next.readiness = r.readiness
    BY <1>1, <1>3 DEF Hooks
  <1>5. next.ranWith # <<held, next.nonce>>
    BY <1>3, <1>4 DEF Hooks
  <1>6. HookOK(next, held)
    BY <1>1, <1>4, <1>5 DEF HookOK, CheckIsOf
  <1> HIDE DEF next
  <1> QED
    BY <1>2, <1>6, HookChanges

(* The hooks wait for their effects when the token has changed.            *)
LEMMA TokenIsNew ==
    ASSUME ShellInv, ~EffectsDue, held' \in Bearer, UNCHANGED <<hooks, pathname>>
    PROVE  HooksTell'
  <1>1. ASSUME NEW h \in DOMAIN hooks PROVE HookOK(hooks[h], held')
    <2>1. HookOK(hooks[h], held) /\ hooks[h].ranWith = <<held, hooks[h].nonce>>
      BY DEF EffectsDue, CheckDue, ShellInv, HooksTell
    <2> QED
      BY <2>1 DEF HookOK, CheckIsOf
  <1> QED
    BY <1>1, Zenon DEF ShellInv, HooksTell

(* What is done in the palette leaves the hooks alone.                     *)
LEMMA PaletteKeeps ==
    ASSUME ShellInv, NEW p \in Palettes, LitIsThere(p), InThePalette(p) PROVE ShellInv'
  <1>1. palette' = p /\ UNCHANGED <<held, hooks, pathname, settings>>
    BY DEF InThePalette
  <1> QED
    BY <1>1 DEF ShellInv, ShellTypeOK, HooksTell

(* Getting about keeps the invariant.                                      *)
LEMMA NavigatingKeeps == ASSUME ShellInv, Navigating PROVE ShellInv'
  <1> USE DEF ShellInv
  <1>0. palette \in Palettes /\ LitIsThere(palette) /\ held \in Bearer
    BY DEF ShellTypeOK
  <1>p. /\ Results = Places[palette.q] /\ Len(Results) \in Nat /\ DOMAIN Results = 1..Len(Results)
        /\ Results = <<>> <=> Len(Results) = 0
    BY <1>0, ResultsAreASequence DEF Results
  <1>1. ASSUME NEW route \in Routes, FollowLink(route) PROVE ShellInv'
    <2>1. Goes(route) /\ palette' = palette
      BY <1>1 DEF FollowLink
    <2> QED
      BY <1>0, <2>1, Moving DEF ShellTypeOK
  <1>2. CASE ToggleMenu
    BY <1>2 DEF ToggleMenu, ShellTypeOK, HooksTell
  <1>3. CASE TogglePalette
    <2>1. (~palette.open) \in BOOLEAN
      OBVIOUS
    <2>2. NewPalette(~palette.open) \in Palettes /\ LitIsThere(NewPalette(~palette.open))
      BY <2>1, NewPaletteFacts DEF LitIsThere
    <2> QED
      BY <1>3, <2>2, PaletteKeeps DEF TogglePalette
  <1>4. ASSUME NEW row \in Nat, row = 1 \/ row \in 1..Len(Results) \/ (row = 0 /\ Len(Results) = 0),
               InThePalette([palette EXCEPT !.lit = row])
        PROVE  ShellInv'
    <2> DEFINE p == [palette EXCEPT !.lit = row]
    <2>1. p \in Palettes /\ p.lit = row /\ p.q = palette.q
      BY <1>0, <1>4 DEF Palettes
    <2>2. LitIsThere(p)
      BY <1>p, <1>4, <2>1 DEF LitIsThere
    <2>3. InThePalette(p)
      BY <1>4
    <2> HIDE DEF p
    <2> QED
      BY <2>1, <2>2, <2>3, PaletteKeeps
  <1>5. CASE PaletteKey
    <2>1. PICK row \in {Min({Len(Results), palette.lit + 1}), Max({1, palette.lit - 1})} :
             InThePalette([palette EXCEPT !.lit = row])
      BY <1>5 DEF PaletteKey
    <2>2. /\ palette.lit \in Nat
          /\ palette.lit = 1 \/ palette.lit \in 1..Len(Results) \/ (palette.lit = 0 /\ Len(Results) = 0)
      BY <1>0, <1>p DEF Palettes, LitIsThere
    <2>3. row \in Nat /\ (row = 1 \/ row \in 1..Len(Results) \/ (row = 0 /\ Len(Results) = 0))
      BY <1>p, <2>2, ArrowsStayOnRows
    <2> QED
      BY <2>1, <2>3, <1>4
  <1>6. ASSUME NEW row \in DOMAIN Results, HoverRow(row) PROVE ShellInv'
    BY <1>p, <1>4, <1>6 DEF HoverRow
  <1>7. ASSUME NEW row, Jumps(row) PROVE ShellInv'
    <2>1. Goes(Results[row]) /\ palette' = NewPalette(FALSE)
      BY <1>7 DEF Jumps
    <2>2. palette' \in Palettes /\ LitIsThere(palette')
      BY <2>1, NewPaletteFacts DEF LitIsThere
    <2>3. settings' \in SettingsPage /\ held' = held /\ HooksTell'
      BY <2>1, Moving
    <2>4. LitIsThere(palette)'
      BY <2>2 DEF LitIsThere
    <2> QED
      BY <1>0, <2>2, <2>3, <2>4, Zenon DEF ShellTypeOK
  <1>8. ASSUME NEW q \in DOMAIN Places, TypeInPalette(q) PROVE ShellInv'
    <2> DEFINE p == [palette EXCEPT !.q = q, !.lit = 1]
    <2>1. InThePalette(p)
      BY <1>8 DEF TypeInPalette
    <2>2. q \in Queries
      BY <1>8 DEF Queries
    <2>3. p \in Palettes /\ p.lit = 1
      BY <1>0, <2>2, Retyping, Zenon
    <2>4. LitIsThere(p)
      BY <2>3 DEF LitIsThere
    <2> HIDE DEF p
    <2> QED
      BY <2>1, <2>3, <2>4, PaletteKeeps
  <1>9. CASE TurnsToSection
    <2> DEFINE names == {"frame"} \cup IF StatusOpen THEN {} ELSE {"status"}
    <2>1. /\ pathname = "admin" /\ hooks' = MountedWith(names)
          /\ UNCHANGED <<held, pathname, palette, settings>>
      BY <1>9 DEF TurnsToSection
    <2>2. Mounted(names, pathname') /\ "frame" \in names
      BY <2>1 DEF Mounted, Connected
    <2>3. HooksTell'
      <3> HIDE DEF names
      <3> QED
        BY <2>1, <2>2, MountingKeeps
    <2> QED
      BY <2>1, <2>3 DEF ShellTypeOK, LitIsThere
  <1> QED
    BY <1>1, <1>2, <1>3, <1>5, <1>6, <1>7, <1>8, <1>9 DEF Navigating, Jump

(* Writing the token, trying and clearing it keep the invariant.           *)
LEMMA SettingKeeps == ASSUME ShellInv, ~EffectsDue, Setting \/ WriteToken PROVE ShellInv'
  <1>0. held \in Bearer /\ settings \in SettingsPage
    BY DEF ShellInv, ShellTypeOK
  <1>1. Blank \in {"", "Accepted", "Rejected"} /\ NoBearer \in Bearer
    BY Zenon DEF Blank, Bearer
  <1>2. ASSUME NEW draft \in Bearer, NEW probe \in {"", "Accepted", "Rejected"}, NEW probing \in BOOLEAN
        PROVE  /\ [settings EXCEPT !.draft = draft] \in SettingsPage
               /\ [settings EXCEPT !.probe = probe] \in SettingsPage
               /\ [settings EXCEPT !.draft = draft, !.probe = probe] \in SettingsPage
               /\ [settings EXCEPT !.probing = probing, !.probe = probe] \in SettingsPage
    BY <1>0, <1>2, Zenon DEF SettingsPage
  <1>3. /\ UNCHANGED <<hooks, pathname, palette>>
        /\ held' \in Bearer /\ settings' \in SettingsPage
    <2>1. CASE Save
      <3>1. /\ UNCHANGED <<hooks, pathname, palette>> /\ held' = settings.draft
            /\ settings' = [settings EXCEPT !.probe = Blank]
        BY <2>1, Zenon DEF Save, OnSettings, Blank
      <3>2. settings.draft \in Bearer
        BY <1>0, Zenon DEF SettingsPage
      <3> QED
        BY <1>1, <1>2, <3>1, <3>2, Zenon
    <2>2. CASE Clear
      <3>1. /\ UNCHANGED <<hooks, pathname, palette>> /\ held' = NoBearer
            /\ settings' = [settings EXCEPT !.draft = NoBearer, !.probe = Blank]
        BY <2>2, Zenon DEF Clear, OnSettings, Blank
      <3> QED
        BY <1>1, <1>2, <3>1, Zenon
    <2>3. CASE Test
      <3>1. /\ UNCHANGED <<hooks, pathname, palette, held>>
            /\ settings' = [settings EXCEPT !.probing = TRUE, !.probe = Blank]
        BY <2>3, Zenon DEF Test, OnSettings, Blank
      <3> QED
        BY <1>0, <1>1, <1>2, <3>1, Zenon
    <2>4. ASSUME NEW ok \in BOOLEAN, ProbeAnswered(ok)
          PROVE  /\ UNCHANGED <<hooks, pathname, palette>>
                 /\ held' \in Bearer /\ settings' \in SettingsPage
      <3> DEFINE said == IF ok THEN "Accepted" ELSE "Rejected"
      <3>1. /\ UNCHANGED <<hooks, pathname, palette, held>>
            /\ settings' = [settings EXCEPT !.probing = FALSE, !.probe = said]
        BY <2>4, Zenon DEF ProbeAnswered, OnSettings
      <3>2. said \in {"", "Accepted", "Rejected"}
        BY Zenon
      <3> HIDE DEF said
      <3> QED
        BY <1>0, <1>2, <3>1, <3>2, Zenon
    <2>5. ASSUME NEW t \in Bearer, EditDraft(t)
          PROVE  /\ UNCHANGED <<hooks, pathname, palette>>
                 /\ held' \in Bearer /\ settings' \in SettingsPage
      <3>1. /\ UNCHANGED <<hooks, pathname, palette, held>>
            /\ settings' = [settings EXCEPT !.draft = t]
        BY <2>5, Zenon DEF EditDraft, OnSettings
      <3> QED
        BY <1>0, <1>2, <3>1, Zenon
    <2>6. CASE WriteToken
      <3>1. /\ UNCHANGED <<hooks, pathname, palette>> /\ held' \in Bearer
            /\ settings' = [settings EXCEPT !.draft = held']
        BY <2>6, Zenon DEF WriteToken
      <3> QED
        BY <1>2, <3>1, Zenon
    <2> QED
      BY <2>1, <2>2, <2>3, <2>4, <2>5, <2>6, Zenon DEF Setting
  <1>4. HooksTell'
    BY <1>3, TokenIsNew
  <1> QED
    BY <1>3, <1>4 DEF ShellInv, ShellTypeOK, LitIsThere

(* Every step of the frame keeps its invariant.                            *)
LEMMA ShellStep == ShellInv /\ [ShellNext]_shellVars => ShellInv'
  <1> SUFFICES ASSUME ShellInv, [ShellNext]_shellVars PROVE ShellInv'
    OBVIOUS
  <1>1. CASE BeginChecks
    BY <1>1, ChecksBegin
  <1>2. ASSUME ~EffectsDue, Checking PROVE ShellInv'
    <2>1. ASSUME NEW h \in DOMAIN hooks, Tick60(h) PROVE ShellInv'
      BY <1>2, <2>1, AsksAgainKeeps DEF Tick60
    <2>2. ASSUME NEW h \in DOMAIN hooks, NEW c \in hooks[h].checks, NEW ok \in BOOLEAN,
                 HealthAnswered(h, c, ok) \/ ReadinessAnswered(h, c, ok)
          PROVE  ShellInv'
      BY <1>2, <2>2, HealthKeeps, ReadinessKeeps
    <2>3. CASE Recheck
      <3>1. PICK h \in DOMAIN hooks : AsksAgain(h)
        BY <2>3 DEF Recheck
      <3> QED
        BY <1>2, <3>1, AsksAgainKeeps
    <2> QED
      BY <1>2, <2>1, <2>2, <2>3 DEF Checking
  <1>3. ASSUME ~EffectsDue, Navigating \/ Setting \/ WriteToken PROVE ShellInv'
    BY <1>3, NavigatingKeeps, SettingKeeps
  <1>4. CASE UNCHANGED shellVars
    BY <1>4 DEF shellVars, ShellInv, ShellTypeOK, HooksTell, LitIsThere
  <1> QED
    BY <1>1, <1>2, <1>3, <1>4 DEF ShellNext

(* What the hooks and the palette say follows from the invariant.          *)
LEMMA ShellInvGivesTruth == ShellInv => ShellTellsTheTruth
  <1> SUFFICES ASSUME ShellInv PROVE ShellTellsTheTruth
    OBVIOUS
  <1> USE DEF ShellInv
  <1>1. ASSUME Results # <<>> PROVE palette.lit \in DOMAIN Results
    <2>1. palette \in Palettes /\ LitIsThere(palette)
      BY DEF ShellTypeOK
    <2>2. Len(Results) \in Nat /\ DOMAIN Results = 1..Len(Results) /\ Len(Results) # 0
      BY <1>1, <2>1, ResultsAreASequence DEF Results
    <2> QED
      BY <1>1, <2>1, <2>2 DEF LitIsThere, Results
  <1>2. DOMAIN hooks \ {"status"} = Connected(pathname) /\ (StatusOpen => pathname = "admin")
    BY DEF HooksTell, Mounted, StatusOpen
  <1>3. ASSUME ~EffectsDue, NEW h \in DOMAIN hooks, hooks[h].status # "checking"
        PROVE  /\ hooks[h].of = held /\ hooks[h].checks = {}
               /\ hooks[h].status = "no-token" => held = NoBearer
               /\ hooks[h].status = "unreachable" <=> StatusSection(h) = "unreachable"
    <2>1. HookOK(hooks[h], held) /\ hooks[h].ranWith = <<held, hooks[h].nonce>>
      BY <1>3 DEF EffectsDue, CheckDue, HooksTell
    <2>2. /\ hooks[h].status = "unreachable" => ~hooks[h].readiness
          /\ hooks[h].readiness \in BOOLEAN
      BY <2>1 DEF HookOK, Hooks
    <2>3. hooks[h].status = "unreachable" <=> StatusSection(h) = "unreachable"
      BY <1>3, <2>2 DEF StatusSection
    <2> QED
      BY <1>3, <2>1, <2>3 DEF HookOK, CheckIsOf
  <1>4. ASSUME ~EffectsDue, describeConnection = "Live" PROVE hooks["frame"].status = "connected"
    <2>1. "frame" \in DOMAIN hooks
      BY <1>2 DEF Connected
    <2>2. hooks["frame"].status \in {"checking", "unreachable", "connected", "no-token"}
      BY <2>1 DEF HooksTell, HookOK, Hooks
    <2> QED
      BY <1>3, <1>4, <2>1, <2>2 DEF describeConnection
  <1> QED
    BY <1>1, <1>2, <1>3, <1>4 DEF ShellTellsTheTruth

(* No useConnection speaks of an earlier token or of a page that was left, *)
(* and what is lit in the palette is there (ShellTellsTheTruth), for any   *)
(* tokens, routes and searches.                                            *)
THEOREM ShellTellsTheTruthAlways == ShellSpec => []ShellTellsTheTruth
  BY ShellInitially, ShellStep, ShellInvGivesTruth, PTL DEF ShellSpec

(* The property is inductive with its types.                               *)
SiteHeaderInv ==
    /\ menuOpen \in BOOLEAN /\ closeTimer \in BOOLEAN
    /\ MenuFollowsThePointer

SiteHeaderSpec == SiteHeaderInit /\ [][SiteHeaderNext]_siteHeaderVars

(* The menu of the site neither closes under a slow pointer nor stays open *)
(* with nobody at it (MenuFollowsThePointer).                              *)
THEOREM MenuFollowsAlways == SiteHeaderSpec => []MenuFollowsThePointer
  <1>1. SiteHeaderInit => SiteHeaderInv
    BY DEF SiteHeaderInit, SiteHeaderInv, MenuFollowsThePointer
  <1>2. SiteHeaderInv /\ [SiteHeaderNext]_siteHeaderVars => SiteHeaderInv'
    <2> SUFFICES ASSUME SiteHeaderInv, [SiteHeaderNext]_siteHeaderVars PROVE SiteHeaderInv'
      OBVIOUS
    <2> USE DEF SiteHeaderInv, MenuFollowsThePointer
    <2>1. ASSUME NEW place \in {"trigger", "panel"}, PointerEnters(place) \/ FocusArrives(place)
          PROVE  SiteHeaderInv'
      BY <2>1 DEF PointerEnters, FocusArrives, openMenu
    <2>2. CASE PointerLeaves \/ PointerDownToPanel \/ PointerUpToTrigger
      BY <2>2 DEF PointerLeaves, PointerDownToPanel, PointerUpToTrigger, openMenu, closeMenuSoon
    <2>3. CASE TimerCloses \/ FocusLeaves \/ Escape \/ ArrowDown
      BY <2>3 DEF TimerCloses, FocusLeaves, Escape, ArrowDown, openMenu, closeMenuNow, Unmounts
    <2>4. ASSUME NEW path \in Paths, Navigates(path) PROVE SiteHeaderInv'
      BY <2>4 DEF Navigates, Unmounts
    <2>5. CASE OnAPhone \/ UNCHANGED siteHeaderVars
      BY <2>5 DEF OnAPhone, siteHeaderVars
    <2> QED
      BY <2>1, <2>2, <2>3, <2>4, <2>5 DEF SiteHeaderNext
  <1> QED
    BY <1>1, <1>2, PTL DEF SiteHeaderSpec, SiteHeaderInv

-----------------------------------------------------------------------------
(* The audit explorer (AuditPage).                                         *)

(* The last n of an interval.                                              *)
LastOf(a, b, n) == {i \in a..b : b - i < n}

(* The largest of an interval are its end.                                 *)
LEMMA LargestOfAnInterval ==
    ASSUME NEW a \in Int, NEW b \in Int, NEW n \in Nat
    PROVE  Largest(a..b, n) = LastOf(a, b, n)
  <1>1. ASSUME NEW i \in a..b PROVE Cardinality({j \in a..b : j > i}) = b - i
    <2>1. {j \in a..b : j > i} = (i + 1)..b
      BY <1>1
    <2>2. Cardinality((i + 1)..b) = IF i + 1 > b THEN 0 ELSE b - (i + 1) + 1
      BY <1>1, FS_Interval
    <2>3. i \in Int /\ i <= b
      BY <1>1
    <2>4. (IF i + 1 > b THEN 0 ELSE b - (i + 1) + 1) = b - i
      BY <2>3
    <2> QED
      BY <2>1, <2>2, <2>4
  <1>2. ASSUME NEW i \in a..b
        PROVE  (Cardinality({j \in a..b : j > i}) < n) <=> (b - i < n)
    BY <1>1
  <1> QED
    BY <1>2, Zenon DEF Largest, LastOf

(* They begin at its first, or n before its end.                           *)
FirstOfLast(a, b, n) == IF b - n + 1 > a THEN b - n + 1 ELSE a

(* The end of an interval is an interval with the same end.                *)
LEMMA EndIsAnInterval ==
    ASSUME NEW a \in Int, NEW b \in Int, NEW n \in Nat
    PROVE  /\ FirstOfLast(a, b, n) \in Int
           /\ LastOf(a, b, n) = FirstOfLast(a, b, n)..b
           /\ \/ FirstOfLast(a, b, n) = a
              \/ FirstOfLast(a, b, n) > a /\ b - FirstOfLast(a, b, n) + 1 = n
  <1>1. CASE b - n + 1 > a
    BY <1>1 DEF LastOf, FirstOfLast
  <1>2. CASE ~(b - n + 1 > a)
    BY <1>2 DEF LastOf, FirstOfLast
  <1> QED
    BY <1>1, <1>2

Holder == Tenant \cup {NoToken}
Link == [tenant : Tenant, seq : Nat]
Chain(t, a, b) == {[tenant |-> t, seq |-> i] : i \in a..b}

(* What a page of the API holds is a run of one chain, up to its end, and  *)
(* a full page where it does not go back to the first entry.               *)
Runs(entries) ==
    \E t \in Tenant, a, b \in Nat :
        /\ a > 0 /\ entries = Chain(t, a, b)
        /\ a = 1 \/ b - a + 1 = PageLimit

(* Every variable of the explorer is of its shape.                         *)
AuditTypeOK ==
    /\ bearer \in Holder
    /\ chain \in [Tenant -> Nat]
    /\ verifying \subseteq Holder
    /\ audit \in [data : SUBSET Link, mode : {"loading", "live", "example"},
                  failure : {"none", "no-token", "server"}, due : BOOLEAN, asking : BOOLEAN,
                  key : {NoToken} \cup ({"audit"} \X Holder), token : Holder, of : Holder]

(* What is listed is nothing, or a run of one chain.                       *)
AnswersAreRuns ==
    /\ audit.data = {} \/ Runs(audit.data)
    /\ audit.mode = "example" => audit.failure # "none"

(* A verdict is about a tenant: the break it names is that chain's, and    *)
(* none comes before what it went over without naming one.                 *)
VerdictIsOfAChain ==
    verify.state = "done" =>
        /\ verify.of \in Tenant
        /\ \/ ~verify.ok /\ verify.firstBad = Broken[verify.of] /\ Broken[verify.of] # 0
           \/ /\ verify.ok /\ verify.checked \in Nat
              /\ Broken[verify.of] = 0 \/ Broken[verify.of] > verify.checked

AuditInv == AuditTypeOK /\ AnswersAreRuns /\ VerdictIsOfAChain

AuditPageSpec == AuditPageInit /\ [][AuditPageNext]_auditVars

(* A page of the API is the end of one chain.                              *)
LEMMA PageIsARun ==
    ASSUME AuditTypeOK, NEW t \in Tenant
    PROVE  PageOf(t) \subseteq Link /\ Runs(PageOf(t))
  <1> DEFINE n == chain[t]
  <1>1. n \in Nat /\ PageLimit \in Nat
    BY AuditPageAssumption DEF AuditTypeOK
  <1>2. PageOf(t) = {[tenant |-> t, seq |-> i] : i \in Largest(1..n, PageLimit)}
    BY DEF PageOf
  <1> HIDE DEF n
  <1>3. 1 \in Int /\ n \in Int
    BY <1>1
  <1>4. Largest(1..n, PageLimit) = LastOf(1, n, PageLimit)
    BY <1>1, <1>3, LargestOfAnInterval
  <1> DEFINE c == FirstOfLast(1, n, PageLimit)
  <1>5. /\ c \in Int /\ LastOf(1, n, PageLimit) = c..n
        /\ c = 1 \/ (c > 1 /\ n - c + 1 = PageLimit)
    BY <1>1, <1>3, EndIsAnInterval, Zenon
  <1> HIDE DEF c
  <1>6. PageOf(t) = Chain(t, c, n)
    BY <1>2, <1>4, <1>5, Zenon DEF Chain
  <1>7. c \in Nat /\ c > 0
    BY <1>5
  <1>8. \A i \in c..n : i \in Nat
    BY <1>1, <1>7
  <1>9. PageOf(t) \subseteq Link
    BY <1>6, <1>8 DEF Chain, Link
  <1> QED
    BY <1>1, <1>5, <1>6, <1>7, <1>9 DEF Runs

(* Nothing is listed or judged before the first answer.                    *)
LEMMA AuditInitially == AuditPageInit => AuditInv
  <1> SUFFICES ASSUME AuditPageInit PROVE AuditInv
    OBVIOUS
  <1>1. audit = [data |-> {}, mode |-> "loading", failure |-> "none", due |-> TRUE,
                 asking |-> FALSE, key |-> NoToken, token |-> NoToken, of |-> NoToken]
    BY DEF AuditPageInit, Log!Mounted
  <1>2. MaxEntries - 2 \in Nat
    BY AuditPageAssumption
  <1> QED
    BY <1>1, <1>2 DEF AuditPageInit, AuditInv, AuditTypeOK, AnswersAreRuns, VerdictIsOfAChain,
       Idle, Holder

(* Every step of the explorer, and every change around it, keeps its       *)
(* invariant.                                                              *)
LEMMA AuditStep == AuditInv /\ [AuditPageNext]_auditVars => AuditInv'
  <1> SUFFICES ASSUME AuditInv, [AuditPageNext]_auditVars PROVE AuditInv'
    OBVIOUS
  <1> USE DEF AuditInv
  <1>1. CASE AuditAsks
    <2>1. audit' = [audit EXCEPT !.mode = "loading", !.due = FALSE, !.asking = TRUE,
                                 !.key = <<"audit", bearer>>, !.token = bearer]
      BY <1>1 DEF AuditAsks, Log!RunEffect, AuditKey
    <2>2. <<"audit", bearer>> \in {"audit"} \X Holder
      BY DEF AuditTypeOK
    <2>3. AuditTypeOK'
      BY <1>1, <2>1, <2>2, Zenon DEF AuditTypeOK, AuditAsks
    <2> QED
      BY <1>1, <2>1, <2>3 DEF AuditTypeOK, AnswersAreRuns, VerdictIsOfAChain, AuditAsks, Runs
  <1>2. CASE AuditArrives
    <2> DEFINE p == PageOf(audit.token)
    <2>1. p \subseteq Link /\ Runs(p)
      BY <1>2, PageIsARun DEF AuditArrives
    <2>2. audit' = [audit EXCEPT !.data = p, !.mode = "live", !.failure = "none",
                                 !.asking = FALSE, !.of = audit.token]
      BY <1>2 DEF AuditArrives, Log!Succeeds
    <2>x. UNCHANGED <<bearer, chain, verify, verifying>>
      BY <1>2 DEF AuditArrives
    <2> HIDE DEF p
    <2>3. audit.token \in Holder
      BY DEF AuditTypeOK
    <2>4. AuditTypeOK'
      BY <2>x, <2>1, <2>2, <2>3, Zenon DEF AuditTypeOK
    <2>5. audit'.data = p /\ audit'.mode = "live"
      BY <2>2, Zenon DEF AuditTypeOK
    <2>6. AnswersAreRuns'
      BY <2>1, <2>5 DEF AnswersAreRuns, Runs
    <2> QED
      BY <2>x, <2>4, <2>6 DEF VerdictIsOfAChain
  <1>3. CASE AuditFails
    <2>1. PICK kind \in {"no-token", "server"} :
            audit' = [audit EXCEPT !.data = {}, !.mode = "example", !.failure = kind,
                                   !.asking = FALSE, !.of = audit.token]
      BY <1>3 DEF AuditFails, Log!Fails
    <2>x. UNCHANGED <<bearer, chain, verify, verifying>>
      BY <1>3 DEF AuditFails
    <2>3. audit.token \in Holder
      BY DEF AuditTypeOK
    <2>4. AuditTypeOK'
      BY <2>x, <2>1, <2>3, Zenon DEF AuditTypeOK
    <2>5. audit'.data = {} /\ audit'.failure = kind
      BY <2>1, Zenon DEF AuditTypeOK
    <2>6. AnswersAreRuns'
      BY <2>5 DEF AnswersAreRuns
    <2> QED
      BY <2>x, <2>4, <2>6 DEF VerdictIsOfAChain
  <1>4. CASE AuditRetry
    <2>1. audit' = [audit EXCEPT !.due = TRUE]
      BY <1>4 DEF AuditRetry, Log!Reload
    <2>x. UNCHANGED <<bearer, chain, verify, verifying>>
      BY <1>4 DEF AuditRetry
    <2>2. AuditTypeOK'
      BY <2>x, <2>1, Zenon DEF AuditTypeOK
    <2>3. audit'.data = audit.data /\ audit'.mode = audit.mode /\ audit'.failure = audit.failure
      BY <2>1, Zenon DEF AuditTypeOK
    <2> QED
      BY <2>x, <2>2, <2>3 DEF AnswersAreRuns, VerdictIsOfAChain, Runs
  <1>5. CASE RunVerification
    BY <1>5 DEF RunVerification, AuditTypeOK, AnswersAreRuns, VerdictIsOfAChain, Runs
  <1>6. ASSUME NEW t \in verifying, VerifyAnswered(t) PROVE AuditInv'
    <2>1. t \in Tenant
      BY <1>6 DEF VerifyAnswered, AuditTypeOK, Holder
    <2>2. verify' = Recomputed(t) /\ chain[t] \in Nat /\ Broken[t] \in Nat
      BY <1>6, <2>1, AuditPageAssumption DEF VerifyAnswered, AuditTypeOK
    <2>3. VerdictIsOfAChain'
      BY <2>1, <2>2 DEF Recomputed, VerdictIsOfAChain
    <2> QED
      BY <1>6, <2>3 DEF VerifyAnswered, AuditTypeOK, AnswersAreRuns, Runs
  <1>7. ASSUME NEW t \in verifying, VerifyFailed(t) PROVE AuditInv'
    BY <1>7 DEF VerifyFailed, AuditTypeOK, AnswersAreRuns, VerdictIsOfAChain, Runs
  <1>8. CASE Searches \/ (\E e \in audit.data : Selects(e)) \/ BearerChanges \/ UNCHANGED auditVars
    <2>1. UNCHANGED <<chain, audit, verify, verifying>>
      BY <1>8 DEF Searches, Selects, BearerChanges, auditVars, auditPage
    <2>2. bearer' \in Holder
      BY <1>8 DEF Searches, Selects, BearerChanges, auditVars, AuditTypeOK, Holder
    <2> QED
      BY <2>1, <2>2 DEF AuditTypeOK, AnswersAreRuns, VerdictIsOfAChain, Runs
  <1>9. ASSUME NEW t \in Tenant, EntryRecorded(t) PROVE AuditInv'
    BY <1>9 DEF EntryRecorded, auditPage, AuditTypeOK, AnswersAreRuns, VerdictIsOfAChain, Runs
  <1> QED
    BY <1>1, <1>2, <1>3, <1>4, <1>5, <1>6, <1>7, <1>8, <1>9 DEF AuditPageNext, Verifying

(* The numbers of a run are its interval.                                  *)
LEMMA SequencesOfARun ==
    ASSUME NEW t, NEW a, NEW b PROVE Sequences(Chain(t, a, b)) = a..b
  <1>1. ASSUME NEW i \in a..b PROVE i \in Sequences(Chain(t, a, b))
    <2>1. [tenant |-> t, seq |-> i] \in Chain(t, a, b)
      BY DEF Chain
    <2>2. [tenant |-> t, seq |-> i].seq = i
      OBVIOUS
    <2> QED
      BY <2>1, <2>2, Zenon DEF Sequences
  <1>2. ASSUME NEW i \in Sequences(Chain(t, a, b)) PROVE i \in a..b
    <2>1. PICK e \in Chain(t, a, b) : i = e.seq
      BY Zenon DEF Sequences
    <2>2. PICK j \in a..b : e = [tenant |-> t, seq |-> j]
      BY <2>1, Zenon DEF Chain
    <2> QED
      BY <2>1, <2>2
  <1> QED
    BY <1>1, <1>2

(* The strip of a run of a chain is the end of that run.                   *)
LEMMA StripOfARun ==
    ASSUME NEW t \in Tenant, NEW a \in Nat, NEW b \in Nat, audit.data = Chain(t, a, b)
    PROVE  \E c \in Int : Strip = Chain(t, c, b) /\ (a <= b => c <= b)
  <1>1. Sequences(audit.data) = a..b
    BY SequencesOfARun
  <1>2. StripLength \in Nat /\ StripLength > 0
    BY AuditPageAssumption
  <1>3. Largest(a..b, StripLength) = LastOf(a, b, StripLength)
    BY <1>2, LargestOfAnInterval
  <1> DEFINE c == FirstOfLast(a, b, StripLength)
  <1>4. c \in Int /\ LastOf(a, b, StripLength) = c..b
    <2>1. a \in Int /\ b \in Int
      OBVIOUS
    <2> QED
      BY <1>2, <2>1, EndIsAnInterval, Zenon
  <1> HIDE DEF c
  <1>5. Largest(a..b, StripLength) = c..b
    BY <1>3, <1>4
  <1>6. c..b \subseteq a..b
    BY <1>4 DEF LastOf
  <1>7. Strip = Chain(t, c, b)
    <2>1. Strip = {e \in Chain(t, a, b) : e.seq \in c..b}
      BY <1>1, <1>5 DEF Strip
    <2> QED
      BY <2>1, <1>6 DEF Chain
  <1>8. ASSUME a <= b PROVE c <= b
    <2>1. b \in LastOf(a, b, StripLength)
      BY <1>2, <1>8 DEF LastOf
    <2> QED
      BY <2>1, <1>4
  <1> QED
    BY <1>4, <1>7, <1>8

(* A run of a chain has as many entries as numbers.                        *)
LEMMA SizeOfARun ==
    ASSUME NEW t, NEW a \in Nat, NEW b \in Nat, a <= b
    PROVE  Cardinality(Chain(t, a, b)) = b - a + 1
  <1> DEFINE f == [i \in a..b |-> [tenant |-> t, seq |-> i]]
  <1>1. f \in Bijection(a..b, Chain(t, a, b))
    <2>1. f \in [a..b -> Chain(t, a, b)]
      BY Zenon DEF Chain
    <2>2. \A e \in Chain(t, a, b) : \E i \in a..b : f[i] = e
      BY Zenon DEF Chain
    <2>3. \A i, j \in a..b : f[i] = f[j] => i = j
      OBVIOUS
    <2> HIDE DEF f
    <2> QED
      BY <2>1, <2>2, <2>3, Zenon DEF Bijection, Injection, Surjection, IsInjective
  <1>2. IsFiniteSet(a..b) /\ Cardinality(a..b) = b - a + 1
    BY FS_Interval
  <1>3. ExistsBijection(a..b, Chain(t, a, b))
    BY <1>1, Zenon DEF ExistsBijection
  <1>4. Cardinality(a..b) = Cardinality(Chain(t, a, b))
    BY <1>2, <1>3, FS_Bijection, Zenon
  <1> QED
    BY <1>2, <1>4

(* What is drawn is evidence wherever the invariant holds.                 *)
LEMMA AuditInvGivesEvidence == AuditInv => EvidenceIsTheApis
  <1> SUFFICES ASSUME AuditInv PROVE EvidenceIsTheApis
    OBVIOUS
  <1> USE DEF AuditInv
  <1>1. Strip \subseteq audit.data /\ (audit.data = {} => Strip = {} /\ Listed = {})
    BY DEF Strip, Listed
  <1>2. ASSUME NEW e \in Strip, NEW f \in Strip
        PROVE  f.tenant = e.tenant /\ \A i \in e.seq..f.seq : i \in Sequences(Strip)
    <2>1. PICK t \in Tenant, a \in Nat, b \in Nat : audit.data = Chain(t, a, b)
      BY <1>1 DEF AnswersAreRuns, Runs
    <2>2. PICK c \in Int : Strip = Chain(t, c, b)
      BY <2>1, StripOfARun
    <2>3. Sequences(Strip) = c..b
      BY <2>2, SequencesOfARun
    <2>4. e.tenant = t /\ f.tenant = t /\ e.seq \in c..b /\ f.seq \in c..b
      BY <2>2 DEF Chain
    <2> QED
      BY <2>3, <2>4
  <1>3. ASSUME NEW e \in Strip, Judged(e)
        PROVE  /\ LinkState(e) = "bad" => Broken[e.tenant] \in 1..e.seq
               /\ LinkState(e) = "ok" =>
                      Broken[e.tenant] \notin 1..e.seq \/ (verify.ok /\ e.seq > verify.checked)
    <2>1. e.seq \in Nat /\ e.tenant \in Tenant
      BY <1>1 DEF AuditTypeOK, Link
    <2>2. Broken[e.tenant] \in Nat
      BY <2>1, AuditPageAssumption
    <2>3. \/ ~verify.ok /\ verify.firstBad = Broken[e.tenant] /\ Broken[e.tenant] # 0
          \/ /\ verify.ok /\ verify.checked \in Nat
             /\ Broken[e.tenant] = 0 \/ Broken[e.tenant] > verify.checked
      BY <1>3, Zenon DEF Judged, VerdictIsOfAChain
    <2>4. verify.state = "done"
      BY <1>3, Zenon DEF Judged
    <2>5. CASE ~verify.ok
      BY <2>1, <2>2, <2>3, <2>4, <2>5 DEF LinkState
    <2>6. CASE verify.ok
      BY <2>1, <2>2, <2>3, <2>4, <2>6 DEF LinkState
    <2> QED
      BY <2>5, <2>6
  <1>4. ASSUME AuditReport = "none" PROVE audit.mode = "live" /\ audit.data = {}
    <2>1. audit.mode # "loading" /\ audit.failure = "none" /\ Listed = {} /\ search = Nothing
      BY <1>4 DEF AuditReport
    <2>2. Listed = audit.data
      BY <2>1, Zenon DEF Listed, Nothing
    <2> QED
      BY <2>1, <2>2 DEF AuditTypeOK, AnswersAreRuns
  <1>5. ASSUME StripReport = "none" PROVE audit.mode = "live" /\ audit.data = {}
    <2>1. audit.mode # "loading" /\ audit.failure = "none" /\ Strip = {}
      BY <1>5 DEF StripReport
    <2>2. ASSUME Runs(audit.data) PROVE audit.data = {}
      <3>1. PICK t \in Tenant, a \in Nat, b \in Nat : audit.data = Chain(t, a, b)
        BY <2>2 DEF Runs
      <3>2. PICK c \in Int : Strip = Chain(t, c, b) /\ (a <= b => c <= b)
        BY <3>1, StripOfARun
      <3>3. CASE a <= b
        <4>1. [tenant |-> t, seq |-> b] \in Strip
          BY <3>2, <3>3 DEF Chain
        <4> QED
          BY <2>1, <4>1
      <3>4. CASE ~(a <= b)
        <4>1. a..b = {}
          BY <3>4
        <4> QED
          BY <3>1, <4>1 DEF Chain
      <3> QED
        BY <3>3, <3>4
    <2> QED
      BY <2>1, <2>2 DEF AuditTypeOK, AnswersAreRuns
  <1>6. ASSUME AuditReport = "rows", 1 \notin Sequences(audit.data) PROVE SaysItStops
    <2>1. audit.mode # "loading" /\ audit.failure = "none" /\ Listed # {}
      BY <1>6 DEF AuditReport
    <2>2. PICK t \in Tenant, a \in Nat, b \in Nat :
             /\ a > 0 /\ audit.data = Chain(t, a, b)
             /\ a = 1 \/ b - a + 1 = PageLimit
      BY <1>1, <2>1, Zenon DEF AnswersAreRuns, Runs
    <2>3. a <= b
      <3>1. audit.data # {}
        BY <1>1, <2>1, Zenon
      <3>2. a..b # {}
        BY <2>2, <3>1, Zenon DEF Chain
      <3> QED
        BY <3>2
    <2>4. a # 1
      <3>1. Sequences(audit.data) = a..b
        BY <2>2, SequencesOfARun, Zenon
      <3> QED
        BY <1>6, <2>3, <3>1
    <2>5. Cardinality(audit.data) = b - a + 1
      BY <2>2, <2>3, SizeOfARun
    <2> QED
      BY <2>1, <2>2, <2>4, <2>5, AuditPageAssumption DEF SaysItStops
  <1> QED
    BY <1>2, <1>3, <1>4, <1>5, <1>6, Zenon DEF EvidenceIsTheApis

(* The strip is a run of one chain; of the chain that was verified no link *)
(* is red before its break, nor green after it unless recorded since; and  *)
(* nothing is said of an answer that did not come, nor a full page taken   *)
(* for the whole chain (EvidenceIsTheApis), for chains, pages and strips   *)
(* of any length.                                                          *)
THEOREM EvidenceAlways == AuditPageSpec => []EvidenceIsTheApis
  BY AuditInitially, AuditStep, AuditInvGivesEvidence, PTL DEF AuditPageSpec

-----------------------------------------------------------------------------
(* The MCP page and its workspace (McpDesk).                               *)

DeskHolder == Bearers \cup {None}

(* What useResource can hold of the catalogue.                             *)
Catalogues ==
    [data : SUBSET DOMAIN Offered, mode : {"loading", "live", "example"},
     failure : {"none", "no-token", "server"}, due : BOOLEAN, asking : BOOLEAN,
     key : {None} \cup ({"mcp"} \X DeskHolder), token : DeskHolder, of : DeskHolder]

AgentNames == {ListedAgent[t] : t \in ToolName} \cup {CompiledAgent[t] : t \in ToolName}

Calls ==
    [tool : ToolName, agent : AgentNames, token : DeskHolder, args : SUBSET Value,
     draft : Value, read : (SUBSET Value) \cup {None}, heard : BOOLEAN]

(* Every variable of the MCP page is of its shape.                         *)
McpTypeOK ==
    /\ deskToken \in DeskHolder
    /\ surface \in Catalogues
    /\ underWay \subseteq Calls
    /\ desk # None => desk \in Desks

(* What a run sends is what its form held, which the form did not object   *)
(* to, and what its card showed if it had one.                             *)
SentAsRead ==
    \A run \in underWay :
        /\ Offered[run.tool].destructive => run.read = run.args
        /\ ~problemsOf(run.tool, run.draft)
        /\ run.args = payloadOf(run.draft)

(* The workspace is of the tool that the address selects.                  *)
DeskOfTheAddress ==
    desk # None =>
        surface.mode # "loading" /\ surface.data # {} /\ desk.tool = Selected(surface, requested)

(* At most one run is heard, by the workspace of its tool.                 *)
HeardByTheDesk ==
    \A run \in underWay : run.heard =>
        /\ desk # None /\ run.tool = desk.tool
        /\ \A other \in underWay : other.heard => other = run

RowIsOf(tool, row) == row.of = tool /\ row.args = payloadOf(row.draft)

(* History, result, card and state of a workspace agree with its runs.     *)
DeskIsWhole ==
    desk # None =>
        /\ \A i \in DOMAIN desk.history : RowIsOf(desk.tool, desk.history[i])
        /\ desk.state = "done" => desk.result = desk.tool
        /\ desk.card # None =>
               desk.card = payloadOf(desk.draft) /\ ~problemsOf(desk.tool, desk.draft) /\ desk.state # "running"
        /\ desk.state = "running" <=> \E run \in underWay : run.heard

McpInv == McpTypeOK /\ SentAsRead /\ DeskOfTheAddress /\ HeardByTheDesk /\ DeskIsWhole

McpSpec == McpInit /\ [][McpNext]_mcpVars

(* Only what was typed is sent.                                            *)
LEMMA PayloadIsValues == ASSUME NEW draft \in Value PROVE payloadOf(draft) \subseteq Value
  BY Zenon DEF payloadOf

(* Whether a run is still heard is the only thing that is forgotten of it. *)
LEMMA HeardCopies ==
    ASSUME NEW r \in Calls, NEW h \in BOOLEAN
    PROVE  /\ [r EXCEPT !.heard = h] \in Calls
           /\ [r EXCEPT !.heard = h].tool = r.tool /\ [r EXCEPT !.heard = h].args = r.args
           /\ [r EXCEPT !.heard = h].draft = r.draft /\ [r EXCEPT !.heard = h].read = r.read
           /\ [r EXCEPT !.heard = h].heard = h
  BY Zenon DEF Calls

(* A run that stays heard is the run it was.                               *)
LEMMA HeardAgain == ASSUME NEW r \in Calls PROVE [r EXCEPT !.heard = r.heard] = r
  BY SMT DEF Calls

(* A workspace made anew has run nothing and shows no card.                *)
LEMMA NewDeskFacts ==
    ASSUME NEW tool \in ToolName
    PROVE  /\ NewDesk(tool) \in Desks
           /\ NewDesk(tool).tool = tool /\ NewDesk(tool).state = "idle"
           /\ NewDesk(tool).card = None /\ NewDesk(tool).history = <<>>
  <1>1. "" \in Value
    BY McpAssumption, Zenon
  <1>2. <<>> \in Seq(HistoryRows)
    OBVIOUS
  <1> QED
    BY <1>1, <1>2, Zenon DEF NewDesk, Desks

(* The tool that is shown is one the catalogue has.                        *)
LEMMA SelectedIsOffered ==
    ASSUME NEW catalogue \in Catalogues, NEW address, Selected(catalogue, address) # None
    PROVE  /\ catalogue.mode # "loading" /\ catalogue.data # {}
           /\ Selected(catalogue, address) \in ToolName
  <1>1. catalogue.mode # "loading" /\ catalogue.data # {}
    BY DEF Selected
  <1>2. catalogue.data \subseteq ToolName
    BY McpAssumption DEF Catalogues
  <1>3. Preferred(catalogue.data) \in catalogue.data
    BY <1>1, Zenon DEF Preferred
  <1>4. \/ /\ Selected(catalogue, address) = address
           /\ address \in catalogue.data
        \/ Selected(catalogue, address) = Preferred(catalogue.data)
    BY <1>1, Zenon DEF Selected
  <1> QED
    BY <1>1, <1>2, <1>3, <1>4

(* A render keeps the workspace of its tool, or makes one that hears no    *)
(* earlier run.                                                            *)
LEMMA RenderingKeeps ==
    ASSUME McpInv, Renders, surface' \in Catalogues, deskToken' = deskToken
    PROVE  McpInv'
  <1> DEFINE tool == Selected(surface', requested')
             stays == desk # None /\ desk.tool = tool
  <1>1. /\ desk' = IF tool = None THEN None ELSE IF stays THEN desk ELSE NewDesk(tool)
        /\ underWay' = {[r EXCEPT !.heard = @ /\ stays] : r \in underWay}
    BY Zenon DEF Renders
  <1>2. underWay \subseteq Calls /\ (desk # None => desk \in Desks)
    BY DEF McpInv, McpTypeOK
  <1>3. stays \in BOOLEAN
    OBVIOUS
  <1>4. tool # None => surface'.mode # "loading" /\ surface'.data # {} /\ tool \in ToolName
    BY SelectedIsOffered
  <1>5. DeskOfTheAddress'
    <2>1. ASSUME desk' # None PROVE tool # None /\ desk'.tool = tool
      <3>1. tool # None
        BY <1>1, <2>1
      <3>2. CASE stays
        BY <1>1, <3>1, <3>2
      <3>3. CASE ~stays
        BY <1>1, <1>4, <3>1, <3>3, NewDeskFacts, Zenon
      <3> QED
        BY <3>2, <3>3
    <2> QED
      BY <1>4, <2>1 DEF DeskOfTheAddress
  <1> HIDE DEF tool, stays
  <1>6. ASSUME NEW s \in underWay'
        PROVE  \E r \in underWay :
                  /\ s \in Calls /\ s.tool = r.tool /\ s.args = r.args /\ s.draft = r.draft
                  /\ s.read = r.read /\ s.heard = (r.heard /\ stays)
    <2>1. PICK r \in underWay : s = [r EXCEPT !.heard = r.heard /\ stays]
      BY <1>1, Zenon
    <2>2. r \in Calls /\ (r.heard /\ stays) \in BOOLEAN
      BY <1>2, <1>3, Zenon DEF Calls
    <2> QED
      BY <2>1, <2>2, HeardCopies, Zenon
  <1>7. underWay' \subseteq Calls
    BY <1>6
  <1>8. SentAsRead'
    <2> SUFFICES ASSUME NEW s \in underWay'
                 PROVE  /\ Offered[s.tool].destructive => s.read = s.args
                        /\ ~problemsOf(s.tool, s.draft) /\ s.args = payloadOf(s.draft)
      BY Zenon DEF SentAsRead
    <2>1. PICK r \in underWay : s.tool = r.tool /\ s.args = r.args /\ s.draft = r.draft /\ s.read = r.read
      BY <1>6, Zenon
    <2> QED
      BY <2>1, Zenon DEF McpInv, SentAsRead
  <1>9. CASE tool # None /\ stays
    <2>1. desk' = desk
      BY <1>1, <1>9, Zenon
    <2>2. ASSUME NEW r \in underWay PROVE [r EXCEPT !.heard = @ /\ stays] = r
      <3>1. r.heard \in BOOLEAN
        BY <1>2, Zenon DEF Calls
      <3>2. (r.heard /\ stays) = r.heard
        BY <1>9, <3>1
      <3>3. [r EXCEPT !.heard = r.heard] = r
        BY <1>2, HeardAgain
      <3> QED
        BY <3>2, <3>3, Zenon
    <2>3. underWay' = underWay
      BY <1>1, <2>2, Zenon
    <2> QED
      BY <1>5, <1>7, <1>8, <2>1, <2>3, <1>2 DEF McpInv, McpTypeOK, HeardByTheDesk, DeskIsWhole
  <1>10. CASE ~(tool # None /\ stays)
    <2>1. ASSUME NEW s \in underWay' PROVE ~s.heard
      <3>1. PICK r \in underWay : s.heard = (r.heard /\ stays)
        BY <1>6, Zenon
      <3>2. CASE ~stays
        BY <3>1, <3>2
      <3>3. CASE tool = None /\ stays
        <4>1. desk \in Desks /\ desk.tool = None
          BY <1>2, <3>3 DEF stays
        <4>2. desk.tool \in ToolName
          BY <4>1 DEF Desks
        <4> QED
          BY <4>1, <4>2, McpAssumption
      <3> QED
        BY <1>10, <3>2, <3>3
    <2>2. desk' # None => /\ desk' \in Desks /\ desk'.state = "idle" /\ desk'.card = None
                          /\ desk'.history = <<>>
      BY <1>1, <1>4, <1>10, NewDeskFacts, Zenon DEF tool
    <2>3. HeardByTheDesk'
      BY <2>1, Zenon DEF HeardByTheDesk
    <2>4. DeskIsWhole'
      BY <2>1, <2>2 DEF DeskIsWhole
    <2> QED
      BY <1>5, <1>7, <1>8, <2>2, <2>3, <2>4 DEF McpInv, McpTypeOK
  <1> QED
    BY <1>9, <1>10

(* Before the catalogue there is no workspace and no run.                  *)
LEMMA McpInitially == McpInit => McpInv
  <1> SUFFICES ASSUME McpInit PROVE McpInv
    OBVIOUS
  <1>1. surface \in Catalogues
    BY Zenon DEF McpInit, Resource!Mounted, Catalogues, DeskHolder
  <1> QED
    BY <1>1 DEF McpInit, McpInv, McpTypeOK, DeskHolder, SentAsRead, DeskOfTheAddress,
       HeardByTheDesk, DeskIsWhole

(* What the desk tells follows from the invariant.                         *)
LEMMA McpInvGivesTruth == McpInv => DeskTellsWhatRan
  BY DEF McpInv, SentAsRead, DeskOfTheAddress, HeardByTheDesk, DeskIsWhole, DeskTellsWhatRan,
     RowIsOf,
     RequestedMissing, Selected

(* A change of the form or of the card, with no run begun or ended.        *)
LEMMA FormKeeps ==
    ASSUME McpInv, desk # None, NEW d \in Desks, OnDesk(d), UNCHANGED underWay,
           d.tool = desk.tool, d.history = desk.history, d.state = desk.state,
           d.result = desk.result,
           d.card # None => d.card = payloadOf(d.draft) /\ ~problemsOf(d.tool, d.draft) /\ d.state # "running"
    PROVE  McpInv'
  <1>1. /\ desk' = d /\ UNCHANGED <<deskToken, surface, requested, underWay>>
    BY DEF OnDesk, mcpPage
  <1>2. desk' # None
    BY <1>1, McpAssumption
  <1>3. McpTypeOK' /\ SentAsRead'
    BY <1>1 DEF McpInv, McpTypeOK, SentAsRead
  <1>4. DeskOfTheAddress'
    BY <1>1 DEF McpInv, DeskOfTheAddress
  <1>5. HeardByTheDesk'
    BY <1>1, <1>2 DEF McpInv, HeardByTheDesk
  <1>6. DeskIsWhole'
    BY <1>1, <1>2 DEF McpInv, DeskIsWhole
  <1> QED
    BY <1>3, <1>4, <1>5, <1>6 DEF McpInv

(* What is sent was read: a run begins where none is heard.                *)
LEMMA ExecuteKeeps ==
    ASSUME McpInv, desk # None, desk.state # "running", ~problemsOf(desk.tool, desk.draft),
           Offered[desk.tool].destructive => desk.card = payloadOf(desk.draft),
           execute
    PROVE  McpInv'
  <1> DEFINE d == [desk EXCEPT !.card = None, !.state = "running", !.result = None, !.problem = FALSE]
             c == [tool |-> desk.tool, agent |-> AgentOf(desk.tool), token |-> deskToken,
                   args |-> payloadOf(desk.draft), draft |-> desk.draft, read |-> desk.card,
                   heard |-> TRUE]
  <1>1. /\ desk' = d /\ UNCHANGED <<deskToken, surface, requested>>
        /\ underWay' = underWay \cup {c}
    BY DEF execute, OnDesk, mcpPage
  <1>2. desk \in Desks
    BY DEF McpInv, McpTypeOK
  <1>3. /\ d \in Desks /\ d.tool = desk.tool /\ d.state = "running" /\ d.card = None
        /\ d.history = desk.history
    BY <1>2, Zenon DEF Desks
  <1>4. /\ c.tool = desk.tool /\ c.args = payloadOf(desk.draft) /\ c.draft = desk.draft
        /\ c.read = desk.card /\ c.heard
    OBVIOUS
  <1>5. /\ desk.tool \in ToolName /\ desk.draft \in Value
        /\ desk.card \in (SUBSET Value) \cup {None}
    BY <1>2 DEF Desks
  <1>6. AgentOf(desk.tool) \in AgentNames
    BY <1>5, Zenon DEF AgentOf, AgentNames
  <1>7. c \in Calls
    BY <1>5, <1>6, PayloadIsValues, Zenon DEF Calls, McpInv, McpTypeOK
  <1> HIDE DEF d, c
  <1>8. McpTypeOK'
    BY <1>1, <1>3, <1>7 DEF McpInv, McpTypeOK
  <1>9. SentAsRead'
    BY <1>1, <1>4, Zenon DEF McpInv, SentAsRead
  <1>10. DeskOfTheAddress'
    BY <1>1, <1>3 DEF McpInv, DeskOfTheAddress
  <1>11. desk' # None
    BY <1>1, <1>3, McpAssumption
  <1>12. \A run \in underWay : ~run.heard
    BY DEF McpInv, DeskIsWhole
  <1>13. HeardByTheDesk'
    <2> SUFFICES ASSUME NEW run \in underWay', run.heard
                 PROVE  /\ desk' # None /\ run.tool = desk'.tool
                        /\ \A other \in underWay' : other.heard => other = run
      BY Zenon DEF HeardByTheDesk
    <2>1. run = c
      BY <1>1, <1>12, Zenon
    <2>2. \A other \in underWay' : other.heard => other = c
      BY <1>1, <1>12, Zenon
    <2> QED
      BY <1>1, <1>3, <1>4, <1>11, <2>1, <2>2, Zenon
  <1>14. DeskIsWhole'
    <2>1. desk'.state = "running" /\ desk'.card = None /\ desk'.tool = desk.tool
          /\ desk'.history = desk.history
      BY <1>1, <1>3
    <2>2. \E run \in underWay' : run.heard
      BY <1>1, <1>4, Zenon
    <2>3. \A i \in DOMAIN desk.history : RowIsOf(desk.tool, desk.history[i])
      BY DEF McpInv, DeskIsWhole
    <2> QED
      BY <2>1, <2>2, <2>3 DEF DeskIsWhole
  <1> QED
    BY <1>8, <1>9, <1>10, <1>13, <1>14 DEF McpInv

(* A row put before the rows of a tool leaves rows of that tool.           *)
LEMMA NewRowKeeps ==
    ASSUME NEW tool, NEW rows \in Seq(HistoryRows), NEW row \in HistoryRows, RowIsOf(tool, row),
           \A i \in DOMAIN rows : RowIsOf(tool, rows[i])
    PROVE  /\ AtMostRows(<<row>> \o rows) \in Seq(HistoryRows)
           /\ \A i \in DOMAIN AtMostRows(<<row>> \o rows) : RowIsOf(tool, AtMostRows(<<row>> \o rows)[i])
  <1> DEFINE Good == {r \in HistoryRows : RowIsOf(tool, r)}
             all == <<row>> \o rows
             m == IF Len(all) > MaxHistory THEN MaxHistory ELSE Len(all)
  <1>1. row \in Good
    BY DEF Good
  <1>2. rows \in Seq(Good)
    <2>1. Len(rows) \in Nat /\ rows = [i \in 1..Len(rows) |-> rows[i]]
      OBVIOUS
    <2>2. \A i \in 1..Len(rows) : rows[i] \in Good
      BY DEF Good
    <2> HIDE DEF Good
    <2> QED
      BY <2>1, <2>2
  <1> HIDE DEF Good
  <1>3. all \in Seq(Good)
    <2>1. <<row>> \in Seq(Good)
      BY <1>1
    <2> QED
      BY <1>2, <2>1
  <1>4. Len(all) \in Nat /\ MaxHistory \in Nat
    <2>1. MaxHistory \in Nat \ {0}
      BY McpAssumption, Zenon
    <2> QED
      BY <1>3, <2>1
  <1> HIDE DEF all
  <1>5. m \in Nat /\ m <= Len(all)
    BY <1>4
  <1>6. SubSeq(all, 1, m) \in Seq(Good)
    <2> HIDE DEF m
    <2> QED
      BY <1>3, <1>5
  <1>7. AtMostRows(all) \in Seq(Good)
    BY <1>6, Zenon DEF AtMostRows
  <1>8. AtMostRows(all) \in Seq(HistoryRows)
    <2>1. Good \subseteq HistoryRows
      BY DEF Good
    <2> QED
      BY <1>7, <2>1
  <1>9. \A i \in DOMAIN AtMostRows(all) : AtMostRows(all)[i] \in Good
    BY <1>7
  <1> QED
    BY <1>8, <1>9, Zenon DEF all, Good

(* An answer ends the one run the workspace hears, or one it does not.     *)
LEMMA AnswerKeeps ==
    ASSUME McpInv, NEW run \in underWay, NEW ok \in BOOLEAN, runAnswered(run, ok)
    PROVE  McpInv'
  <1>1. /\ underWay' = underWay \ {run} /\ UNCHANGED <<deskToken, surface, requested>>
    BY DEF runAnswered, OnDesk, mcpPage
  <1>2. SentAsRead' /\ underWay' \subseteq Calls
    BY <1>1 DEF McpInv, SentAsRead, McpTypeOK
  <1>3. CASE ~run.heard
    <2>1. desk' = desk
      BY <1>3 DEF runAnswered, OnDesk
    <2>2. HeardByTheDesk'
      BY <1>1, <2>1, Zenon DEF McpInv, HeardByTheDesk
    <2>3. (\E r \in underWay' : r.heard) <=> (\E r \in underWay : r.heard)
      BY <1>1, <1>3, Zenon
    <2> QED
      BY <1>1, <1>2, <2>1, <2>2, <2>3 DEF McpInv, McpTypeOK, DeskOfTheAddress, DeskIsWhole
  <1>4. CASE run.heard
    <2> DEFINE row == HistoryRow(run, ok)
               d == [desk EXCEPT !.state = IF ok THEN "done" ELSE "failed",
                                 !.result = IF ok THEN run.tool ELSE None,
                                 !.history = AtMostRows(<<row>> \o @)]
    <2>1. desk' = d
      BY <1>4 DEF runAnswered, OnDesk
    <2>2. desk \in Desks /\ run.tool = desk.tool /\ run \in Calls /\ desk # None
      BY <1>4 DEF McpInv, McpTypeOK, HeardByTheDesk
    <2>3. \A other \in underWay' : ~other.heard
      BY <1>1, <1>4 DEF McpInv, HeardByTheDesk
    <2>4. row = [args |-> run.args, draft |-> run.draft, ok |-> ok, of |-> run.tool]
      BY DEF HistoryRow
    <2>5. row \in HistoryRows
      BY <2>2, <2>4 DEF Calls, HistoryRows
    <2>6. RowIsOf(desk.tool, row)
      BY <2>2, <2>4 DEF RowIsOf, McpInv, SentAsRead
    <2> HIDE DEF row
    <2>7. desk.history \in Seq(HistoryRows)
      BY <2>2 DEF Desks
    <2> DEFINE h == AtMostRows(<<row>> \o desk.history)
    <2>8. h \in Seq(HistoryRows) /\ \A i \in DOMAIN h : RowIsOf(desk.tool, h[i])
      <3>1. \A i \in DOMAIN desk.history : RowIsOf(desk.tool, desk.history[i])
        BY <2>2 DEF McpInv, DeskIsWhole
      <3> QED
        BY <2>5, <2>6, <2>7, <3>1, NewRowKeeps
    <2>9. desk.tool \in ToolName /\ desk.state = "running" /\ desk.card = None
      BY <1>4, <2>2 DEF Desks, McpInv, DeskIsWhole
    <2>10. d = [desk EXCEPT !.state = IF ok THEN "done" ELSE "failed",
                            !.result = IF ok THEN run.tool ELSE None, !.history = h]
      OBVIOUS
    <2> HIDE DEF h, d
    <2>11. /\ d \in Desks /\ d.tool = desk.tool /\ d.history = h /\ d.card = desk.card
           /\ d.state = (IF ok THEN "done" ELSE "failed")
           /\ d.result = IF ok THEN run.tool ELSE None
      <3>1. (IF ok THEN "done" ELSE "failed") \in {"idle", "running", "done", "failed"}
        OBVIOUS
      <3>2. (IF ok THEN run.tool ELSE None) \in ToolName \cup {None}
        BY <2>2, <2>9
      <3> QED
        BY <2>2, <2>8, <2>10, <3>1, <3>2, Zenon DEF Desks
    <2>12. desk' # None
      BY <2>1, <2>11, McpAssumption
    <2>13. DeskIsWhole'
      <3>1. desk'.state # "running" /\ (desk'.state = "done" => desk'.result = desk'.tool)
        BY <2>1, <2>2, <2>11
      <3>2. \A i \in DOMAIN desk'.history : RowIsOf(desk'.tool, desk'.history[i])
        BY <2>1, <2>8, <2>11, Zenon
      <3>3. desk'.card = None
        BY <2>1, <2>9, <2>11
      <3> QED
        BY <2>3, <3>1, <3>2, <3>3, Zenon DEF DeskIsWhole
    <2>14. HeardByTheDesk'
      BY <2>3, Zenon DEF HeardByTheDesk
    <2>15. DeskOfTheAddress'
      BY <1>1, <2>1, <2>2, <2>11 DEF McpInv, DeskOfTheAddress
    <2>16. McpTypeOK'
      BY <1>1, <1>2, <2>1, <2>11 DEF McpInv, McpTypeOK
    <2> QED
      BY <1>2, <2>13, <2>14, <2>15, <2>16 DEF McpInv
  <1> QED
    BY <1>3, <1>4

(* Every handler of the workspace keeps the invariant.                     *)
LEMMA WorkspaceStep ==
    ASSUME McpInv, Workspace PROVE McpInv'
  <1>1. ASSUME NEW value \in Value, setField(value) PROVE McpInv'
    <2> DEFINE d == [desk EXCEPT !.draft = value, !.problem = FALSE]
    <2>1. desk \in Desks /\ desk # None /\ desk.card = None /\ OnDesk(d) /\ UNCHANGED underWay
      BY <1>1 DEF setField, AtDesk, McpInv, McpTypeOK
    <2>2. /\ d \in Desks /\ d.tool = desk.tool /\ d.history = desk.history /\ d.state = desk.state
          /\ d.result = desk.result /\ d.card = desk.card
      BY <2>1, Zenon DEF Desks
    <2> HIDE DEF d
    <2> QED
      BY <2>1, <2>2, FormKeeps
  <1>2. CASE start
    <2>1. AtDesk /\ desk \in Desks /\ desk # None /\ desk.card = None /\ desk.state # "running"
      BY <1>2 DEF start, AtDesk, McpInv, McpTypeOK
    <2>2. CASE problemsOf(desk.tool, desk.draft)
      <3> DEFINE d == [desk EXCEPT !.problem = TRUE]
      <3>1. OnDesk(d) /\ UNCHANGED underWay
        BY <1>2, <2>2 DEF start
      <3>2. /\ d \in Desks /\ d.tool = desk.tool /\ d.history = desk.history /\ d.state = desk.state
            /\ d.result = desk.result /\ d.card = desk.card
        BY <2>1, Zenon DEF Desks
      <3> HIDE DEF d
      <3> QED
        BY <2>1, <3>1, <3>2, FormKeeps
    <2>3. CASE ~problemsOf(desk.tool, desk.draft) /\ Offered[desk.tool].destructive
      <3> DEFINE d == [desk EXCEPT !.problem = FALSE, !.card = payloadOf(desk.draft)]
      <3>1. OnDesk(d) /\ UNCHANGED underWay
        BY <1>2, <2>3, Zenon DEF start
      <3>2. payloadOf(desk.draft) \in (SUBSET Value) \cup {None}
        BY <2>1, PayloadIsValues DEF Desks
      <3>3. /\ d \in Desks /\ d.tool = desk.tool /\ d.history = desk.history /\ d.state = desk.state
            /\ d.result = desk.result /\ d.card = payloadOf(desk.draft) /\ d.draft = desk.draft
        BY <2>1, <3>2, Zenon DEF Desks
      <3> HIDE DEF d
      <3> QED
        BY <2>1, <2>3, <3>1, <3>3, FormKeeps
    <2>4. CASE ~problemsOf(desk.tool, desk.draft) /\ ~Offered[desk.tool].destructive
      <3>1. execute
        BY <1>2, <2>4, Zenon DEF start
      <3> QED
        BY <2>1, <2>4, <3>1, ExecuteKeeps
    <2> QED
      BY <2>2, <2>3, <2>4
  <1>3. CASE confirmRun
    <2>1. desk # None /\ desk.card # None /\ execute
      BY <1>3 DEF confirmRun
    <2>2. desk.card = payloadOf(desk.draft) /\ ~problemsOf(desk.tool, desk.draft) /\ desk.state # "running"
      BY <2>1 DEF McpInv, DeskIsWhole
    <2> QED
      BY <2>1, <2>2, ExecuteKeeps
  <1>4. CASE backFromCard
    <2> DEFINE d == [desk EXCEPT !.card = None]
    <2>1. desk \in Desks /\ desk # None /\ OnDesk(d) /\ UNCHANGED underWay
      BY <1>4 DEF backFromCard, McpInv, McpTypeOK
    <2>2. /\ d \in Desks /\ d.tool = desk.tool /\ d.history = desk.history /\ d.state = desk.state
          /\ d.result = desk.result /\ d.card = None
      BY <2>1, Zenon DEF Desks
    <2> HIDE DEF d
    <2> QED
      BY <2>1, <2>2, FormKeeps
  <1>5. ASSUME NEW run \in underWay, NEW ok \in BOOLEAN, runAnswered(run, ok) PROVE McpInv'
    BY <1>5, AnswerKeeps
  <1>6. ASSUME desk # None, NEW i \in DOMAIN desk.history, restoreRow(desk.history[i]) PROVE McpInv'
    <2> DEFINE d == [desk EXCEPT !.draft = desk.history[i].draft]
    <2>1. desk \in Desks /\ desk # None /\ desk.card = None /\ OnDesk(d) /\ UNCHANGED underWay
      BY <1>6 DEF restoreRow, AtDesk, McpInv, McpTypeOK
    <2>2. desk.history[i].draft \in Value
      <3>1. desk.history \in Seq(HistoryRows)
        BY <2>1 DEF Desks
      <3>2. desk.history[i] \in HistoryRows
        BY <1>6, <3>1
      <3> QED
        BY <3>2 DEF HistoryRows
    <2>3. /\ d \in Desks /\ d.tool = desk.tool /\ d.history = desk.history /\ d.state = desk.state
          /\ d.result = desk.result /\ d.card = desk.card
      BY <2>1, <2>2, Zenon DEF Desks
    <2> HIDE DEF d
    <2> QED
      BY <2>1, <2>3, FormKeeps
  <1> QED
    BY <1>1, <1>2, <1>3, <1>4, <1>5, <1>6 DEF Workspace

(* Every step of the MCP page keeps the invariant.                         *)
LEMMA McpStep == McpInv /\ [McpNext]_mcpVars => McpInv'
  <1> SUFFICES ASSUME McpInv, [McpNext]_mcpVars PROVE McpInv'
    OBVIOUS
  <1>0. surface \in Catalogues /\ deskToken \in DeskHolder
    BY DEF McpInv, McpTypeOK
  <1>1. CASE DeskAsks
    <2>1. surface' = IF DeskEffectDue(surface)
                     THEN [surface EXCEPT !.mode = "loading", !.due = FALSE, !.asking = TRUE,
                                          !.key = <<"mcp", deskToken>>, !.token = deskToken]
                     ELSE surface
      BY <1>1 DEF DeskAsks, Resource!RunEffect
    <2>2. <<"mcp", deskToken>> \in {None} \cup ({"mcp"} \X DeskHolder)
      BY <1>0
    <2>3. surface' \in Catalogues
      BY <1>0, <2>1, <2>2, Zenon DEF Catalogues
    <2> QED
      BY <1>1, <2>3, RenderingKeeps DEF DeskAsks
  <1>2. CASE CatalogueAnswered
    <2>1. \/ \E tools \in {DOMAIN Offered, {}} :
               surface' = [surface EXCEPT !.data = tools, !.mode = "live", !.failure = "none",
                                          !.asking = FALSE, !.of = surface.token]
          \/ surface' = [surface EXCEPT !.data = {}, !.mode = "example",
                             !.failure = IF surface.token = None THEN "no-token" ELSE "server",
                             !.asking = FALSE, !.of = surface.token]
      BY <1>2 DEF CatalogueAnswered, Resource!Succeeds, Resource!Fails
    <2>2. surface.token \in DeskHolder
      BY <1>0 DEF Catalogues
    <2>3. \A tools \in {DOMAIN Offered, {}} : tools \in SUBSET DOMAIN Offered
      OBVIOUS
    <2>4. (IF surface.token = None THEN "no-token" ELSE "server") \in {"none", "no-token", "server"}
      OBVIOUS
    <2>5. ASSUME NEW tools \in {DOMAIN Offered, {}}
          PROVE  [surface EXCEPT !.data = tools, !.mode = "live", !.failure = "none",
                                 !.asking = FALSE, !.of = surface.token] \in Catalogues
      BY <1>0, <2>2, <2>3, Zenon DEF Catalogues
    <2>6. ASSUME NEW kind \in {"none", "no-token", "server"}
          PROVE  [surface EXCEPT !.data = {}, !.mode = "example", !.failure = kind,
                                 !.asking = FALSE, !.of = surface.token] \in Catalogues
      BY <1>0, <2>2, Zenon DEF Catalogues
    <2>7. surface' \in Catalogues
      BY <2>1, <2>4, <2>5, <2>6, Zenon
    <2> QED
      BY <1>2, <2>7, RenderingKeeps DEF CatalogueAnswered
  <1>3. ASSUME NEW tool \in ToolName, SelectTool(tool) PROVE McpInv'
    BY <1>0, <1>3, RenderingKeeps DEF SelectTool
  <1>4. CASE CatalogueRetry
    <2>1. /\ surface' = [surface EXCEPT !.due = TRUE]
          /\ UNCHANGED <<deskToken, requested, desk, underWay>>
      BY <1>4 DEF CatalogueRetry, Resource!Reload
    <2>2. surface' \in Catalogues /\ surface'.mode = surface.mode /\ surface'.data = surface.data
      BY <1>0, <2>1, Zenon DEF Catalogues
    <2>3. DeskOfTheAddress'
      BY <2>1, <2>2 DEF McpInv, DeskOfTheAddress, Selected
    <2> QED
      BY <2>1, <2>2, <2>3 DEF McpInv, McpTypeOK, SentAsRead, HeardByTheDesk, DeskIsWhole
  <1>5. CASE AgentsAnswered \/ DeskTokenChanges \/ UNCHANGED mcpVars
    <2>1. UNCHANGED <<surface, requested, desk, underWay>>
      BY <1>5 DEF AgentsAnswered, DeskTokenChanges, mcpVars, mcpPage
    <2>2. deskToken' \in DeskHolder
      BY <1>0, <1>5 DEF AgentsAnswered, DeskTokenChanges, mcpVars, DeskHolder
    <2> QED
      BY <2>1, <2>2 DEF McpInv, McpTypeOK, SentAsRead, DeskOfTheAddress, HeardByTheDesk, DeskIsWhole
  <1>6. CASE Workspace
    BY <1>6, WorkspaceStep
  <1> QED
    BY <1>1, <1>2, <1>3, <1>4, <1>5, <1>6 DEF McpNext, Catalogue

(* What ran on the MCP page is what was read, and its history says so      *)
(* (DeskTellsWhatRan), for any tools and any number of runs.               *)
THEOREM DeskTellsAlways == McpSpec => []DeskTellsWhatRan
  BY McpInitially, McpStep, McpInvGivesTruth, PTL DEF McpSpec

-----------------------------------------------------------------------------
(* The reading pages (ConsolePages).                                       *)

Reader == Token \cup {Null}

(* A resource: what useResource holds, whatever it was given to hold.      *)
IsResource(r) ==
    r \in [data : {r.data}, mode : {"loading", "live", "example"}, failure : {r.failure},
           due : BOOLEAN, asking : BOOLEAN, key : {r.key}, token : Reader, of : Reader]

(* What is shown as live, or asked for, was keyed by the token it is of.   *)
KeyedBy(n, r) == IF n = "detail" THEN \E id : r.key = <<n, id, r.token>> ELSE r.key = <<n, r.token>>

OfItsToken(n, r) ==
    /\ n \notin Panels /\ (r.asking \/ r.mode = "live") => KeyedBy(n, r)
    /\ r.mode = "live" => r.of = r.token

Sound(n, r) == IsResource(r) /\ OfItsToken(n, r)

(* A view: what it holds is not looked at, only that it holds it.          *)
IsView(v) ==
    v \in [filters : [status : {v.filters.status}, agent : {v.filters.agent}, needle : {v.filters.needle}],
           tab : {v.tab}, breakdown : {v.breakdown}, picked : {v.picked}, note : {v.note},
           outcome : {v.outcome}, posts : {v.posts}, replay : {v.replay}, length : {v.length}]

ResourcesAreSound == token \in Reader /\ \A n \in DOMAIN res : Sound(n, res[n])

PagesInv == ResourcesAreSound /\ IsView(view)

PagesSpec == PagesInit /\ [][PagesNext]_pageVars

(* A resource just mounted has asked for nothing.                          *)
LEMMA MountedIsSound == ASSUME NEW n PROVE Sound(n, Data!Mounted)
  BY Zenon DEF Data!Mounted, Sound, IsResource, OfItsToken, Reader

(* The effect keys its request by the token it asks with.                  *)
LEMMA AskedIsSound ==
    ASSUME NEW n, NEW r, Sound(n, r), NEW t \in Reader, NEW key,
           n \in Panels \/ (IF n = "detail" THEN \E id : key = <<n, id, t>> ELSE key = <<n, t>>)
    PROVE  Sound(n, Data!RunEffect(r, key, t))
  <1> DEFINE e == [r EXCEPT !.mode = "loading", !.due = FALSE, !.asking = TRUE, !.key = key, !.token = t]
  <1>1. Data!RunEffect(r, key, t) = e
    BY DEF Data!RunEffect
  <1>2. IsResource(e) /\ e.mode = "loading" /\ e.key = key /\ e.token = t
    BY Zenon DEF Sound, IsResource
  <1> HIDE DEF e
  <1> QED
    BY <1>1, <1>2 DEF Sound, OfItsToken, KeyedBy

(* An answer that is taken is one to the request that was made last.       *)
LEMMA AnsweredIsSound ==
    ASSUME NEW n, NEW r, Sound(n, r), r.asking, NEW data
    PROVE  Sound(n, Data!Succeeds(r, data))
  <1> DEFINE e == [r EXCEPT !.data = data, !.mode = "live", !.failure = "none",
                            !.asking = FALSE, !.of = r.token]
  <1>1. Data!Succeeds(r, data) = e
    BY DEF Data!Succeeds
  <1>2. r.token \in Reader
    BY Zenon DEF Sound, IsResource
  <1>3. IsResource(e) /\ e.key = r.key /\ e.token = r.token /\ e.of = r.token
    BY <1>2, Zenon DEF Sound, IsResource
  <1> HIDE DEF e
  <1> QED
    BY <1>1, <1>3 DEF Sound, OfItsToken, KeyedBy

(* A failure shows nothing as live.                                        *)
LEMMA FailedIsSound ==
    ASSUME NEW n, NEW r, Sound(n, r), NEW kind
    PROVE  Sound(n, Data!Fails(r, kind))
  <1> DEFINE e == [r EXCEPT !.data = {}, !.mode = "example", !.failure = kind,
                            !.asking = FALSE, !.of = r.token]
  <1>1. Data!Fails(r, kind) = e
    BY DEF Data!Fails
  <1>2. r.token \in Reader
    BY Zenon DEF Sound, IsResource
  <1>3. IsResource(e) /\ e.mode = "example" /\ ~e.asking
    BY <1>2, Zenon DEF Sound, IsResource
  <1> HIDE DEF e
  <1> QED
    BY <1>1, <1>3 DEF Sound, OfItsToken

(* Asking again keeps what is shown until the effect runs.                 *)
LEMMA ReloadedIsSound ==
    ASSUME NEW n, NEW r, Sound(n, r)
    PROVE  Sound(n, Data!Reload(r))
  <1> DEFINE e == [r EXCEPT !.due = TRUE]
  <1>1. Data!Reload(r) = e
    BY DEF Data!Reload
  <1>2. /\ IsResource(e) /\ e.mode = r.mode /\ e.asking = r.asking /\ e.key = r.key
        /\ e.token = r.token /\ e.of = r.of
    BY Zenon DEF Sound, IsResource
  <1> HIDE DEF e
  <1> QED
    BY <1>1, <1>2 DEF Sound, OfItsToken, KeyedBy

(* The views a page's handlers make are views.                             *)
LEMMA ViewFacts ==
    ASSUME NEW v, IsView(v), NEW x, NEW y
    PROVE  /\ IsView([v EXCEPT !.picked = x, !.replay = y])
           /\ IsView([v EXCEPT !.replay = x])
           /\ IsView([v EXCEPT !.tab = x])
           /\ IsView([v EXCEPT !.breakdown = x])
           /\ IsView([v EXCEPT !.picked = x])
           /\ IsView([v EXCEPT !.note = x])
           /\ IsView([v EXCEPT !.outcome = x])
           /\ IsView([v EXCEPT !.outcome = x, !.posts = y])
           /\ IsView([v EXCEPT !.posts = x, !.outcome = y])
           /\ IsView([v EXCEPT !.replay = x, !.length = y])
           /\ IsView([v EXCEPT !.filters.status = x])
           /\ IsView([v EXCEPT !.filters.needle = x])
           /\ IsView([v EXCEPT !.filters.agent = x])
  BY Zenon DEF IsView

(* A page starts with a view.                                              *)
LEMMA NewViewFacts == IsView(NewView)
  BY Zenon DEF IsView, NewView, Filters

(* Nothing has been asked for when a page starts.                          *)
LEMMA PagesInitially == PagesInit => PagesInv
  BY MountedIsSound, NewViewFacts, Zenon DEF PagesInit, PagesInv, ResourcesAreSound, Reader

(* A graph that goes takes its replay with it.                             *)
LEMMA GraphGoesKeeps == ASSUME IsView(view), GraphGoes PROVE IsView(view')
  <1>1. CASE view' = view
    BY <1>1, Zenon
  <1>2. CASE view' = [view EXCEPT !.replay = Null]
    BY <1>2, ViewFacts, Zenon
  <1> QED
    BY <1>1, <1>2, Zenon DEF GraphGoes

(* Asking, answers, failures and retries keep the invariant.               *)
LEMMA RequestsKeep == ASSUME PagesInv, Requests PROVE PagesInv'
  <1>0. ResourcesAreSound /\ IsView(view)
    BY DEF PagesInv
  <1>1. CASE Asks
    <2>1. /\ res' = [n \in DOMAIN res |->
                        IF Due(n) THEN Data!RunEffect(res[n], Key(n), token) ELSE res[n]]
          /\ token' = token /\ at' = at /\ GraphGoes
      BY <1>1, Zenon DEF Asks
    <2>2. ASSUME NEW n \in DOMAIN res
          PROVE  n \in Panels \/ (IF n = "detail" THEN \E id : Key(n) = <<n, id, token>>
                                  ELSE Key(n) = <<n, token>>)
      BY Zenon DEF Key
    <2>3. ASSUME NEW n \in DOMAIN res PROVE Sound(n, Data!RunEffect(res[n], Key(n), token))
      BY <1>0, <2>2, AskedIsSound, Zenon DEF ResourcesAreSound
    <2>4. ResourcesAreSound'
      BY <1>0, <2>1, <2>3, Zenon DEF ResourcesAreSound
    <2> QED
      BY <1>0, <2>1, <2>4, GraphGoesKeeps DEF PagesInv
  <1>2. ASSUME NEW n \in DOMAIN res, Arrives(n) PROVE PagesInv'
    <2>1. PICK data : res' = [res EXCEPT ![n] = Data!Succeeds(res[n], data)]
      BY <1>2, Zenon DEF Arrives
    <2>2. Sound(n, Data!Succeeds(res[n], data))
      BY <1>0, <1>2, AnsweredIsSound, Zenon DEF Arrives, ResourcesAreSound
    <2>3. ResourcesAreSound'
      BY <1>0, <1>2, <2>1, <2>2, Zenon DEF ResourcesAreSound, Arrives
    <2> QED
      BY <1>0, <1>2, <2>3, GraphGoesKeeps DEF PagesInv, Arrives
  <1>3. ASSUME NEW n \in DOMAIN res, Fails(n) PROVE PagesInv'
    <2>1. PICK kind : res' = [res EXCEPT ![n] = Data!Fails(res[n], kind)]
      BY <1>3, Zenon DEF Fails
    <2>2. Sound(n, Data!Fails(res[n], kind))
      BY <1>0, FailedIsSound, Zenon DEF ResourcesAreSound
    <2>3. ResourcesAreSound'
      BY <1>0, <1>3, <2>1, <2>2, Zenon DEF ResourcesAreSound, Fails
    <2> QED
      BY <1>0, <1>3, <2>3, GraphGoesKeeps DEF PagesInv, Fails
  <1>4. ASSUME NEW n \in DOMAIN res, Retry(n) PROVE PagesInv'
    <2>1. /\ res' = [m \in DOMAIN res |-> IF m \in RetryOf(n) THEN Data!Reload(res[m]) ELSE res[m]]
          /\ token' = token /\ at' = at /\ view' = view
      BY <1>4, Zenon DEF Retry
    <2>2. ASSUME NEW m \in DOMAIN res PROVE Sound(m, Data!Reload(res[m]))
      BY <1>0, ReloadedIsSound, Zenon DEF ResourcesAreSound
    <2>3. ResourcesAreSound'
      BY <1>0, <2>1, <2>2, Zenon DEF ResourcesAreSound
    <2> QED
      BY <1>0, <2>1, <2>3, Zenon DEF PagesInv
  <1> QED
    BY <1>1, <1>2, <1>3, <1>4 DEF Requests

(* A handler may replace the view with another.                            *)
LEMMA LooksKeeps == ASSUME PagesInv, NEW v, Looks(v), IsView(v) PROVE PagesInv'
  BY Zenon DEF PagesInv, Looks, ResourcesAreSound

(* What the reader presses keeps the invariant.                            *)
LEMMA ReadingKeeps == ASSUME PagesInv, Reading PROVE PagesInv'
  <1>0. ResourcesAreSound /\ IsView(view)
    BY DEF PagesInv
  <1>1. ASSUME NEW status, Presses(status) PROVE PagesInv'
    BY <1>0, <1>1, ViewFacts, LooksKeeps, Zenon DEF Presses
  <1>2. CASE PressesStatus \/ PressesStage
    BY <1>1, <1>2, Zenon DEF PressesStatus, PressesStage
  <1>3. CASE SearchesRuns \/ SearchesBook \/ PicksAgent
    <2>1. ASSUME NEW needle, Looks([view EXCEPT !.filters.needle = needle]) PROVE PagesInv'
      BY <1>0, <2>1, ViewFacts, LooksKeeps, Zenon
    <2>2. ASSUME NEW agent, Looks([view EXCEPT !.filters.agent = agent]) PROVE PagesInv'
      BY <1>0, <2>2, ViewFacts, LooksKeeps, Zenon
    <2> QED
      BY <1>3, <2>1, <2>2, Zenon DEF SearchesRuns, SearchesBook, TypesNeedle, PicksAgent
  <1>4. ASSUME NEW opened, OpensTab(opened) PROVE PagesInv'
    BY <1>0, <1>4, ViewFacts, LooksKeeps, Zenon DEF OpensTab
  <1>7. ASSUME NEW section, OpensSection(section) PROVE PagesInv'
    <2>1. /\ token' = token /\ view' = [view EXCEPT !.tab = section]
          /\ res' = [n \in SectionReads(section) |-> Data!Mounted]
      BY <1>7, Zenon DEF OpensSection
    <2>2. ResourcesAreSound'
      BY <1>0, <2>1, MountedIsSound, Zenon DEF ResourcesAreSound
    <2> QED
      BY <1>0, <2>1, <2>2, ViewFacts, Zenon DEF PagesInv
  <1>5. ASSUME NEW by, BreaksDown(by) PROVE PagesInv'
    BY <1>0, <1>5, ViewFacts, LooksKeeps, Zenon DEF BreaksDown
  <1>6. ASSUME NEW run, PicksRun(run) PROVE PagesInv'
    BY <1>0, <1>6, ViewFacts, LooksKeeps, Zenon DEF PicksRun
  <1> QED
    BY <1>2, <1>3, <1>4, <1>5, <1>6, <1>7, Zenon DEF Reading, Filtering

(* Every step of the reading pages keeps the invariant.                    *)
LEMMA PagesStep == PagesInv /\ [PagesNext]_pageVars => PagesInv'
  <1> SUFFICES ASSUME PagesInv, [PagesNext]_pageVars PROVE PagesInv'
    OBVIOUS
  <1>0. ResourcesAreSound /\ IsView(view)
    BY DEF PagesInv
  <1>1. CASE GraphTabMounts
    <2>1. PICK names, x : /\ res' = Mount(names) /\ token' = token
                          /\ view' = [view EXCEPT !.picked = x, !.replay = Null]
      BY <1>1, Zenon DEF GraphTabMounts
    <2>2. ResourcesAreSound'
      BY <1>0, <2>1, MountedIsSound, Zenon DEF ResourcesAreSound, Mount
    <2> QED
      BY <1>0, <2>1, <2>2, ViewFacts, Zenon DEF PagesInv
  <1>2. CASE Deciding \/ Replaying
    <2>1. PICK v : Looks(v) /\ IsView(v)
      <3>1. CASE WritesNote
        BY <1>0, <3>1, ViewFacts, Zenon DEF WritesNote
      <3>2. CASE Act
        BY <1>0, <3>2, ViewFacts, Zenon DEF Act
      <3>3. CASE ActAnswered
        <4>1. PICK x, y : Looks([view EXCEPT !.posts = x, !.outcome = y])
          BY <3>3, Zenon DEF ActAnswered
        <4>2. IsView([view EXCEPT !.posts = x, !.outcome = y])
          BY <1>0, ViewFacts, Zenon
        <4> QED
          BY <4>1, <4>2, Zenon
      <3>4. CASE Replay
        BY <1>0, <3>4, ViewFacts, Zenon DEF Replay
      <3>5. CASE Tick
        BY <1>0, <3>5, ViewFacts, Zenon DEF Tick
      <3> QED
        BY <1>2, <3>1, <3>2, <3>3, <3>4, <3>5 DEF Deciding, Replaying
    <2> QED
      BY <2>1, LooksKeeps
  <1>3. CASE RunRecordsStep \/ UNCHANGED pageVars
    BY <1>0, <1>3, Zenon DEF RunRecordsStep, pageVars, PagesInv, ResourcesAreSound
  <1>4. CASE TokenChanges
    BY <1>0, <1>4, Zenon DEF TokenChanges, PagesInv, ResourcesAreSound, Reader
  <1>5. ASSUME NEW page \in Pages, Visit(page) PROVE PagesInv'
    BY <1>0, <1>5, MountedIsSound, NewViewFacts, Zenon DEF Visit, PagesInv, ResourcesAreSound
  <1> QED
    BY <1>1, <1>2, <1>3, <1>4, <1>5, RequestsKeep, ReadingKeeps DEF PagesNext

(* What is live was read with the token that is held.                      *)
LEMMA PagesInvGivesLive == PagesInv => LiveIsOfYourToken
  <1> SUFFICES ASSUME PagesInv, NEW n \in DOMAIN res \ Panels, res[n].mode = "live", ~Due(n)
               PROVE  res[n].of = token
    BY Zenon DEF LiveIsOfYourToken
  <1>1. KeyedBy(n, res[n]) /\ res[n].of = res[n].token
    BY Zenon DEF PagesInv, ResourcesAreSound, Sound, OfItsToken
  <1>2. res[n].key = Key(n)
    BY Zenon DEF Due, Data!EffectDue
  <1>3. CASE n = "detail"
    <2>1. Key(n) = <<n, RunId, token>>
      BY <1>3, Zenon DEF Key
    <2> QED
      BY <1>1, <1>2, <1>3, <2>1 DEF KeyedBy
  <1>4. CASE n # "detail"
    <2>1. Key(n) = <<n, token>>
      BY <1>4, Zenon DEF Key
    <2> QED
      BY <1>1, <1>2, <1>4, <2>1 DEF KeyedBy
  <1> QED
    BY <1>3, <1>4

(* What a page shows as live was read with the token it has now            *)
(* (LiveIsOfYourToken).                                                    *)
THEOREM LiveIsOfYourTokenAlways == PagesSpec => []LiveIsOfYourToken
  BY PagesInitially, PagesStep, PagesInvGivesLive, PTL DEF PagesSpec

-----------------------------------------------------------------------------
(* What the reading pages say of what they read (ConsolePages).            *)

(* Finitely many have a smallest set among any of their subsets.           *)
LEMMA SmallestSubset ==
    ASSUME NEW U, IsFiniteSet(U), NEW Sets \in SUBSET SUBSET U, Sets # {}
    PROVE  \E V \in Sets : \A W \in Sets : W \subseteq V => W = V
  <1>1. IsWellFoundedOn(StrictSubsetOrdering(U), SUBSET U)
    <2>1. FiniteSubsetsOf(U) = SUBSET U
      BY FS_FiniteSubsetsOfFinite
    <2> QED
      BY <2>1, FS_StrictSubsetOrderingWellFounded
  <1>2. PICK V \in Sets : \A W \in Sets : <<W, V>> \notin StrictSubsetOrdering(U)
    BY <1>1, WFMin
  <1>3. ASSUME NEW W \in Sets, W \subseteq V, W # V PROVE FALSE
    BY <1>2, <1>3 DEF StrictSubsetOrdering
  <1> QED
    BY <1>3

Some(s) == CHOOSE x \in s : TRUE

(* The row that is taken first is one of the rows.                         *)
LEMMA SomeIsIn == ASSUME NEW s, s # {} PROVE Some(s) \in s
  BY DEF Some

(* What the sums of a set's subsets are computed with.                     *)
Sums(g, U) ==
    g = [s \in SUBSET U |-> IF s = {} THEN 0 ELSE Some(s).cost + g[s \ {Some(s)}]]

SumsOver(U) == CHOOSE g : Sums(g, U)

(* The model's sum, with the recursion it folds by spelled out.            *)
LEMMA SpendIsASum == ASSUME NEW U PROVE Spend(U) = SumsOver(U)[U]
  BY DEF Spend, MapThenSumSet, MapThenFoldSet, SumsOver, Sums, Some

(* What such a function says of each subset.                               *)
AddsUp(g, U) == \A s \in SUBSET U : g[s] = IF s = {} THEN 0 ELSE Some(s).cost + g[s \ {Some(s)}]

(* Read at each subset, such a function adds one row to the rest.          *)
LEMMA SumsAddUp == ASSUME NEW U, NEW g, Sums(g, U) PROVE AddsUp(g, U)
  BY Zenon DEF Sums, AddsUp

(* What adds up over a set adds up over its subsets.                       *)
LEMMA SumsGrow == ASSUME NEW U, NEW W \in SUBSET U, NEW g, AddsUp(g, U) PROVE AddsUp(g, W)
  BY DEF AddsUp

(* There is at most one sum for each finite set.                           *)
LEMMA SumsAgree ==
    ASSUME NEW U, IsFiniteSet(U), NEW g, AddsUp(g, U), NEW h, AddsUp(h, U)
    PROVE  \A s \in SUBSET U : g[s] = h[s]
  <1> DEFINE Apart == {s \in SUBSET U : g[s] # h[s]}
  <1>1. SUFFICES ASSUME Apart # {} PROVE FALSE
    BY <1>1
  <1>2. PICK V \in Apart : \A W \in Apart : W \subseteq V => W = V
    <2>1. Apart \in SUBSET SUBSET U
      OBVIOUS
    <2> HIDE DEF Apart
    <2> QED
      BY <1>1, <2>1, SmallestSubset
  <1>3. V # {}
    BY <1>2 DEF AddsUp
  <1>4. Some(V) \in V
    BY <1>3, SomeIsIn
  <1>5. g[V \ {Some(V)}] = h[V \ {Some(V)}]
    BY <1>2, <1>4
  <1>6. g[V] = Some(V).cost + g[V \ {Some(V)}] /\ h[V] = Some(V).cost + h[V \ {Some(V)}]
    BY <1>2, <1>3, Zenon DEF AddsUp
  <1> QED
    BY <1>2, <1>5, <1>6

(* There is one for each.                                                  *)
LEMMA SumsExist ==
    ASSUME NEW U, IsFiniteSet(U)
    PROVE  \A V \in SUBSET U : \E g : Sums(g, V)
  <1> DEFINE Without == {V \in SUBSET U : ~\E g : Sums(g, V)}
  <1>1. SUFFICES ASSUME Without # {} PROVE FALSE
    BY <1>1
  <1>2. PICK V \in Without : \A W \in Without : W \subseteq V => W = V
    <2>1. Without \in SUBSET SUBSET U
      OBVIOUS
    <2> HIDE DEF Without
    <2> QED
      BY <1>1, <2>1, SmallestSubset
  <1>3. \A W \in SUBSET V : W # V => Sums(SumsOver(W), W)
    <2> SUFFICES ASSUME NEW W \in SUBSET V, W # V PROVE Sums(SumsOver(W), W)
      OBVIOUS
    <2>1. W \in SUBSET U /\ W \notin Without
      BY <1>2
    <2>2. \E g : Sums(g, W)
      BY <2>1
    <2> QED
      BY <2>2, Zenon DEF SumsOver
  <1>4. \A W \in SUBSET V : W # V => AddsUp(SumsOver(W), W)
    BY <1>3, SumsAddUp
  <1>5. \A W \in SUBSET V : IsFiniteSet(W)
    BY <1>2, FS_Subset
  <1>6. ASSUME NEW W \in SUBSET V, W # V, NEW s \in SUBSET W
        PROVE  SumsOver(W)[s] = SumsOver(s)[s]
    <2>1. AddsUp(SumsOver(W), s)
      BY <1>4, <1>6, SumsGrow
    <2>2. s \in SUBSET V /\ s # V
      BY <1>6
    <2> QED
      BY <1>4, <1>5, <2>1, <2>2, SumsAgree
  <1> DEFINE below(s) == SumsOver(s \ {Some(s)})[s \ {Some(s)}]
             h == [s \in SUBSET V |-> IF s = {} THEN 0 ELSE Some(s).cost + below(s)]
  <1>7. ASSUME NEW s \in SUBSET V, s # V PROVE h[s] = SumsOver(s)[s]
    <2>1. AddsUp(SumsOver(s), s)
      BY <1>4, <1>7
    <2>2. CASE s = {}
      BY <2>1, <2>2 DEF AddsUp
    <2>3. CASE s # {}
      <3>1. SumsOver(s)[s] = Some(s).cost + SumsOver(s)[s \ {Some(s)}]
        BY <2>1, <2>3, Zenon DEF AddsUp
      <3>2. SumsOver(s)[s \ {Some(s)}] = below(s)
        BY <1>6, <1>7
      <3> QED
        BY <2>3, <3>1, <3>2
    <2> QED
      BY <2>2, <2>3
  <1>8. ASSUME NEW s \in SUBSET V, s # {} PROVE h[s] = Some(s).cost + h[s \ {Some(s)}]
    <2>1. s \ {Some(s)} \in SUBSET V /\ s \ {Some(s)} # V
      BY <1>8, SomeIsIn
    <2>2. h[s \ {Some(s)}] = below(s)
      BY <1>7, <2>1, Zenon
    <2>3. h[s] = Some(s).cost + below(s)
      BY <1>8
    <2> QED
      BY <2>2, <2>3, Zenon
  <1>9. h[{}] = 0
    OBVIOUS
  <1>10. h = [s \in SUBSET V |-> h[s]]
    OBVIOUS
  <1> HIDE DEF h
  <1>11. h = [s \in SUBSET V |-> IF s = {} THEN 0 ELSE Some(s).cost + h[s \ {Some(s)}]]
    <2>1. \A s \in SUBSET V : h[s] = IF s = {} THEN 0 ELSE Some(s).cost + h[s \ {Some(s)}]
      BY <1>8, <1>9
    <2> QED
      BY <1>10, <2>1, Zenon
  <1> QED
    BY <1>2, <1>11 DEF Sums

(* So what the model adds up is the sum: of none it is nothing, of some it *)
(* is one and the others.                                                  *)
LEMMA SpendFacts ==
    ASSUME NEW U, IsFiniteSet(U)
    PROVE  /\ Spend({}) = 0
           /\ U # {} => Spend(U) = Some(U).cost + Spend(U \ {Some(U)})
  <1>1. \A V \in SUBSET U : AddsUp(SumsOver(V), V)
    <2> SUFFICES ASSUME NEW V \in SUBSET U PROVE AddsUp(SumsOver(V), V)
      OBVIOUS
    <2>1. \E g : Sums(g, V)
      BY SumsExist
    <2>2. Sums(SumsOver(V), V)
      BY <2>1, Zenon DEF SumsOver
    <2> QED
      BY <2>2, SumsAddUp
  <1>2. Spend({}) = 0
    BY <1>1, SpendIsASum DEF AddsUp
  <1>3. ASSUME U # {} PROVE Spend(U) = Some(U).cost + Spend(U \ {Some(U)})
    <2> DEFINE W == U \ {Some(U)}
    <2>1. Spend(U) = Some(U).cost + SumsOver(U)[W]
      BY <1>1, <1>3, SpendIsASum DEF AddsUp
    <2>2. AddsUp(SumsOver(U), W) /\ AddsUp(SumsOver(W), W) /\ IsFiniteSet(W)
      BY <1>1, SumsGrow, FS_Subset
    <2>3. SumsOver(U)[W] = SumsOver(W)[W]
      BY <2>2, SumsAgree
    <2> QED
      BY <2>1, <2>3, SpendIsASum
  <1> QED
    BY <1>2, <1>3

(* Rows that can be added up.                                              *)
Priced(U) == IsFiniteSet(U) /\ \A x \in U : x.cost \in Int

(* Some of such rows are such rows.                                        *)
LEMMA PricedParts == ASSUME NEW U, Priced(U), NEW V \in SUBSET U PROVE Priced(V)
  BY FS_Subset DEF Priced

(* Their sum is a number.                                                  *)
LEMMA SpendIsWhole == ASSUME NEW U, Priced(U) PROVE Spend(U) \in Int
  <1> DEFINE Bad == {V \in SUBSET U : Spend(V) \notin Int}
  <1>1. SUFFICES ASSUME Bad # {} PROVE FALSE
    BY <1>1
  <1>2. PICK V \in Bad : \A W \in Bad : W \subseteq V => W = V
    <2>1. Bad \in SUBSET SUBSET U /\ IsFiniteSet(U)
      BY DEF Priced
    <2> HIDE DEF Bad
    <2> QED
      BY <1>1, <2>1, SmallestSubset
  <1>3. V \in SUBSET U /\ Priced(V) /\ IsFiniteSet(V)
    BY <1>2, PricedParts DEF Priced
  <1>4. V # {}
    <2>1. Spend({}) = 0
      BY <1>3, SpendFacts
    <2>2. Spend(V) \notin Int
      BY <1>2
    <2> QED
      BY <2>1, <2>2
  <1> DEFINE x == Some(V)
             W == V \ {x}
  <1>5. x \in V
    BY <1>4, SomeIsIn
  <1>6. Spend(W) \in Int
    BY <1>2, <1>5
  <1>7. x.cost \in Int
    BY <1>3, <1>5 DEF Priced
  <1>8. Spend(V) = x.cost + Spend(W)
    BY <1>3, <1>4, SpendFacts
  <1>9. Spend(V) \notin Int
    BY <1>2
  <1> HIDE DEF x, W
  <1> QED
    BY <1>6, <1>7, <1>8, <1>9

(* Whichever row is taken out first.                                       *)
LEMMA SpendOfOneMore ==
    ASSUME NEW U, Priced(U)
    PROVE  \A x \in U : Spend(U) = x.cost + Spend(U \ {x})
  <1> DEFINE Right(V) == \A x \in V : Spend(V) = x.cost + Spend(V \ {x})
             Bad == {V \in SUBSET U : ~Right(V)}
  <1>1. SUFFICES ASSUME Bad # {} PROVE FALSE
    BY <1>1
  <1>2. PICK V \in Bad : \A W \in Bad : W \subseteq V => W = V
    <2>1. Bad \in SUBSET SUBSET U /\ IsFiniteSet(U)
      BY DEF Priced
    <2> HIDE DEF Bad
    <2> QED
      BY <1>1, <2>1, SmallestSubset
  <1>3. V \in SUBSET U /\ Priced(V) /\ IsFiniteSet(V) /\ ~Right(V)
    BY <1>2, PricedParts DEF Priced
  <1>4. PICK x \in V : Spend(V) # x.cost + Spend(V \ {x})
    BY <1>3
  <1> DEFINE y == Some(V)
             both == V \ {x, y}
  <1>5. y \in V /\ Spend(V) = y.cost + Spend(V \ {y})
    BY <1>3, <1>4, SpendFacts, SomeIsIn
  <1>6. x # y
    BY <1>4, <1>5
  <1>7. Right(V \ {x}) /\ Right(V \ {y})
    BY <1>2, <1>4, <1>5
  <1>8. Spend(V \ {y}) = x.cost + Spend(both)
    <2>1. x \in V \ {y} /\ (V \ {y}) \ {x} = both
      BY <1>4, <1>6
    <2> QED
      BY <1>7, <2>1
  <1>9. Spend(V \ {x}) = y.cost + Spend(both)
    <2>1. y \in V \ {x} /\ (V \ {x}) \ {y} = both
      BY <1>5, <1>6
    <2> QED
      BY <1>7, <2>1
  <1>10. Spend(both) \in Int
    <2>1. both \in SUBSET V
      OBVIOUS
    <2> HIDE DEF both
    <2> QED
      BY <1>3, <2>1, PricedParts, SpendIsWhole
  <1>11. x.cost \in Int /\ y.cost \in Int
    BY <1>3, <1>4, <1>5 DEF Priced
  <1> DEFINE a == x.cost
             b == y.cost
             c == Spend(both)
             d == Spend(V \ {x})
             e == Spend(V \ {y})
             f == Spend(V)
  <1>12. f # a + d /\ f = b + e /\ e = a + c /\ d = b + c /\ a \in Int /\ b \in Int /\ c \in Int
    BY <1>4, <1>5, <1>8, <1>9, <1>10, <1>11, Zenon
  <1> HIDE DEF a, b, c, d, e, f
  <1> QED
    BY <1>12

(* Two sets of rows that share none add up to both.                        *)
LEMMA SpendOfBoth ==
    ASSUME NEW U, Priced(U), NEW B \in SUBSET U
    PROVE  \A A \in SUBSET (U \ B) : Spend(A \cup B) = Spend(A) + Spend(B)
  <1> DEFINE Right(A) == Spend(A \cup B) = Spend(A) + Spend(B)
             Bad == {A \in SUBSET (U \ B) : ~Right(A)}
  <1>1. SUFFICES ASSUME Bad # {} PROVE FALSE
    BY <1>1
  <1>2. PICK V \in Bad : \A W \in Bad : W \subseteq V => W = V
    <2>1. Bad \in SUBSET SUBSET U /\ IsFiniteSet(U)
      BY DEF Priced
    <2> HIDE DEF Bad
    <2> QED
      BY <1>1, <2>1, SmallestSubset
  <1>3. V \in SUBSET (U \ B) /\ ~Right(V) /\ Priced(V) /\ Priced(V \cup B) /\ Priced(B)
    <2>1. V \in SUBSET (U \ B) /\ ~Right(V)
      BY <1>2
    <2>2. V \in SUBSET U /\ V \cup B \in SUBSET U
      BY <2>1
    <2> QED
      BY <2>1, <2>2, PricedParts
  <1>4. Spend(B) \in Int /\ Spend(V) \in Int
    BY <1>3, SpendIsWhole
  <1>5. V # {}
    <2>1. SUFFICES ASSUME V = {} PROVE FALSE
      OBVIOUS
    <2>2. Spend({}) = 0 /\ {} \cup B = B
      BY <1>3, SpendFacts DEF Priced
    <2> QED
      BY <1>3, <1>4, <2>1, <2>2
  <1>6. PICK x \in V : TRUE
    BY <1>5
  <1>7. Spend(V) = x.cost + Spend(V \ {x})
    BY <1>3, SpendOfOneMore
  <1>8. Spend(V \cup B) = x.cost + Spend((V \cup B) \ {x})
    BY <1>3, SpendOfOneMore
  <1>9. (V \cup B) \ {x} = (V \ {x}) \cup B
    BY <1>3
  <1>10. Right(V \ {x})
    BY <1>2, <1>3, <1>6
  <1>11. x.cost \in Int /\ Spend(V \ {x}) \in Int
    <2>1. Priced(V \ {x})
      BY <1>3, PricedParts
    <2> QED
      BY <1>3, <2>1, SpendIsWhole DEF Priced
  <1> DEFINE a == x.cost
             b == Spend(B)
             c == Spend(V \ {x})
             d == Spend((V \cup B) \ {x})
             e == Spend(V)
             f == Spend(V \cup B)
  <1>12. /\ f # e + b /\ e = a + c /\ f = a + d /\ d = c + b
         /\ a \in Int /\ b \in Int /\ c \in Int
    BY <1>3, <1>4, <1>7, <1>8, <1>9, <1>10, <1>11, Zenon
  <1> HIDE DEF a, b, c, d, e, f
  <1> QED
    BY <1>12

(* A rounded cost is half a paisa away at the most.                        *)
LEMMA RoundedFacts ==
    ASSUME NEW c \in Int
    PROVE  Rounded(c) \in Int /\ Rounded(c) - c <= 5000 /\ c - Rounded(c) <= 5000
  BY DEF Rounded

(* Rows in groups of one name each, and each group's figure rounded.       *)
Grouped(rows, name, names, group) ==
    /\ \A n \in names : group[n].cost = Rounded(Spend({row \in rows : name[row] = n}))
    /\ \A m, n \in names : group[m] = group[n] => m = n

GroupsOf(group, N) == {group[n] : n \in N}

RowsOf(rows, name, N) == {row \in rows : name[row] \in N}

(* Groups told apart by their names add up as the rows do, to the rounding.*)
LEMMA SpendInGroups ==
    ASSUME NEW rows, Priced(rows), NEW name, NEW names, IsFiniteSet(names), NEW group,
           Grouped(rows, name, names, group)
    PROVE  AddsUpTo(GroupsOf(group, names), Spend(RowsOf(rows, name, names)))
  <1> DEFINE Groups(N) == {group[n] : n \in N}
             In(N) == {row \in rows : name[row] \in N}
             Right(N) == AddsUpTo(Groups(N), Spend(In(N)))
             Bad == {N \in SUBSET names : ~Right(N)}
  <1>0. /\ \A n \in names : group[n].cost = Rounded(Spend({row \in rows : name[row] = n}))
        /\ \A m, n \in names : group[m] = group[n] => m = n
    BY Zenon DEF Grouped
  <1> SUFFICES \A N \in SUBSET names : Right(N)
    BY DEF GroupsOf, RowsOf
  <1>1. SUFFICES ASSUME Bad # {} PROVE FALSE
    BY <1>1
  <1>2. PICK V \in Bad : \A W \in Bad : W \subseteq V => W = V
    <2>1. Bad \in SUBSET SUBSET names
      OBVIOUS
    <2> HIDE DEF Bad
    <2> QED
      BY <1>1, <2>1, SmallestSubset
  <1>3. V \in SUBSET names /\ ~Right(V) /\ IsFiniteSet(V)
    BY <1>2, FS_Subset
  <1>4. V # {}
    <2>1. SUFFICES ASSUME V = {} PROVE FALSE
      OBVIOUS
    <2>2. Groups(V) = {} /\ In(V) = {}
      BY <2>1
    <2>3. Spend({}) = 0 /\ Cardinality({}) = 0
      BY FS_EmptySet, SpendFacts
    <2>4. AddsUpTo({}, 0)
      BY <2>3 DEF AddsUpTo
    <2> QED
      BY <1>3, <2>2, <2>3, <2>4
  <1>5. PICK n \in V : TRUE
    BY <1>4
  <1>6. Right(V \ {n})
    <2>1. V \ {n} \in SUBSET names /\ V \ {n} \subseteq V /\ V \ {n} # V
      BY <1>3, <1>5
    <2> HIDE DEF Right
    <2> QED
      BY <1>2, <2>1
  <1> DEFINE own == {row \in rows : name[row] = n}
  <1>7. In(V) = own \cup In(V \ {n}) /\ own \in SUBSET (rows \ In(V \ {n})) /\ In(V \ {n}) \in SUBSET rows
    BY <1>5
  <1>8. Spend(In(V)) = Spend(own) + Spend(In(V \ {n}))
    <2> HIDE DEF own, In
    <2> QED
      BY <1>7, SpendOfBoth
  <1>9. Priced(Groups(V)) /\ Priced(Groups(V \ {n}))
    <2>1. \A g \in Groups(V) : g.cost \in Int
      <3> SUFFICES ASSUME NEW m \in V PROVE group[m].cost \in Int
        OBVIOUS
      <3> DEFINE part == {row \in rows : name[row] = m}
      <3>1. part \in SUBSET rows
        OBVIOUS
      <3>2. group[m].cost = Rounded(Spend(part))
        BY <1>0, <1>3
      <3> HIDE DEF part
      <3> QED
        BY <3>1, <3>2, PricedParts, SpendIsWhole, RoundedFacts
    <2>2. IsFiniteSet(Groups(V))
      <3> DEFINE f == [m \in V |-> group[m]]
      <3>1. f \in Surjection(V, Groups(V))
        BY DEF Surjection
      <3> HIDE DEF f, Groups
      <3> QED
        BY <1>3, <3>1, FS_Surjection
    <2>3. Priced(Groups(V))
      BY <2>1, <2>2 DEF Priced
    <2>4. Groups(V \ {n}) \in SUBSET Groups(V)
      OBVIOUS
    <2> HIDE DEF Groups
    <2> QED
      BY <2>3, <2>4, PricedParts
  <1>10. group[n] \in Groups(V) /\ Groups(V) \ {group[n]} = Groups(V \ {n})
    BY <1>0, <1>3, <1>5
  <1>11. Spend(Groups(V)) = group[n].cost + Spend(Groups(V \ {n}))
    <2> HIDE DEF Groups
    <2> QED
      BY <1>9, <1>10, SpendOfOneMore
  <1>12. group[n].cost = Rounded(Spend(own))
    BY <1>0, <1>3, <1>5
  <1>13. Priced(own) /\ Priced(In(V \ {n}))
    <2> HIDE DEF own, In
    <2>1. own \in SUBSET rows
      BY <1>7
    <2> QED
      BY <1>7, <2>1, PricedParts
  <1> HIDE DEF Groups, In, own
  <1>14. Cardinality(Groups(V)) = Cardinality(Groups(V \ {n})) + 1 /\ Cardinality(Groups(V \ {n})) \in Nat
    <2>1. IsFiniteSet(Groups(V)) /\ IsFiniteSet(Groups(V \ {n}))
      BY <1>9 DEF Priced
    <2>2. Cardinality(Groups(V)) \in Nat /\ Cardinality(Groups(V \ {n})) \in Nat
      BY <2>1, FS_CardinalityType
    <2>3. Cardinality(Groups(V) \ {group[n]}) = Cardinality(Groups(V)) - 1
      BY <1>10, <2>1, FS_RemoveElement
    <2>4. Cardinality(Groups(V \ {n})) = Cardinality(Groups(V)) - 1
      BY <1>10, <2>3, Zenon
    <2> QED
      BY <2>2, <2>4
  <1>15. /\ Spend(own) \in Int /\ Spend(In(V \ {n})) \in Int /\ Spend(Groups(V \ {n})) \in Int
    BY <1>9, <1>13, SpendIsWhole
  <1>16. /\ Rounded(Spend(own)) \in Int /\ Rounded(Spend(own)) - Spend(own) <= 5000
         /\ Spend(own) - Rounded(Spend(own)) <= 5000
    BY <1>15, RoundedFacts
  <1>17. Right(V)
    BY <1>6, <1>8, <1>11, <1>12, <1>14, <1>15, <1>16 DEF AddsUpTo
  <1> QED
    BY <1>3, <1>17

(* A breakdown adds up to the rows it is of, and so do the days.           *)
LEMMA BreakdownAddsUp ==
    ASSUME NEW rows, Priced(rows), NEW by
    PROVE  AddsUpTo(GroupByName(rows, by), Spend(rows)) /\ IsFiniteSet(GroupByName(rows, by))
           /\ \A g \in GroupByName(rows, by) : g.cost \in Int /\ g.requests \in Nat
  <1> DEFINE name == [row \in rows |-> Named(row, by)]
             names == {Named(row, by) : row \in rows}
             group == [n \in names |->
                         [name |-> n, requests |-> Cardinality({row \in rows : Named(row, by) = n}),
                          cost |-> Rounded(Spend({row \in rows : Named(row, by) = n}))]]
  <1>1. GroupByName(rows, by) = {group[n] : n \in names}
    BY DEF GroupByName
  <1>2. IsFiniteSet(rows)
    BY DEF Priced
  <1>3. IsFiniteSet(names)
    <2>1. name \in Surjection(rows, names)
      BY DEF Surjection
    <2> HIDE DEF name, names
    <2> QED
      BY <1>2, <2>1, FS_Surjection
  <1>4. IsFiniteSet({group[n] : n \in names})
    <2> HIDE DEF names
    <2>1. group \in Surjection(names, {group[n] : n \in names})
      BY DEF Surjection
    <2> HIDE DEF group
    <2> QED
      BY <1>3, <2>1, FS_Surjection
  <1>5. ASSUME NEW n \in names
        PROVE  /\ group[n].name = n /\ group[n].cost = Rounded(Spend({row \in rows : name[row] = n}))
               /\ group[n].cost \in Int /\ group[n].requests \in Nat
    <2> DEFINE part == {row \in rows : Named(row, by) = n}
    <2>1. part = {row \in rows : name[row] = n} /\ part \in SUBSET rows
      OBVIOUS
    <2>2. group[n].name = n /\ group[n].cost = Rounded(Spend(part)) /\ group[n].requests = Cardinality(part)
      BY Zenon
    <2> HIDE DEF part, group, names, name
    <2>3. Priced(part) /\ Spend(part) \in Int
      BY <2>1, PricedParts, SpendIsWhole
    <2>4. Cardinality(part) \in Nat
      BY <2>3, FS_CardinalityType DEF Priced
    <2> QED
      BY <2>1, <2>2, <2>3, <2>4, RoundedFacts
  <1>6. {row \in rows : name[row] \in names} = rows
    OBVIOUS
  <1> HIDE DEF name, names, group
  <1>7. \A m, n \in names : group[m] = group[n] => m = n
    <2> SUFFICES ASSUME NEW m \in names, NEW n \in names, group[m] = group[n] PROVE m = n
      OBVIOUS
    <2>1. group[m].name = m /\ group[n].name = n
      BY <1>5
    <2> QED
      BY <2>1
  <1>8. \A n \in names : group[n].cost = Rounded(Spend({row \in rows : name[row] = n}))
    BY <1>5
  <1>9. AddsUpTo(GroupsOf(group, names), Spend(RowsOf(rows, name, names)))
    BY <1>3, <1>7, <1>8, SpendInGroups DEF Grouped
  <1> QED
    BY <1>1, <1>4, <1>5, <1>6, <1>9 DEF GroupsOf, RowsOf

(* The days of the chart add up to the rows as well.                       *)
LEMMA DaysAddUp ==
    ASSUME NEW rows, Priced(rows)
    PROVE  AddsUpTo(DailySpend(rows), Spend(rows))
  <1> DEFINE name == [row \in rows |-> row.day]
             names == {row.day : row \in rows}
             group == [n \in names |-> [day |-> n, cost |-> Rounded(Spend({row \in rows : row.day = n}))]]
  <1>1. DailySpend(rows) = {group[n] : n \in names}
    BY DEF DailySpend
  <1>2. IsFiniteSet(rows)
    BY DEF Priced
  <1>3. IsFiniteSet(names)
    <2>1. name \in Surjection(rows, names)
      BY DEF Surjection
    <2> HIDE DEF name, names
    <2> QED
      BY <1>2, <2>1, FS_Surjection
  <1>5. ASSUME NEW n \in names
        PROVE  group[n].day = n /\ group[n].cost = Rounded(Spend({row \in rows : name[row] = n}))
    <2> DEFINE part == {row \in rows : row.day = n}
    <2>1. part = {row \in rows : name[row] = n}
      OBVIOUS
    <2>2. group[n].day = n /\ group[n].cost = Rounded(Spend(part))
      BY Zenon
    <2> HIDE DEF part, group, names, name
    <2> QED
      BY <2>1, <2>2
  <1>6. {row \in rows : name[row] \in names} = rows
    OBVIOUS
  <1> HIDE DEF name, names, group
  <1>7. \A m, n \in names : group[m] = group[n] => m = n
    <2> SUFFICES ASSUME NEW m \in names, NEW n \in names, group[m] = group[n] PROVE m = n
      OBVIOUS
    <2>1. group[m].day = m /\ group[n].day = n
      BY <1>5
    <2> QED
      BY <2>1
  <1>8. \A n \in names : group[n].cost = Rounded(Spend({row \in rows : name[row] = n}))
    BY <1>5
  <1>9. AddsUpTo(GroupsOf(group, names), Spend(RowsOf(rows, name, names)))
    BY <1>3, <1>7, <1>8, SpendInGroups DEF Grouped
  <1> QED
    BY <1>1, <1>6, <1>9 DEF GroupsOf, RowsOf

Weighed(groups) == IsFiniteSet(groups) /\ \A g \in groups : g.cost \in Int /\ g.requests \in Nat

(* Of some groups one is no heavier than any.                              *)
LEMMA OneIsLightest ==
    ASSUME NEW groups, Weighed(groups)
    PROVE  \A S \in SUBSET groups : S # {} => \E g \in S : \A k \in S : ~Heavier(g, k)
  <1> DEFINE Right(S) == S # {} => \E g \in S : \A k \in S : ~Heavier(g, k)
             Bad == {S \in SUBSET groups : ~Right(S)}
  <1>1. SUFFICES ASSUME Bad # {} PROVE FALSE
    BY <1>1
  <1>2. PICK V \in Bad : \A W \in Bad : W \subseteq V => W = V
    <2>1. Bad \in SUBSET SUBSET groups /\ IsFiniteSet(groups)
      BY DEF Weighed
    <2> HIDE DEF Bad
    <2> QED
      BY <1>1, <2>1, SmallestSubset
  <1>3. V \in SUBSET groups /\ ~Right(V)
    BY <1>2
  <1>4. PICK x \in V : TRUE
    BY <1>3
  <1>5. Right(V \ {x})
    <2>1. V \ {x} \in SUBSET groups /\ V \ {x} \subseteq V /\ V \ {x} # V
      BY <1>3, <1>4
    <2> HIDE DEF Right
    <2> QED
      BY <1>2, <2>1
  <1>6. \A a, b \in groups : Heavier(a, b) => ~Heavier(b, a)
    BY DEF Weighed, Heavier
  <1>7. \A a, b, c \in groups : Heavier(a, b) /\ Heavier(b, c) => Heavier(a, c)
    BY DEF Weighed, Heavier
  <1>8. CASE V = {x}
    BY <1>3, <1>4, <1>6, <1>8
  <1>9. CASE V # {x}
    <2>1. V \ {x} # {}
      BY <1>4, <1>9
    <2>2. PICK m \in V \ {x} : \A k \in V \ {x} : ~Heavier(m, k)
      BY <1>5, <2>1
    <2>3. CASE Heavier(m, x)
      <3>1. \A k \in V : ~Heavier(x, k)
        BY <1>3, <1>6, <1>7, <2>2, <2>3
      <3> QED
        BY <1>3, <1>4, <3>1
    <2>4. CASE ~Heavier(m, x)
      <3>1. \A k \in V : ~Heavier(m, k)
        BY <2>2, <2>4
      <3> QED
        BY <1>3, <2>2, <3>1
    <2> QED
      BY <2>3, <2>4
  <1> QED
    BY <1>8, <1>9

(* The list of a breakdown has heaviest rows to show, up to its limit.     *)
LEMMA TopRowsExist ==
    ASSUME NEW groups, Weighed(groups), NEW limit \in Nat, Cardinality(groups) >= limit
    PROVE  \E top \in SUBSET groups :
              Cardinality(top) = limit /\ \A a \in top, b \in groups \ top : ~Heavier(b, a)
  <1> DEFINE IsTop(top) == \A a \in top, b \in groups \ top : ~Heavier(b, a)
             Tops == {top \in SUBSET groups : IsTop(top) /\ Cardinality(top) >= limit}
  <1>1. groups \in Tops
    OBVIOUS
  <1>2. PICK V \in Tops : \A W \in Tops : W \subseteq V => W = V
    <2>1. Tops \in SUBSET SUBSET groups /\ IsFiniteSet(groups)
      BY DEF Weighed
    <2> HIDE DEF Tops
    <2> QED
      BY <1>1, <2>1, SmallestSubset
  <1>3. V \in SUBSET groups /\ IsTop(V) /\ Cardinality(V) >= limit
    BY <1>2
  <1>4. IsFiniteSet(V) /\ Cardinality(V) \in Nat
    BY <1>3, FS_Subset, FS_CardinalityType DEF Weighed
  <1>5. ASSUME Cardinality(V) # limit PROVE FALSE
    <2>1. V # {}
      <3>1. Cardinality(V) > 0
        BY <1>3, <1>4, <1>5
      <3> QED
        BY <3>1, FS_EmptySet
    <2>2. PICK m \in V : \A k \in V : ~Heavier(m, k)
      BY <1>3, <2>1, OneIsLightest
    <2>3. IsTop(V \ {m})
      BY <1>3, <2>2
    <2>4. Cardinality(V \ {m}) = Cardinality(V) - 1
      BY <1>4, <2>2, FS_RemoveElement
    <2>5. Cardinality(V \ {m}) >= limit
      BY <1>3, <1>4, <1>5, <2>4
    <2>6. V \ {m} \in Tops
      BY <1>3, <2>3, <2>5
    <2> HIDE DEF Tops
    <2> QED
      BY <1>2, <2>2, <2>6
  <1> QED
    BY <1>3, <1>5

(* A breakdown that does not add up leaves names out.                      *)
LEMMA NothingHiddenUnsaid ==
    ASSUME NEW rows, Priced(rows), NEW by, ~AddsUpTo(ShownRows(rows, by), Spend(rows))
    PROVE  HiddenRows(rows, by) > 0
  <1> DEFINE groups == GroupByName(rows, by)
             shown == ShownRows(rows, by)
             Top(top) == Cardinality(top) = RowLimit /\ \A a \in top, b \in groups \ top : ~Heavier(b, a)
  <1>1. Weighed(groups) /\ AddsUpTo(groups, Spend(rows))
    BY BreakdownAddsUp DEF Weighed
  <1>3. shown # groups
    BY <1>1
  <1>4. shown = IF by = "product" THEN groups
                ELSE IF Cardinality(groups) <= RowLimit THEN groups
                ELSE CHOOSE top \in SUBSET groups : Top(top)
    BY DEF ShownRows, ByProduct
  <1>5. Cardinality(groups) \in Nat /\ RowLimit \in Nat
    BY <1>1, FS_CardinalityType, ConsoleAssumption DEF Weighed
  <1>6. HiddenRows(rows, by) = Cardinality(groups) - Cardinality(shown)
    BY DEF HiddenRows
  <1> HIDE DEF groups, shown
  <1>7. ~(Cardinality(groups) <= RowLimit) /\ shown = CHOOSE top \in SUBSET groups : Top(top)
    BY <1>3, <1>4
  <1>8. Cardinality(groups) > RowLimit
    BY <1>5, <1>7
  <1>9. \E top \in SUBSET groups : Top(top)
    BY <1>1, <1>5, <1>8, TopRowsExist
  <1>10. Cardinality(shown) = RowLimit
    BY <1>7, <1>9
  <1> QED
    BY <1>5, <1>6, <1>8, <1>10

(* The record of a run is one, with no more steps than are recorded.       *)
IsRecord(data, n) == data = {} \/ \E id : \E k \in 0..n : data = {[id |-> id, steps |-> k]}

(* What a list may be read as: a first page of what is on record.          *)
ReadOf(n, data, t) == \E all \in Answers[n][t] : data \in FirstPage(all)

Lists == {"runs", "applications"}

(* What a resource holds is what it was answered, or nothing: rows with    *)
(* their costs, the record that was asked for, a failure that is named.    *)
Holds(n, r, recorded) ==
    /\ r.mode = "example" => r.failure # "none"
    /\ n = "usage" => Priced(r.data)
    /\ n \in {"run", "detail"} => IsRecord(r.data, recorded)
    /\ n = "detail" /\ r.mode # "loading" => \A run \in r.data : run.id = r.key[2]
    /\ n \in Lists /\ r.mode = "live" => ReadOf(n, r.data, r.of)

(* Every resource there is on some page.                                   *)
ReadNames == {"runs", "applications", "run", "case", "eligibility", "case-runs", "trail", "usage",
           "governor", "surface", "tenants", "connectors", "detail"} \cup Panels

ResourcesHold ==
    /\ steps \in Nat
    /\ DOMAIN res \subseteq ReadNames /\ ("detail" \in DOMAIN res => at = "case")
    /\ \A n \in DOMAIN res : Holds(n, res[n], steps)

(* A replay is at one of the columns it walks, and they are all drawn.     *)
ReplayIsDrawn ==
    view.replay # Null => /\ view.replay \in Nat /\ view.length \in Nat
                          /\ view.replay < view.length /\ view.length <= Layers

AskedInv == PagesInv /\ ResourcesHold /\ ReplayIsDrawn

(* A resource just mounted holds nothing.                                  *)
LEMMA MountedHolds == ASSUME NEW n, NEW s \in Nat PROVE Holds(n, Data!Mounted, s)
  <1>1. Data!Mounted.data = {} /\ Data!Mounted.mode = "loading"
    BY Zenon DEF Data!Mounted
  <1>2. Priced({})
    BY FS_EmptySet DEF Priced
  <1>3. "loading" # "example" /\ "loading" # "live"
    OBVIOUS
  <1> QED
    BY <1>1, <1>2, <1>3, Zenon DEF Holds, IsRecord

(* Asking keeps what is held, and says it waits.                           *)
LEMMA AskedHolds ==
    ASSUME NEW n, NEW r, Sound(n, r), NEW s, Holds(n, r, s), NEW key, NEW t
    PROVE  /\ Holds(n, Data!RunEffect(r, key, t), s)
           /\ Data!RunEffect(r, key, t).data = r.data /\ Data!RunEffect(r, key, t).mode = "loading"
  <1> DEFINE e == [r EXCEPT !.mode = "loading", !.due = FALSE, !.asking = TRUE, !.key = key, !.token = t]
  <1>1. Data!RunEffect(r, key, t) = e
    BY DEF Data!RunEffect
  <1>2. e.data = r.data /\ e.mode = "loading"
    BY Zenon DEF Sound, IsResource
  <1>3. "loading" # "example" /\ "loading" # "live"
    OBVIOUS
  <1> HIDE DEF e
  <1> QED
    BY <1>1, <1>2, <1>3, Zenon DEF Holds

(* An answer is held as it came.                                           *)
LEMMA AnsweredHolds ==
    ASSUME NEW n, NEW r, Sound(n, r), NEW s, NEW data,
           n = "usage" => Priced(data),
           n \in {"run", "detail"} => IsRecord(data, s),
           n = "detail" => \A run \in data : run.id = r.key[2],
           n \in Lists => ReadOf(n, data, r.token)
    PROVE  /\ Holds(n, Data!Succeeds(r, data), s)
           /\ Data!Succeeds(r, data).data = data /\ Data!Succeeds(r, data).mode = "live"
  <1> DEFINE e == [r EXCEPT !.data = data, !.mode = "live", !.failure = "none",
                            !.asking = FALSE, !.of = r.token]
  <1>1. Data!Succeeds(r, data) = e
    BY DEF Data!Succeeds
  <1>2. e.data = data /\ e.mode = "live" /\ e.key = r.key /\ e.of = r.token
    BY Zenon DEF Sound, IsResource
  <1>3. "live" # "example"
    OBVIOUS
  <1> HIDE DEF e
  <1> QED
    BY <1>1, <1>2, <1>3, Zenon DEF Holds

(* A failure holds nothing, and is named.                                  *)
LEMMA FailedHolds ==
    ASSUME NEW n, NEW r, Sound(n, r), NEW s, NEW kind, kind # "none"
    PROVE  /\ Holds(n, Data!Fails(r, kind), s) /\ Data!Fails(r, kind).data = {}
  <1> DEFINE e == [r EXCEPT !.data = {}, !.mode = "example", !.failure = kind,
                            !.asking = FALSE, !.of = r.token]
  <1>1. Data!Fails(r, kind) = e
    BY DEF Data!Fails
  <1>2. e.data = {} /\ e.failure = kind /\ e.mode = "example"
    BY Zenon DEF Sound, IsResource
  <1>3. Priced({})
    BY FS_EmptySet DEF Priced
  <1>4. "example" # "live"
    OBVIOUS
  <1> HIDE DEF e
  <1> QED
    BY <1>1, <1>2, <1>3, <1>4, Zenon DEF Holds, IsRecord

(* To be asked again later changes nothing that is held.                   *)
LEMMA ReloadedHolds ==
    ASSUME NEW n, NEW r, Sound(n, r), NEW s, Holds(n, r, s)
    PROVE  /\ Holds(n, Data!Reload(r), s)
           /\ Data!Reload(r).data = r.data /\ Data!Reload(r).mode = r.mode
  <1> DEFINE e == [r EXCEPT !.due = TRUE]
  <1>1. Data!Reload(r) = e
    BY DEF Data!Reload
  <1>2. e.data = r.data /\ e.mode = r.mode /\ e.failure = r.failure /\ e.key = r.key /\ e.of = r.of
    BY Zenon DEF Sound, IsResource
  <1> HIDE DEF e
  <1> QED
    BY <1>1, <1>2, Zenon DEF Holds

(* A record stays one while its run goes on.                               *)
LEMMA RecordsGrow ==
    ASSUME NEW n, NEW r, NEW s \in Nat, NEW t \in Nat, s <= t, Holds(n, r, s) PROVE Holds(n, r, t)
  <1>1. \A k \in 0..s : k \in 0..t
    OBVIOUS
  <1> QED
    BY <1>1, Zenon DEF Holds, IsRecord

(* How many columns there are to draw.                                     *)
LEMMA LayersOfAGraph ==
    /\ Graph = {} => Layers = 0
    /\ \A id, k : Graph = {[id |-> id, steps |-> k]} => Layers = k
  <1>1. Graph = {} => Layers = 0
    BY DEF Layers
  <1>2. ASSUME NEW id, NEW k, Graph = {[id |-> id, steps |-> k]} PROVE Layers = k
    <2> DEFINE run == [id |-> id, steps |-> k]
    <2>1. run.steps = k
      OBVIOUS
    <2> HIDE DEF run
    <2>2. Graph = {run}
      BY <1>2 DEF run
    <2>3. (CHOOSE x \in Graph : TRUE) = run /\ Graph # {}
      BY <2>2
    <2> QED
      BY <2>1, <2>3 DEF Layers
  <1> QED
    BY <1>1, <1>2

(* The graph is drawn of one record.                                       *)
LEMMA GraphIsARecord == ASSUME ResourcesHold PROVE IsRecord(Graph, steps)
  <1>1. IsRecord({}, steps)
    BY DEF IsRecord
  <1>2. \A n \in {"run", "detail"} : IsRecord(Rows(n), steps)
    BY <1>1, Zenon DEF ResourcesHold, Holds, Rows
  <1> QED
    BY <1>1, <1>2, Zenon DEF Graph

(* It has no more columns than there are steps recorded.                   *)
LEMMA LayersAreRecorded == ASSUME ResourcesHold PROVE Layers \in 0..steps
  <1>1. steps \in Nat
    BY DEF ResourcesHold
  <1>2. CASE Graph = {}
    BY <1>1, <1>2, LayersOfAGraph
  <1>3. CASE Graph # {}
    <2>1. PICK id, k : k \in 0..steps /\ Graph = {[id |-> id, steps |-> k]}
      BY <1>3, GraphIsARecord, Zenon DEF IsRecord
    <2> QED
      BY <2>1, LayersOfAGraph
  <1> QED
    BY <1>2, <1>3

(* Nothing else is drawn while the page and its reads are the same.        *)
LEMMA SameGraph ==
    ASSUME at' = at, res' = res PROVE Layers' = Layers
  <1>1. Graph' = Graph
    BY DEF Graph, Rows, Loading
  <1> QED
    BY <1>1 DEF Layers

(* The graph changes only with what holds it.                              *)
LEMMA GraphOf ==
    /\ at = "run" => Graph = (IF "run" \in DOMAIN res THEN res["run"].data ELSE {})
    /\ at # "run" => Graph = IF "detail" \in DOMAIN res /\ res["detail"].mode # "loading"
                             THEN res["detail"].data ELSE {}
  BY DEF Graph, Rows, Loading

GraphOfNext ==
    /\ at' = "run" => Graph' = (IF "run" \in DOMAIN res' THEN res'["run"].data ELSE {})
    /\ at' # "run" => Graph' = IF "detail" \in DOMAIN res' /\ res'["detail"].mode # "loading"
                               THEN res'["detail"].data ELSE {}

(* The same of the state after a step.                                     *)
LEMMA GraphOfNextState == GraphOfNext
  BY DEF Graph, Rows, Loading, GraphOfNext

(* A step that leaves the record it draws alone leaves the graph.          *)
LEMMA GraphUnmoved ==
    ASSUME at' = at, DOMAIN res' = DOMAIN res,
           at = "run" /\ "run" \in DOMAIN res => res'["run"].data = res["run"].data,
           at # "run" /\ "detail" \in DOMAIN res =>
               res'["detail"].data = res["detail"].data /\ res'["detail"].mode = res["detail"].mode
    PROVE  Graph' = Graph
  <1>1. CASE at = "run" /\ "run" \in DOMAIN res
    <2>1. Graph = res["run"].data /\ Graph' = res'["run"].data
      BY <1>1, GraphOf, GraphOfNextState DEF GraphOfNext
    <2> QED
      BY <1>1, <2>1
  <1>2. CASE at = "run" /\ "run" \notin DOMAIN res
    BY <1>2, GraphOf, GraphOfNextState, Zenon DEF GraphOfNext
  <1>3. CASE at # "run" /\ "detail" \in DOMAIN res
    BY <1>3, GraphOf, GraphOfNextState, Zenon DEF GraphOfNext
  <1>4. CASE at # "run" /\ "detail" \notin DOMAIN res
    BY <1>4, GraphOf, GraphOfNextState, Zenon DEF GraphOfNext
  <1> QED
    BY <1>1, <1>2, <1>3, <1>4

(* Asking takes the graph of the case away, or leaves it.                  *)
LEMMA AsksKeepsHeld ==
    ASSUME AskedInv, Asks
    PROVE  ResourcesHold' /\ (Graph' = {} \/ Graph' = Graph)
  <1>0. ResourcesHold /\ \A n \in DOMAIN res : Sound(n, res[n])
    BY DEF AskedInv, PagesInv, ResourcesAreSound
  <1>1. /\ res' = [n \in DOMAIN res |->
                      IF Due(n) THEN Data!RunEffect(res[n], Key(n), token) ELSE res[n]]
        /\ at' = at /\ steps' = steps
    BY Zenon DEF Asks
  <1>2. DOMAIN res' = DOMAIN res
    BY <1>1, Zenon
  <1>3. ASSUME NEW n \in DOMAIN res
        PROVE  /\ Holds(n, res'[n], steps) /\ res'[n].data = res[n].data
               /\ res'[n].mode = "loading" \/ res'[n].mode = res[n].mode
    <2>1. Holds(n, res[n], steps) /\ Sound(n, res[n])
      BY <1>0, Zenon DEF ResourcesHold
    <2>2. res'[n] = Data!RunEffect(res[n], Key(n), token) \/ res'[n] = res[n]
      BY <1>1, Zenon
    <2>3. CASE res'[n] = Data!RunEffect(res[n], Key(n), token)
      BY <2>1, <2>3, AskedHolds
    <2> QED
      BY <2>1, <2>2, <2>3, Zenon
  <1>4. ResourcesHold'
    BY <1>0, <1>1, <1>2, <1>3, Zenon DEF ResourcesHold
  <1>5. Graph' = {} \/ Graph' = Graph
    <2>1. CASE at = "run"
      BY <1>1, <1>2, <1>3, <2>1, GraphOf, GraphOfNextState, Zenon DEF GraphOfNext
    <2>2. CASE at # "run"
      <3>1. CASE "detail" \in DOMAIN res
        BY <1>1, <1>2, <1>3, <2>2, <3>1, GraphOf, GraphOfNextState DEF GraphOfNext
      <3>2. CASE "detail" \notin DOMAIN res
        BY <1>1, <1>2, <2>2, <3>2, GraphOf, GraphOfNextState, Zenon DEF GraphOfNext
      <3> QED
        BY <3>1, <3>2
    <2> QED
      BY <2>1, <2>2
  <1> QED
    BY <1>4, <1>5

(* An answer that comes leaves what is held as it should be, and the graph *)
(* it is of has all the columns there are.                                 *)
LEMMA ArrivesKeepsHeld ==
    ASSUME AskedInv, NEW n \in DOMAIN res, Arrives(n)
    PROVE  ResourcesHold' /\ (Graph' = Graph \/ Layers' = steps)
  <1>0. ResourcesHold /\ Sound(n, res[n])
    BY Zenon DEF AskedInv, PagesInv, ResourcesAreSound
  <1>1. PICK data \in Answer(n, res[n].token) : res' = [res EXCEPT ![n] = Data!Succeeds(res[n], data)]
    BY Zenon DEF Arrives
  <1>2. at' = at /\ steps' = steps /\ res[n].token \in Token
    BY <1>0, Zenon DEF Arrives, Sound, IsResource, Reader
  <1>3. /\ n = "run" => \E id : data = {[id |-> id, steps |-> steps]}
        /\ n = "detail" => /\ \E id : data = {[id |-> id, steps |-> steps]}
                           /\ \A run \in data : run.id = res[n].key[2]
        /\ n = "usage" => Priced(data)
        /\ n \in Lists => ReadOf(n, data, res[n].token)
    <2>1. CASE n = "run"
      <3>1. Answer(n, res[n].token) = {{[id |-> id, steps |-> steps]} : id \in RunOf[res[n].token]}
        BY <2>1 DEF Answer, Paged
      <3>2. n # "detail" /\ n # "usage" /\ n \notin Lists
        BY <2>1 DEF Lists
      <3> QED
        BY <1>1, <3>1, <3>2, Zenon
    <2>2. CASE n = "detail"
      <3>1. Answer(n, res[n].token) = {{[id |-> id, steps |-> steps]} :
                                           id \in RunOf[res[n].token] \cap {res[n].key[2]}}
        BY <2>2 DEF Answer, Paged
      <3>2. n # "run" /\ n # "usage" /\ n \notin Lists
        BY <2>2 DEF Lists
      <3>3. PICK id : data = {[id |-> id, steps |-> steps]} /\ id = res[n].key[2]
        BY <1>1, <3>1, Zenon
      <3>4. \A run \in data : run.id = res[n].key[2]
        BY <3>3
      <3> QED
        BY <3>2, <3>3, <3>4, Zenon
    <2>3. CASE n = "usage"
      <3>1. Answer(n, res[n].token) = Answers[n][res[n].token]
        BY <2>3 DEF Answer, Paged
      <3>2. n # "run" /\ n # "detail" /\ n \notin Lists
        BY <2>3 DEF Lists
      <3>3. Priced(data)
        BY <1>1, <1>2, <2>3, <3>1, ConsoleAssumption, Zenon DEF Priced
      <3> QED
        BY <3>2, <3>3, Zenon
    <2>4. CASE n \in Lists
      <3>1. n \in Paged /\ n # "run" /\ n # "detail" /\ n # "usage"
        BY <2>4 DEF Lists, Paged
      <3>2. Answer(n, res[n].token) = UNION {FirstPage(all) : all \in Answers[n][res[n].token]}
        BY <3>1 DEF Answer
      <3>3. ReadOf(n, data, res[n].token)
        BY <1>1, <3>2, Zenon DEF ReadOf
      <3> QED
        BY <3>1, <3>3, Zenon
    <2> QED
      BY <2>1, <2>2, <2>3, <2>4, Zenon
  <1>4. steps \in Nat /\ steps \in 0..steps
    BY <1>0 DEF ResourcesHold
  <1>5. n \in {"run", "detail"} => IsRecord(data, steps)
    BY <1>3, <1>4, Zenon DEF IsRecord
  <1> DEFINE r == Data!Succeeds(res[n], data)
  <1>6. Holds(n, r, steps) /\ r.data = data /\ r.mode = "live"
    BY <1>0, <1>3, <1>5, AnsweredHolds
  <1> HIDE DEF r
  <1>7. DOMAIN res' = DOMAIN res /\ res'[n] = r /\ \A m \in DOMAIN res : m # n => res'[m] = res[m]
    BY <1>1, Zenon DEF r
  <1>8. ResourcesHold'
    BY <1>0, <1>2, <1>6, <1>7, Zenon DEF ResourcesHold
  <1>9. Graph' = Graph \/ (Graph' = r.data /\ n \in {"run", "detail"})
    <2>1. CASE at = "run" /\ n = "run"
      BY <1>2, <1>7, <2>1, GraphOfNextState, Zenon DEF GraphOfNext
    <2>2. CASE at = "run" /\ n # "run"
      <3>1. "run" \in DOMAIN res => res'["run"].data = res["run"].data
        BY <1>7, <2>2, Zenon
      <3>2. Graph' = Graph
        BY <1>2, <1>7, <2>2, <3>1, GraphUnmoved
      <3> QED
        BY <3>2
    <2>3. CASE at # "run" /\ n = "detail"
      <3>1. res'["detail"].mode # "loading" /\ "detail" \in DOMAIN res'
        BY <1>6, <1>7, <2>3
      <3> QED
        BY <1>2, <1>7, <2>3, <3>1, GraphOfNextState, Zenon DEF GraphOfNext
    <2>4. CASE at # "run" /\ n # "detail"
      <3>1. "detail" \in DOMAIN res =>
                res'["detail"].data = res["detail"].data /\ res'["detail"].mode = res["detail"].mode
        BY <1>7, <2>4, Zenon
      <3>2. Graph' = Graph
        BY <1>2, <1>7, <2>4, <3>1, GraphUnmoved
      <3> QED
        BY <3>2
    <2> QED
      BY <2>1, <2>2, <2>3, <2>4
  <1>10. ASSUME Graph' = r.data, n \in {"run", "detail"} PROVE Layers' = steps
    <2>1. PICK id : Graph' = {[id |-> id, steps |-> steps]}
      BY <1>3, <1>6, <1>10, Zenon
    <2> DEFINE run == [id |-> id, steps |-> steps]
    <2>2. run.steps = steps
      OBVIOUS
    <2> HIDE DEF run
    <2>3. Graph' = {run}
      BY <2>1 DEF run
    <2>4. (CHOOSE x \in Graph' : TRUE) = run /\ Graph' # {}
      BY <2>3
    <2> QED
      BY <2>2, <2>4 DEF Layers
  <1> QED
    BY <1>8, <1>9, <1>10

(* A request that fails leaves nothing held, and a graph of that is gone.  *)
LEMMA FailsKeepsHeld ==
    ASSUME AskedInv, NEW n \in DOMAIN res, Fails(n)
    PROVE  ResourcesHold' /\ (Graph' = {} \/ Graph' = Graph)
  <1>0. ResourcesHold /\ Sound(n, res[n])
    BY Zenon DEF AskedInv, PagesInv, ResourcesAreSound
  <1>1. PICK kind : res' = [res EXCEPT ![n] = Data!Fails(res[n], kind)] /\ kind # "none"
    <2>1. PICK kind \in IF res[n].token = Null THEN {"no-token"} ELSE Failure :
              res' = [res EXCEPT ![n] = Data!Fails(res[n], kind)]
      BY Zenon DEF Fails
    <2>2. kind # "none"
      <3>1. kind \in {"no-token"} \cup Failure
        BY <2>1, Zenon
      <3>2. "none" \notin Failure
        BY ConsoleAssumption, Zenon
      <3> QED
        BY <3>1, <3>2
    <2> QED
      BY <2>1, <2>2
  <1>2. at' = at /\ steps' = steps
    BY Zenon DEF Fails
  <1> DEFINE r == Data!Fails(res[n], kind)
  <1>6. Holds(n, r, steps) /\ r.data = {}
    BY <1>0, <1>1, FailedHolds, Zenon
  <1> HIDE DEF r
  <1>7. DOMAIN res' = DOMAIN res /\ res'[n] = r /\ \A m \in DOMAIN res : m # n => res'[m] = res[m]
    BY <1>1, Zenon DEF r
  <1>8. ResourcesHold'
    BY <1>0, <1>2, <1>6, <1>7, Zenon DEF ResourcesHold
  <1>9. Graph' = Graph \/ Graph' = {}
    <2>1. CASE at = "run"
      BY <1>2, <1>6, <1>7, <2>1, GraphOf, GraphOfNextState DEF GraphOfNext
    <2>2. CASE at # "run"
      BY <1>2, <1>6, <1>7, <2>2, GraphOf, GraphOfNextState DEF GraphOfNext
    <2> QED
      BY <2>1, <2>2
  <1> QED
    BY <1>8, <1>9

(* A retry leaves everything as it is until it is asked.                   *)
LEMMA RetryKeepsHeld ==
    ASSUME AskedInv, NEW n \in DOMAIN res, Retry(n)
    PROVE  ResourcesHold' /\ Graph' = Graph
  <1>0. ResourcesHold /\ \A m \in DOMAIN res : Sound(m, res[m])
    BY DEF AskedInv, PagesInv, ResourcesAreSound
  <1>1. /\ res' = [m \in DOMAIN res |-> IF m \in RetryOf(n) THEN Data!Reload(res[m]) ELSE res[m]]
        /\ at' = at /\ steps' = steps
    BY Zenon DEF Retry
  <1>2. DOMAIN res' = DOMAIN res
    BY <1>1, Zenon
  <1>3. ASSUME NEW m \in DOMAIN res
        PROVE  Holds(m, res'[m], steps) /\ res'[m].data = res[m].data /\ res'[m].mode = res[m].mode
    <2>1. Holds(m, res[m], steps) /\ Sound(m, res[m])
      BY <1>0, Zenon DEF ResourcesHold
    <2>2. res'[m] = Data!Reload(res[m]) \/ res'[m] = res[m]
      BY <1>1, Zenon
    <2> QED
      BY <2>1, <2>2, ReloadedHolds, Zenon
  <1>4. ResourcesHold'
    BY <1>0, <1>1, <1>2, <1>3, Zenon DEF ResourcesHold
  <1>5. Graph' = Graph
    BY <1>1, <1>2, <1>3, GraphUnmoved, Zenon
  <1> QED
    BY <1>4, <1>5

(* A replay goes on only over a graph with as many columns as before.      *)
LEMMA ReplayGoesOn ==
    ASSUME AskedInv, ResourcesHold', GraphGoes, Graph' = {} \/ Graph' = Graph \/ Layers' = steps
    PROVE  ReplayIsDrawn'
  <1>0. IsView(view) /\ ReplayIsDrawn /\ ResourcesHold
    BY DEF AskedInv, PagesInv
  <1>1. CASE Graph' = {}
    <2>1. view' = [view EXCEPT !.replay = Null]
      BY <1>1, Zenon DEF GraphGoes
    <2>2. view'.replay = Null
      BY <1>0, <2>1, Zenon DEF IsView
    <2> QED
      BY <2>2 DEF ReplayIsDrawn
  <1>2. CASE Graph' # {}
    <2>1. view' = view
      BY <1>2, Zenon DEF GraphGoes
    <2>2. Layers' = Layers \/ Layers' = steps
      <3>1. Graph' = Graph => Layers' = Layers
        BY DEF Layers
      <3> QED
        BY <1>2, <3>1
    <2>3. Layers \in 0..steps /\ steps \in Nat
      BY <1>0, LayersAreRecorded DEF ResourcesHold
    <2>4. Layers' >= Layers /\ Layers' \in Nat
      BY <2>2, <2>3
    <2> QED
      BY <1>0, <2>1, <2>3, <2>4 DEF ReplayIsDrawn
  <1> QED
    BY <1>1, <1>2

(* Requests and their answers keep what is held and what is replayed.      *)
LEMMA RequestsKeepAsked ==
    ASSUME AskedInv, Requests PROVE ResourcesHold' /\ ReplayIsDrawn'
  <1>1. CASE Asks
    BY <1>1, AsksKeepsHeld, ReplayGoesOn DEF Asks
  <1>2. ASSUME NEW n \in DOMAIN res, Arrives(n) PROVE ResourcesHold' /\ ReplayIsDrawn'
    BY <1>2, ArrivesKeepsHeld, ReplayGoesOn DEF Arrives
  <1>3. ASSUME NEW n \in DOMAIN res, Fails(n) PROVE ResourcesHold' /\ ReplayIsDrawn'
    BY <1>3, FailsKeepsHeld, ReplayGoesOn DEF Fails
  <1>4. ASSUME NEW n \in DOMAIN res, Retry(n) PROVE ResourcesHold' /\ ReplayIsDrawn'
    <2>1. ResourcesHold' /\ Graph' = Graph /\ view' = view
      BY <1>4, RetryKeepsHeld DEF Retry
    <2>2. Layers' = Layers
      BY <2>1 DEF Layers
    <2> QED
      BY <2>1, <2>2 DEF AskedInv, ReplayIsDrawn
  <1> QED
    BY <1>1, <1>2, <1>3, <1>4 DEF Requests

(* What handlers other than a replay's leave of a replay.                  *)
SameReplay(v, w) == v.replay = w.replay /\ v.length = w.length

(* Their views keep the replay.                                            *)
LEMMA ReplayFacts ==
    ASSUME NEW v, IsView(v), NEW x, NEW y
    PROVE  /\ SameReplay([v EXCEPT !.filters.status = x], v)
           /\ SameReplay([v EXCEPT !.filters.needle = x], v)
           /\ SameReplay([v EXCEPT !.filters.agent = x], v)
           /\ SameReplay([v EXCEPT !.tab = x], v)
           /\ SameReplay([v EXCEPT !.breakdown = x], v)
           /\ SameReplay([v EXCEPT !.picked = x], v)
           /\ SameReplay([v EXCEPT !.note = x], v)
           /\ SameReplay([v EXCEPT !.outcome = x], v)
           /\ SameReplay([v EXCEPT !.outcome = x, !.posts = y], v)
           /\ SameReplay([v EXCEPT !.posts = x, !.outcome = y], v)
  BY Zenon DEF IsView, SameReplay

(* What a replay's own handlers make of it.                                *)
ReplayIs(v, column, columns) == v.replay = column /\ v.length = columns

(* The views that move it.                                                 *)
LEMMA ReplayMoves ==
    ASSUME NEW v, IsView(v), NEW x, NEW y
    PROVE  /\ ReplayIs([v EXCEPT !.replay = x, !.length = y], x, y)
           /\ ReplayIs([v EXCEPT !.replay = x], x, v.length)
           /\ ReplayIs([v EXCEPT !.picked = x, !.replay = y], y, v.length)
  BY Zenon DEF IsView, ReplayIs

(* What the reader does alone changes nothing that is held or drawn.       *)
LEMMA LooksKeepsHeld ==
    ASSUME AskedInv, NEW v, Looks(v)
    PROVE  ResourcesHold' /\ Layers' = Layers /\ view' = v
  <1>1. view' = v /\ UNCHANGED <<token, at, res, steps>>
    BY DEF Looks
  <1>2. ResourcesHold'
    BY <1>1, Zenon DEF AskedInv, ResourcesHold
  <1> QED
    BY <1>1, <1>2, SameGraph

(* Nor a replay, when the view keeps it.                                   *)
LEMMA LooksKeepsAsked ==
    ASSUME AskedInv, NEW v, Looks(v), SameReplay(v, view) PROVE ResourcesHold' /\ ReplayIsDrawn'
  BY LooksKeepsHeld, Zenon DEF AskedInv, ReplayIsDrawn, SameReplay

(* A page that mounts its reads draws no graph of a case.                  *)
LEMMA AdminReads ==
    ASSUME NEW section
    PROVE  SectionReads(section) \subseteq ReadNames /\ "detail" \notin SectionReads(section)
  <1>1. SectionReads(section) \in {{"surface"}, {"tenants"}, {"connectors"}, {}}
    BY DEF SectionReads
  <1> QED
    BY <1>1 DEF ReadNames

(* A page mounts reads that are known, and no graph of a case.             *)
LEMMA MountedReads ==
    ASSUME NEW page \in Pages
    PROVE  Reads(page, "first") \subseteq ReadNames /\ "detail" \notin Reads(page, "first")
  <1>1. Panels \subseteq ReadNames /\ "detail" \notin Panels
    BY DEF Panels, ReadNames
  <1>2. page \in {"overview", "runs", "applications", "run", "case", "usage", "admin"}
    BY ConsoleAssumption
  <1>6. CASE page = "overview"
    <2>1. Reads(page, "first") = Panels
      BY <1>6 DEF Reads
    <2> QED
      BY <1>1, <2>1
  <1>7. CASE page \in {"runs", "applications", "run"}
    <2>1. Reads(page, "first") = {page}
      BY <1>7 DEF Reads
    <2>2. page \in ReadNames /\ page # "detail"
      BY <1>7 DEF ReadNames
    <2> QED
      BY <2>1, <2>2
  <1>8. CASE page = "case"
    <2>1. Reads(page, "first") = {"case", "eligibility", "case-runs", "trail"}
      BY <1>8 DEF Reads
    <2>2. {"case", "eligibility", "case-runs", "trail"} \subseteq ReadNames
          /\ "detail" \notin {"case", "eligibility", "case-runs", "trail"}
      BY DEF ReadNames
    <2> QED
      BY <2>1, <2>2
  <1>9. CASE page = "usage"
    <2>1. Reads(page, "first") = {"usage", "governor"}
      BY <1>9 DEF Reads
    <2>2. {"usage", "governor"} \subseteq ReadNames /\ "detail" \notin {"usage", "governor"}
      BY DEF ReadNames
    <2> QED
      BY <2>1, <2>2
  <1>10. CASE page = "admin"
    <2>1. Reads(page, "first") = SectionReads("first")
      BY <1>10 DEF Reads
    <2> QED
      BY <2>1, AdminReads
  <1> QED
    BY <1>2, <1>6, <1>7, <1>8, <1>9, <1>10

(* A page starts with no replay.                                           *)
LEMMA NewViewIsStill == NewView.replay = Null
  BY Zenon DEF NewView

(* The first page holds nothing and replays nothing.                       *)
LEMMA AskedInitially == PagesInit => AskedInv
  <1> SUFFICES ASSUME PagesInit PROVE AskedInv
    OBVIOUS
  <1>1. PagesInv
    BY PagesInitially
  <1>2. at \in Pages /\ steps = 1 /\ view = NewView
    BY Zenon DEF PagesInit
  <1>3. DOMAIN res = Reads(at, "first") /\ \A n \in DOMAIN res : res[n] = Data!Mounted
    BY Zenon DEF PagesInit
  <1>4. 1 \in Nat
    OBVIOUS
  <1>5. ResourcesHold
    BY <1>2, <1>3, <1>4, MountedReads, MountedHolds, Zenon DEF ResourcesHold
  <1>6. ReplayIsDrawn
    BY <1>2, NewViewIsStill, Zenon DEF ReplayIsDrawn
  <1> QED
    BY <1>1, <1>5, <1>6 DEF AskedInv

(* Chips, filters, tabs and picks keep what is held and replayed.          *)
LEMMA ReadingKeepsAsked ==
    ASSUME AskedInv, Reading PROVE ResourcesHold' /\ ReplayIsDrawn'
  <1>0. IsView(view) /\ ResourcesHold /\ ReplayIsDrawn
    BY DEF AskedInv, PagesInv
  <1>1. ASSUME NEW status, Presses(status) PROVE ResourcesHold' /\ ReplayIsDrawn'
    BY <1>0, <1>1, ReplayFacts, LooksKeepsAsked, Zenon DEF Presses
  <1>2. CASE PressesStatus \/ PressesStage
    BY <1>1, <1>2, Zenon DEF PressesStatus, PressesStage
  <1>3. CASE SearchesRuns \/ SearchesBook \/ PicksAgent
    <2>1. ASSUME NEW needle, Looks([view EXCEPT !.filters.needle = needle])
          PROVE  ResourcesHold' /\ ReplayIsDrawn'
      BY <1>0, <2>1, ReplayFacts, LooksKeepsAsked, Zenon
    <2>2. ASSUME NEW agent, Looks([view EXCEPT !.filters.agent = agent])
          PROVE  ResourcesHold' /\ ReplayIsDrawn'
      BY <1>0, <2>2, ReplayFacts, LooksKeepsAsked, Zenon
    <2> QED
      BY <1>3, <2>1, <2>2, Zenon DEF SearchesRuns, SearchesBook, TypesNeedle, PicksAgent
  <1>4. ASSUME NEW opened, OpensTab(opened) PROVE ResourcesHold' /\ ReplayIsDrawn'
    BY <1>0, <1>4, ReplayFacts, LooksKeepsAsked, Zenon DEF OpensTab
  <1>7. ASSUME NEW section, OpensSection(section) PROVE ResourcesHold' /\ ReplayIsDrawn'
    <2>1. /\ at' = at /\ steps' = steps /\ view' = [view EXCEPT !.tab = section]
          /\ at = "admin" /\ res' = [n \in SectionReads(section) |-> Data!Mounted]
      BY <1>7, Zenon DEF OpensSection
    <2>2. SameReplay(view', view)
      BY <1>0, <2>1, ReplayFacts, Zenon
    <2>3. DOMAIN res' = SectionReads(section) /\ \A n \in DOMAIN res' : res'[n] = Data!Mounted
      BY <2>1, Zenon
    <2>4. SectionReads(section) \subseteq ReadNames /\ "detail" \notin SectionReads(section)
      BY AdminReads
    <2>5. steps \in Nat
      BY <1>0 DEF ResourcesHold
    <2>6. ResourcesHold'
      BY <2>1, <2>3, <2>4, <2>5, MountedHolds, Zenon DEF ResourcesHold
    <2>7. "detail" \notin DOMAIN res /\ at # "run"
      <3>1. at # "case" /\ at # "run"
        BY <2>1
      <3> QED
        BY <1>0, <3>1, Zenon DEF ResourcesHold
    <2>8. Layers = 0
      BY <2>7, GraphOf, LayersOfAGraph, Zenon
    <2>9. view.replay = Null
      <3>1. SUFFICES ASSUME view.replay # Null PROVE FALSE
        OBVIOUS
      <3>2. /\ view.replay \in Nat /\ view.length \in Nat
            /\ view.replay < view.length /\ view.length <= 0
        BY <1>0, <2>8, <3>1, Zenon DEF ReplayIsDrawn
      <3> QED
        BY <3>2
    <2> QED
      BY <2>2, <2>6, <2>9, Zenon DEF ReplayIsDrawn, SameReplay
  <1>5. ASSUME NEW by, BreaksDown(by) PROVE ResourcesHold' /\ ReplayIsDrawn'
    BY <1>0, <1>5, ReplayFacts, LooksKeepsAsked, Zenon DEF BreaksDown
  <1>6. ASSUME NEW run, PicksRun(run) PROVE ResourcesHold' /\ ReplayIsDrawn'
    BY <1>0, <1>6, ReplayFacts, LooksKeepsAsked, Zenon DEF PicksRun
  <1> QED
    BY <1>2, <1>3, <1>4, <1>5, <1>6, <1>7, Zenon DEF Reading, Filtering

(* So does every step of the reading pages.                                *)
LEMMA AskedStep == AskedInv /\ [PagesNext]_pageVars => AskedInv'
  <1> SUFFICES ASSUME AskedInv, [PagesNext]_pageVars PROVE ResourcesHold' /\ ReplayIsDrawn'
    BY PagesStep DEF AskedInv
  <1>0. IsView(view) /\ ResourcesHold /\ ReplayIsDrawn
    BY DEF AskedInv, PagesInv
  <1>1. CASE GraphTabMounts
    <2>1. /\ res' = Mount((DOMAIN res \ {"detail"}) \cup IF GraphTab THEN {"detail"} ELSE {})
          /\ at' = at /\ steps' = steps
          /\ \E x : view' = [view EXCEPT !.picked = x, !.replay = Null]
      BY <1>1, Zenon DEF GraphTabMounts
    <2>2. view'.replay = Null
      <3>1. PICK x : view' = [view EXCEPT !.picked = x, !.replay = Null]
        BY <2>1
      <3>2. ReplayIs(view', Null, view.length)
        BY <1>0, <3>1, ReplayMoves, Zenon
      <3> QED
        BY <3>2 DEF ReplayIs
    <2> DEFINE names == (DOMAIN res \ {"detail"}) \cup IF GraphTab THEN {"detail"} ELSE {}
    <2>3. DOMAIN res' = names /\ \A n \in names : res'[n] = IF n \in DOMAIN res THEN res[n] ELSE Data!Mounted
      BY <2>1, Zenon DEF Mount
    <2>4. names \subseteq ReadNames /\ ("detail" \in names => at = "case")
      <3>1. "detail" \in ReadNames
        BY DEF ReadNames
      <3>2. GraphTab => at = "case"
        BY Zenon DEF GraphTab
      <3>3. DOMAIN res \subseteq ReadNames
        BY <1>0, Zenon DEF ResourcesHold
      <3> QED
        BY <3>1, <3>2, <3>3
    <2> HIDE DEF names
    <2>5. ASSUME NEW n \in names PROVE Holds(n, res'[n], steps)
      BY <1>0, <2>3, MountedHolds, Zenon DEF ResourcesHold
    <2>6. ResourcesHold'
      BY <1>0, <2>1, <2>3, <2>4, <2>5, Zenon DEF ResourcesHold
    <2> QED
      BY <2>2, <2>6, Zenon DEF ReplayIsDrawn
  <1>2. CASE Deciding
    <2>1. PICK v : Looks(v) /\ SameReplay(v, view)
      <3>1. CASE WritesNote
        BY <1>0, <3>1, ReplayFacts, Zenon DEF WritesNote
      <3>2. CASE Act
        BY <1>0, <3>2, ReplayFacts, Zenon DEF Act
      <3>3. CASE ActAnswered
        BY <1>0, <3>3, ReplayFacts, Zenon DEF ActAnswered
      <3> QED
        BY <1>2, <3>1, <3>2, <3>3 DEF Deciding
    <2> QED
      BY <2>1, LooksKeepsAsked
  <1>3. CASE Replay
    <2> DEFINE v == [view EXCEPT !.replay = 0, !.length = Layers]
    <2>1. Looks(v) /\ Layers > 0
      BY <1>3, Zenon DEF Replay
    <2>2. ReplayIs(v, 0, Layers)
      BY <1>0, ReplayMoves, Zenon
    <2> HIDE DEF v
    <2>3. ResourcesHold' /\ Layers' = Layers /\ view' = v
      BY <2>1, LooksKeepsHeld
    <2>4. Layers \in Nat
      BY <1>0, LayersAreRecorded DEF ResourcesHold
    <2> QED
      BY <2>1, <2>2, <2>3, <2>4 DEF ReplayIsDrawn, ReplayIs
  <1>4. CASE Tick
    <2> DEFINE x == IF view.replay + 1 >= view.length THEN Null ELSE view.replay + 1
               v == [view EXCEPT !.replay = x]
    <2>1. Looks(v) /\ view.replay # Null
      BY <1>4, Zenon DEF Tick
    <2>2. ReplayIs(v, x, view.length)
      BY <1>0, ReplayMoves, Zenon
    <2> HIDE DEF v
    <2>3. ResourcesHold' /\ Layers' = Layers /\ view' = v
      BY <2>1, LooksKeepsHeld
    <2>4. Layers \in Nat
      BY <1>0, LayersAreRecorded DEF ResourcesHold
    <2> QED
      BY <1>0, <2>1, <2>2, <2>3, <2>4 DEF ReplayIsDrawn, ReplayIs
  <1>5. CASE RunRecordsStep
    <2>1. steps' = steps + 1 /\ at' = at /\ res' = res /\ view' = view
      BY <1>5 DEF RunRecordsStep
    <2>2. steps \in Nat /\ steps + 1 \in Nat /\ steps <= steps + 1
      BY <1>0 DEF ResourcesHold
    <2>3. \A n \in DOMAIN res : Holds(n, res[n], steps + 1)
      BY <1>0, <2>2, RecordsGrow, Zenon DEF ResourcesHold
    <2>4. ResourcesHold'
      BY <1>0, <2>1, <2>2, <2>3, Zenon DEF ResourcesHold
    <2> QED
      BY <1>0, <2>1, <2>4, SameGraph, Zenon DEF ReplayIsDrawn
  <1>6. CASE TokenChanges \/ UNCHANGED pageVars
    <2>1. at' = at /\ res' = res /\ view' = view /\ steps' = steps
      BY <1>6 DEF TokenChanges, pageVars
    <2> QED
      BY <1>0, <2>1, SameGraph, Zenon DEF ReplayIsDrawn, ResourcesHold
  <1>7. ASSUME NEW page \in Pages, Visit(page) PROVE ResourcesHold' /\ ReplayIsDrawn'
    <2>1. /\ at' = page /\ res' = [n \in Reads(page, "first") |-> Data!Mounted]
          /\ view' = NewView /\ steps' = 1
      BY <1>7, Zenon DEF Visit
    <2>2. DOMAIN res' = Reads(page, "first") /\ \A n \in DOMAIN res' : res'[n] = Data!Mounted
      BY <2>1, Zenon
    <2>3. 1 \in Nat
      OBVIOUS
    <2>4. ResourcesHold'
      BY <2>1, <2>2, <2>3, MountedReads, MountedHolds, Zenon DEF ResourcesHold
    <2> QED
      BY <2>1, <2>4, NewViewIsStill, Zenon DEF ReplayIsDrawn
  <1> QED
    BY <1>1, <1>2, <1>3, <1>4, <1>5, <1>6, <1>7, RequestsKeepAsked, ReadingKeepsAsked
       DEF PagesNext, Replaying

(* What the pages that say "none" say it of.                               *)
LEMMA EmptyFilters ==
    ASSUME view.filters = Filters
    PROVE  RunsFiltered = Rows("runs") /\ BookFiltered = Rows("applications")
  <1>1. view.filters.status = "" /\ view.filters.agent = "" /\ view.filters.needle = ""
    <2>1. Filters.status = "" /\ Filters.agent = "" /\ Filters.needle = ""
      BY Zenon DEF Filters
    <2> QED
      BY <2>1, Zenon
  <1>2. \A rows : BeforeStatus(rows, "", "") = rows /\ Filtered(rows, "") = rows
    BY Zenon DEF BeforeStatus, Filtered, Match
  <1>3. \A rows : BeforeStage(rows, "") = rows /\ InStage(rows, "") = rows
    BY Zenon DEF BeforeStage, InStage
  <1> QED
    BY <1>1, <1>2, <1>3 DEF RunsFiltered, BookFiltered, LetThrough

(* A report of none was answered, and of nothing that matters.             *)
LEMMA NoneIsAnswered ==
    ASSUME ResourcesHold, NEW n \in DOMAIN res, Report(n) = "none"
    PROVE  Answered(n) /\ Irrelevant(n)
  <1>1. n \in ReadNames
    BY Zenon DEF ResourcesHold
  <1>2. CASE n = "runs"
    <2>1. ReportRuns = "none"
      BY <1>2 DEF Report, Panels
    <2>2. Answered("runs") /\ RunsFiltered = {} /\ ~FiltersApplied
      BY <2>1 DEF ReportRuns, Answered
    <2>3. Rows("runs") = {}
      BY <2>2, EmptyFilters DEF FiltersApplied
    <2> QED
      BY <1>2, <2>2, <2>3 DEF Irrelevant
  <1>3. CASE n = "applications"
    <2>1. ReportBook = "none"
      BY <1>3 DEF Report, Panels
    <2>2. Answered("applications") /\ BookFiltered = {} /\ ~FiltersApplied
      BY <2>1 DEF ReportBook, Answered
    <2>3. Rows("applications") = {}
      BY <2>2, EmptyFilters DEF FiltersApplied
    <2> QED
      BY <1>3, <2>2, <2>3 DEF Irrelevant
  <1>4. CASE n \in {"run", "case", "detail"}
    <2>1. \/ n = "run" /\ ReportRun = "none"
          \/ n = "case" /\ ReportCase = "none"
          \/ n = "detail" /\ ReportDetail = "none"
      BY <1>4 DEF Report, Panels
    <2> QED
      BY <2>1 DEF ReportRun, ReportCase, ReportRecord, ReportDetail
  <1>5. CASE n \in {"eligibility", "case-runs", "trail"}
    <2>1. ReportOnCase(n) = "none" /\ Rows("case") # {}
      BY <1>5 DEF Report, Panels, ReportOnCase, ReportCase, ReportRecord
    <2>2. \/ n = "eligibility" /\ ReportEligibility = "none"
          \/ n = "case-runs" /\ ReportCaseRuns = "none"
          \/ n = "trail" /\ ReportTrail = "none"
      BY <1>5, <2>1 DEF ReportOnCase
    <2> QED
      BY <2>2 DEF ReportEligibility, ReportRecord, ReportCaseRuns, ReportTrail, Answered, Irrelevant
  <1>7. CASE n = "usage"
    <2>1. ReportUsage = "none"
      BY <1>7 DEF Report, Panels
    <2> QED
      BY <1>7, <2>1 DEF ReportUsage, Answered, Irrelevant
  <1>8. CASE n = "governor"
    <2>1. ReportGovernor = "none"
      BY <1>8 DEF Report, Panels
    <2>2. Answered("governor") /\ ~\E row \in Rows("governor") : row = "docai"
      BY <2>1 DEF ReportGovernor, governorSilence, Answered
    <2>3. "docai" \notin Rows("governor")
      BY <2>2
    <2> QED
      BY <1>8, <2>2, <2>3 DEF Irrelevant
  <1>9. CASE n \in Panels
    <2>1. Tile(n) = "none"
      BY <1>9 DEF Report, Panels
    <2> QED
      BY <2>1 DEF Tile
  <1>10. CASE n = "tenants"
    <2>1. ReportTenants = "none"
      BY <1>10 DEF Report, Panels
    <2> QED
      BY <1>10, <2>1 DEF ReportTenants, Answered, Irrelevant
  <1>11. CASE n = "surface"
    <2>1. ReportSurface = "none"
      BY <1>11 DEF Report, Panels
    <2> QED
      BY <2>1 DEF ReportSurface
  <1>12. CASE n = "connectors"
    <2>1. ReportConnectors = "none"
      BY <1>12 DEF Report, Panels
    <2> QED
      BY <1>12, <2>1 DEF ReportConnectors, Answered, Irrelevant
  <1> QED
    BY <1>1, <1>2, <1>3, <1>4, <1>5, <1>7, <1>8, <1>9, <1>10, <1>11, <1>12 DEF ReadNames

(* Then nothing is said that was not asked.                                *)
LEMMA AskedInvGivesAsked == AskedInv => NothingSaidUnasked
  <1> SUFFICES ASSUME AskedInv PROVE NothingSaidUnasked
    OBVIOUS
  <1>0. ResourcesHold /\ ReplayIsDrawn /\ \A n \in DOMAIN res : Sound(n, res[n]) /\ Holds(n, res[n], steps)
    BY Zenon DEF AskedInv, PagesInv, ResourcesAreSound, ResourcesHold
  <1>1. ASSUME NEW n \in DOMAIN res, Report(n) = "none"
        PROVE  res[n].mode = "live" /\ res[n].failure = "none" /\ Irrelevant(n)
    <2>1. Answered(n) /\ Irrelevant(n)
      BY <1>0, <1>1, NoneIsAnswered
    <2>2. res[n].mode # "loading" /\ res[n].failure = "none"
      BY <2>1, Zenon DEF Answered, Loading, Failed
    <2>3. /\ res[n].mode \in {"loading", "live", "example"}
          /\ res[n].mode = "example" => res[n].failure # "none"
      BY <1>0, Zenon DEF Sound, IsResource, Holds
    <2> QED
      BY <2>1, <2>2, <2>3
  <1>2. ASSUME Rows("usage") # {}
        PROVE  LET rows == Rows("usage")  by == view.breakdown IN
               /\ AddsUpTo(GroupByName(rows, by), Spend(rows))
               /\ AddsUpTo(DailySpend(rows), Spend(rows))
               /\ ~AddsUpTo(ShownRows(rows, by), Spend(rows)) => HiddenRows(rows, by) > 0
    <2>1. Priced(Rows("usage"))
      BY <1>0, <1>2, Zenon DEF Rows, Holds
    <2> QED
      BY <2>1, NothingHiddenUnsaid, DaysAddUp, BreakdownAddsUp
  <1>3. view.replay # Null => view.replay < Layers
    <2>1. Layers \in Int
      <3>1. steps \in Nat /\ Layers \in 0..steps
        BY <1>0, LayersAreRecorded DEF ResourcesHold
      <3> QED
        BY <3>1
    <2> QED
      BY <1>0, <2>1 DEF ReplayIsDrawn
  <1>4. ASSUME GraphTab, ~GraphTabDue, ~Due("detail"), NEW run \in Graph
        PROVE  run.id = RunId
    <2>1. "detail" \in DOMAIN res /\ at # "run"
      BY <1>4 DEF GraphTab, GraphTabDue
    <2>2. Graph = IF res["detail"].mode # "loading" THEN res["detail"].data ELSE {}
      BY <2>1, GraphOf
    <2>3. run \in res["detail"].data /\ res["detail"].mode # "loading"
      BY <1>4, <2>2
    <2>4. run.id = res["detail"].key[2]
      BY <1>0, <2>1, <2>3, Zenon DEF Holds
    <2>5. res["detail"].key = <<"detail", RunId, token>>
      BY <1>4, Zenon DEF Due, Data!EffectDue, Key, Panels
    <2> QED
      BY <2>4, <2>5
  <1> QED
    BY <1>1, <1>2, <1>3, <1>4, Zenon DEF NothingSaidUnasked

(* A page that is not all there is, is full.                               *)
LEMMA PageIsAllOrFull ==
    ASSUME NEW all, NEW page \in FirstPage(all), page # all PROVE Cardinality(page) >= PageRows
  BY ConsoleAssumption DEF FirstPage

(* What is listed was read with the token that is held.                    *)
LEMMA AskedInvGivesLists == AskedInv => ListsStopAloud
  <1> SUFFICES ASSUME AskedInv, NEW n \in Lists, n \in DOMAIN res, Answered(n), ~Due(n)
               PROVE  /\ \E all \in Answers[n][token] : Rows(n) \in FirstPage(all)
                      /\ \A all \in Answers[n][token] :
                             /\ Rows(n) \in FirstPage(all)
                             /\ ~(LetThrough(n, all) \subseteq LetThrough(n, Rows(n)))
                             => SaysFull(n)
    BY Zenon DEF ListsStopAloud, Lists
  <1>1. Sound(n, res[n]) /\ Holds(n, res[n], steps)
    BY Zenon DEF AskedInv, PagesInv, ResourcesAreSound, ResourcesHold
  <1>2. res[n].mode = "live"
    <2>1. /\ res[n].mode \in {"loading", "live", "example"} /\ res[n].mode # "loading"
          /\ res[n].failure = "none"
          /\ res[n].mode = "example" => res[n].failure # "none"
      BY <1>1, Zenon DEF Sound, IsResource, Holds, Answered, Loading, Failed
    <2> QED
      BY <2>1
  <1>3. res[n].of = token
    <2>1. n \notin Panels /\ n # "detail"
      BY DEF Lists, Panels
    <2>2. res[n].key = <<n, res[n].token>> /\ res[n].of = res[n].token
      BY <1>1, <1>2, <2>1 DEF Sound, OfItsToken, KeyedBy
    <2>3. res[n].key = <<n, token>>
      BY <2>1, Zenon DEF Due, Data!EffectDue, Key
    <2> QED
      BY <2>2, <2>3
  <1>4. Rows(n) = res[n].data
    BY DEF Rows
  <1>5. \E all \in Answers[n][token] : Rows(n) \in FirstPage(all)
    BY <1>1, <1>2, <1>3, <1>4, Zenon DEF Holds, ReadOf
  <1>6. ASSUME NEW all \in Answers[n][token], Rows(n) \in FirstPage(all),
               ~(LetThrough(n, all) \subseteq LetThrough(n, Rows(n)))
        PROVE  SaysFull(n)
    <2>1. Rows(n) # all
      BY <1>6
    <2> QED
      BY <1>6, <2>1, PageIsAllOrFull DEF SaysFull
  <1> QED
    BY <1>5, <1>6

(* A list is the newest page of what is on record for the token that is    *)
(* held, and leaves nothing out in silence (ListsStopAloud), whatever is   *)
(* on record, however it grows, and whatever the filters.                  *)
THEOREM ListsStopAloudAlways == PagesSpec => []ListsStopAloud
  BY AskedInitially, AskedStep, AskedInvGivesLists, PTL DEF PagesSpec

(* A page says there is nothing only of an answer that held nothing, a     *)
(* breakdown adds up to the figure above it, and a replay walks columns    *)
(* that are drawn (NothingSaidUnasked), whatever the rows and their costs. *)
THEOREM NothingSaidUnaskedAlways == PagesSpec => []NothingSaidUnasked
  BY AskedInitially, AskedStep, AskedInvGivesAsked, PTL DEF PagesSpec

-----------------------------------------------------------------------------
(* The figures of the throughput model (Throughput).                       *)

(* A product keeps the order of one factor when the other is positive.     *)
LEMMA TimesKeepsOrder ==
    ASSUME NEW m \in Int, NEW n \in Int, NEW k \in Nat \ {0}
    PROVE  /\ m * k \in Int /\ n * k \in Int
           /\ m <= n <=> m * k <= n * k
           /\ m < n <=> m * k < n * k
  OBVIOUS

(* What remains of b after some days at k a day, unless it runs out.       *)
Remaining(b, k, last) == [day \in 0..last |-> NotBelowZero(b - day * k)]
IsRemaining(b, k, last, g) ==
    g = [day \in 0..last |-> IF day = 0 THEN b ELSE NotBelowZero(g[day - 1] - k)]

(* The backlog of a day after is the one before less the net of a day.     *)
LEMMA OneDayLess ==
    ASSUME NEW b \in Nat, NEW k \in Int, NEW day \in Nat \ {0}
    PROVE  NotBelowZero(NotBelowZero(b - (day - 1) * k) - k) = NotBelowZero(b - day * k)
  <1>1. (day - 1) * k = day * k - k
    OBVIOUS
  <1>2. day * k \in Int
    OBVIOUS
  <1>3. CASE k >= 0
    BY <1>1, <1>2, <1>3 DEF NotBelowZero
  <1>4. CASE k < 0
    <2>1. day * k < 0
      BY <1>4
    <2> QED
      BY <1>1, <1>2, <1>4, <2>1 DEF NotBelowZero
  <1> QED
    BY <1>3, <1>4

(* The backlog left, day by day, satisfies its own recurrence.             *)
LEMMA RemainingIsRemaining ==
    ASSUME NEW b \in Nat, NEW k \in Int, NEW last \in Nat
    PROVE  IsRemaining(b, k, last, Remaining(b, k, last))
  <1> DEFINE g == Remaining(b, k, last)
  <1>1. ASSUME NEW day \in 0..last
        PROVE  g[day] = IF day = 0 THEN b ELSE NotBelowZero(g[day - 1] - k)
    <2>1. CASE day = 0
      <3>1. day * k = 0
        BY <2>1
      <3> QED
        BY <2>1, <3>1 DEF Remaining, NotBelowZero
    <2>2. CASE day # 0
      <3>1. day \in Nat \ {0} /\ day - 1 \in 0..last
        BY <2>2
      <3>2. g[day - 1] = NotBelowZero(b - (day - 1) * k) /\ g[day] = NotBelowZero(b - day * k)
        BY <3>1 DEF Remaining
      <3> QED
        BY <2>2, <3>1, <3>2, OneDayLess
    <2> QED
      BY <2>1, <2>2
  <1> QED
    BY <1>1 DEF IsRemaining, Remaining

(* Nothing else does.                                                      *)
LEMMA RemainingIsTheOnlyOne ==
    ASSUME NEW b, NEW k, NEW last \in Nat,
           NEW g, IsRemaining(b, k, last, g), NEW h, IsRemaining(b, k, last, h)
    PROVE  g = h
  <1> DEFINE Differ == {day \in 0..last : g[day] # h[day]}
  <1>1. SUFFICES ASSUME Differ # {} PROVE FALSE
    BY DEF IsRemaining
  <1>2. PICK day \in Differ : \A other \in Differ : <<other, day>> \notin OpToRel(<, Nat)
    <2>1. Differ \subseteq Nat
      OBVIOUS
    <2> QED
      BY <1>1, <2>1, WFMin, NatLessThanWellFounded
  <1>a. /\ g[day] = IF day = 0 THEN b ELSE NotBelowZero(g[day - 1] - k)
        /\ h[day] = IF day = 0 THEN b ELSE NotBelowZero(h[day - 1] - k)
    BY <1>2, Zenon DEF IsRemaining
  <1>3. day # 0
    BY <1>2, <1>a
  <1>4. day - 1 \in 0..last /\ g[day - 1] # h[day - 1]
    <2>0. day \in 0..last
      OBVIOUS
    <2>1. day - 1 \in 0..last
      BY <2>0, <1>3
    <2> QED
      BY <1>2, <1>3, <1>a, <2>1
  <1>5. <<day - 1, day>> \in OpToRel(<, Nat)
    BY <1>2, <1>4 DEF OpToRel
  <1> QED
    BY <1>2, <1>4, <1>5

(* The projection of the backlog in closed form.                           *)
LEMMA SeriesIsRemaining ==
    ASSUME NEW s, s.backlog * Weight(s) \in Nat, spareDocuments(s) \in Int
    PROVE  backlogSeries(s) = Remaining(s.backlog * Weight(s), spareDocuments(s), ProjectedDays)
  <1> DEFINE b == s.backlog * Weight(s)
             k == spareDocuments(s)
  <1>1. backlogSeries(s) = CHOOSE g : IsRemaining(b, k, ProjectedDays, g)
    BY DEF backlogSeries, IsRemaining
  <1> HIDE DEF b, k
  <1>2. b \in Nat /\ k \in Int /\ ProjectedDays \in Nat
    BY ThroughputAssumption DEF b, k
  <1>3. IsRemaining(b, k, ProjectedDays, Remaining(b, k, ProjectedDays))
    BY <1>2, RemainingIsRemaining
  <1>4. IsRemaining(b, k, ProjectedDays, backlogSeries(s))
    BY <1>1, <1>3
  <1>5. backlogSeries(s) = Remaining(b, k, ProjectedDays)
    BY <1>2, <1>3, <1>4, RemainingIsTheOnlyOne
  <1> QED
    BY <1>5 DEF b, k

(* Whole days: the least number that is enough.                            *)
LEMMA DaysAreEnough ==
    ASSUME NEW b \in Nat, NEW k \in Nat \ {0}
    PROVE  /\ DaysOf(b, k) \in Nat
           /\ \A day \in Nat : b <= day * k <=> DaysOf(b, k) <= day
  <1> DEFINE d == (b + k - 1) \div k
  <1>1. d \in Nat /\ d * k <= b + k - 1 /\ b + k - 1 < d * k + k
    OBVIOUS
  <1>2. DaysOf(b, k) = d
    BY DEF DaysOf
  <1> HIDE DEF d
  <1>3. ASSUME NEW day \in Nat PROVE b <= day * k <=> d <= day
    <2>1. CASE d <= day
      <3>1. d * k <= day * k /\ d * k \in Nat /\ day * k \in Nat
        BY <1>1, <2>1, TimesKeepsOrder
      <3> QED
        BY <1>1, <2>1, <3>1
    <2>2. CASE day < d
      <3>1. day + 1 <= d
        BY <1>1, <2>2
      <3>2. (day + 1) * k <= d * k
        BY <1>1, <3>1, TimesKeepsOrder
      <3>3. (day + 1) * k = day * k + k /\ d * k \in Nat /\ day * k \in Nat
        BY <1>1
      <3> QED
        BY <1>1, <2>2, <3>2, <3>3
    <2> QED
      BY <1>1, <2>1, <2>2
  <1> QED
    BY <1>1, <1>2, <1>3

-----------------------------------------------------------------------------
Scenario ==
    [pollsCount : BOOLEAN, backedOff : BOOLEAN, share : 0..100, hours : 1..24,
     monthly : Nat, backlog : Nat]

(* The figures of a scenario, as numbers.                                  *)
LEMMA FigureFacts ==
    ASSUME NEW s \in Scenario
    PROVE  /\ quotaCallsPerHundred(s) \in Nat \ {0} /\ Weight(s) \in Nat \ {0}
           /\ Weight(s) = quotaCallsPerHundred(s) * BusinessDays
           /\ documentsPerBusinessDay(s) \in Nat \ {0}
           /\ demandPerBusinessDay(s) \in Nat /\ spareDocuments(s) \in Int
           /\ spareDocuments(s) = documentsPerBusinessDay(s) - demandPerBusinessDay(s)
           /\ OverCapacity(s) <=> spareDocuments(s) < 0
  <1>0. /\ Rpm \in Nat \ {0} /\ BusinessDays \in Nat \ {0} /\ Step \in Nat \ {0}
        /\ (Rpm * 60 * 100) % Step = 0
    BY ThroughputAssumption
  <1>1. s.share \in 0..100 /\ s.hours \in 1..24 /\ s.monthly \in Nat /\ s.backlog \in Nat
    BY DEF Scenario
  <1>2. extractQuota(s) \in {2, 12} /\ digitiseQuota(s) \in {2, 12, 39}
    BY DEF extractQuota, digitiseQuota, DigitisePolls, ExtractPolls
  <1> DEFINE q == quotaCallsPerHundred(s)
             e == extractQuota(s)
             f == digitiseQuota(s)
             sh == s.share
             m == s.monthly
             u == (Rpm * 60 * 100) \div Step
             day == documentsPerBusinessDay(s)
  <1>3. q \in Nat \ {0}
    <2>1. q = e * (100 - sh) + f * sh
      BY DEF quotaCallsPerHundred
    <2>2. e \in {2, 12} /\ f \in {2, 12, 39} /\ sh \in 0..100
      BY <1>1, <1>2
    <2> HIDE DEF e, f, sh
    <2>3. e * (100 - sh) \in Nat /\ f * sh \in Nat /\ (sh = 0 => e * (100 - sh) > 0) /\ (sh # 0 => f * sh > 0)
      BY <2>2
    <2> QED
      BY <2>1, <2>2, <2>3
  <1>4. u \in Nat \ {0}
    <2> DEFINE a == Rpm * 60 * 100
    <2>1. a \in Nat \ {0} /\ a % Step = 0
      BY <1>0
    <2> HIDE DEF a
    <2>2. a \div Step \in Nat \ {0}
      BY <1>0, <2>1
    <2> QED
      BY <2>2 DEF a
  <1>5. Weight(s) = q * BusinessDays
    BY DEF Weight
  <1>6. day = u * s.hours * BusinessDays
    BY DEF documentsPerBusinessDay
  <1>7. demandPerBusinessDay(s) = m * q
    BY DEF demandPerBusinessDay
  <1>8. monthlyCapacity(s) = day * BusinessDays /\ monthlyDemand(s) = m * Weight(s)
    BY DEF monthlyCapacity, monthlyDemand
  <1>9. m \in Nat
    BY <1>1
  <1> HIDE DEF q, u, m, day
  <1>10. q * BusinessDays \in Nat \ {0}
    BY <1>0, <1>3
  <1>11. day \in Nat \ {0}
    <2>1. u * s.hours \in Nat \ {0}
      BY <1>1, <1>4
    <2> QED
      BY <1>0, <1>6, <2>1
  <1>12. m * q \in Nat
    BY <1>3, <1>9
  <1>13. m * (q * BusinessDays) = (m * q) * BusinessDays
    BY <1>0, <1>3, <1>9
  <1>14. OverCapacity(s) <=> day * BusinessDays < (m * q) * BusinessDays
    BY <1>5, <1>8, <1>13, <1>0, <1>11, <1>12 DEF OverCapacity
  <1>15. OverCapacity(s) <=> day < m * q
    BY <1>0, <1>11, <1>12, <1>14, TimesKeepsOrder
  <1>16. spareDocuments(s) = day - m * q
    BY <1>7 DEF spareDocuments, day
  <1> QED
    BY <1>3, <1>5, <1>7, <1>10, <1>11, <1>12, <1>15, <1>16 DEF q, day

(* The rows of the matrix are the four ways to set its two switches.       *)
LEMMA MatrixRows ==
    ASSUME NEW s, NEW row
    PROVE  row \in scenarioMatrix(s) <=>
               \E polls, backOff \in BOOLEAN :
                   row = [s EXCEPT !.pollsCount = polls, !.backedOff = backOff]
  BY SMT DEF scenarioMatrix

(* Each is a scenario that differs in these alone.                         *)
LEMMA RowsOfAScenario ==
    ASSUME NEW s \in Scenario, NEW row \in scenarioMatrix(s)
    PROVE  /\ row \in Scenario
           /\ row.share = s.share /\ row.hours = s.hours /\ row.monthly = s.monthly
           /\ row.pollsCount = s.pollsCount /\ row.backedOff = s.backedOff => row = s
  <1>1. PICK polls \in BOOLEAN, backOff \in BOOLEAN :
            row = [s EXCEPT !.pollsCount = polls, !.backedOff = backOff]
    BY MatrixRows, Zenon
  <1>2. row \in Scenario /\ row.share = s.share /\ row.hours = s.hours /\ row.monthly = s.monthly
    BY <1>1, Zenon DEF Scenario
  <1>3. row.pollsCount = polls /\ row.backedOff = backOff
    BY <1>1, Zenon DEF Scenario
  <1>4. polls = s.pollsCount /\ backOff = s.backedOff => row = s
    BY <1>1, Zenon DEF Scenario
  <1> QED
    BY <1>2, <1>3, <1>4, Zenon

(* One row of the matrix is the scenario on screen.                        *)
LEMMA OneRowIsCurrent ==
    ASSUME scenario \in Scenario
    PROVE  {row \in scenarioMatrix(scenario) : IsCurrent(row)} = {scenario}
  <1>1. scenario.pollsCount \in BOOLEAN /\ scenario.backedOff \in BOOLEAN
    BY Zenon DEF Scenario
  <1>2. scenario = [scenario EXCEPT !.pollsCount = scenario.pollsCount, !.backedOff = scenario.backedOff]
    BY Zenon DEF Scenario
  <1>3. scenario \in scenarioMatrix(scenario)
    BY <1>1, <1>2, MatrixRows, Zenon
  <1>4. IsCurrent(scenario)
    BY Zenon DEF IsCurrent
  <1>5. ASSUME NEW row \in scenarioMatrix(scenario), IsCurrent(row) PROVE row = scenario
    BY <1>5, RowsOfAScenario, Zenon DEF IsCurrent
  <1> QED
    BY <1>3, <1>4, <1>5, Zenon

(* Polls that count, and a flat interval between them, cost calls.         *)
LEMMA PollsCost ==
    ASSUME NEW s \in Scenario, NEW t \in Scenario, s.share = t.share,
           s.pollsCount => t.pollsCount, t.backedOff => s.backedOff
    PROVE  quotaCallsPerHundred(s) <= quotaCallsPerHundred(t)
  <1>1. extractQuota(s) \in Nat /\ digitiseQuota(s) \in Nat /\ extractQuota(t) \in Nat /\ digitiseQuota(t) \in Nat
    BY DEF extractQuota, digitiseQuota, DigitisePolls, ExtractPolls
  <1>2. extractQuota(s) <= extractQuota(t)
    BY DEF extractQuota, ExtractPolls
  <1>3. digitiseQuota(s) <= digitiseQuota(t)
    BY DEF digitiseQuota, DigitisePolls
  <1> DEFINE e == extractQuota(s)
             f == digitiseQuota(s)
             g == extractQuota(t)
             h == digitiseQuota(t)
             sh == s.share
  <1>4. sh \in 0..100 /\ sh = t.share
    BY DEF Scenario
  <1>5. quotaCallsPerHundred(s) = e * (100 - sh) + f * sh /\ quotaCallsPerHundred(t) = g * (100 - sh) + h * sh
    BY <1>4 DEF quotaCallsPerHundred
  <1> HIDE DEF e, f, g, h, sh
  <1>6. e \in Nat /\ f \in Nat /\ g \in Nat /\ h \in Nat /\ e <= g /\ f <= h
    BY <1>1, <1>2, <1>3 DEF e, f, g, h
  <1>7. e * (100 - sh) <= g * (100 - sh) /\ f * sh <= h * sh
    BY <1>4, <1>6
  <1>8. e * (100 - sh) \in Int /\ g * (100 - sh) \in Int /\ f * sh \in Int /\ h * sh \in Int
    BY <1>4, <1>6
  <1> QED
    BY <1>5, <1>7, <1>8

(* A row that counts fewer polls and backs off more is over capacity only  *)
(* if the other is.                                                        *)
LEMMA RowsAreOrdered ==
    ASSUME NEW s \in Scenario, NEW row \in scenarioMatrix(s), NEW other \in scenarioMatrix(s),
           row.pollsCount => other.pollsCount, other.backedOff => row.backedOff,
           ~OverCapacity(other)
    PROVE  ~OverCapacity(row)
  <1>1. /\ row \in Scenario /\ other \in Scenario
        /\ row.share = other.share /\ row.hours = other.hours /\ row.monthly = other.monthly
    <2>1. row \in Scenario /\ row.share = s.share /\ row.hours = s.hours /\ row.monthly = s.monthly
      BY RowsOfAScenario, Zenon
    <2>2. other \in Scenario /\ other.share = s.share /\ other.hours = s.hours /\ other.monthly = s.monthly
      BY RowsOfAScenario, Zenon
    <2> QED
      BY <2>1, <2>2
  <1>2. quotaCallsPerHundred(row) <= quotaCallsPerHundred(other)
    BY <1>1, PollsCost
  <1> DEFINE q == quotaCallsPerHundred(row)
             r == quotaCallsPerHundred(other)
             m == row.monthly
  <1>3. q \in Nat /\ r \in Nat /\ m \in Nat /\ q <= r
    BY <1>1, <1>2, FigureFacts DEF Scenario
  <1>4. demandPerBusinessDay(row) = m * q /\ demandPerBusinessDay(other) = m * r
    BY <1>1 DEF demandPerBusinessDay
  <1>5. documentsPerBusinessDay(row) = documentsPerBusinessDay(other)
    BY <1>1 DEF documentsPerBusinessDay
  <1> HIDE DEF q, r, m
  <1>6. m * q <= m * r
    BY <1>3
  <1>7. spareDocuments(other) <= spareDocuments(row)
    BY <1>1, <1>4, <1>5, <1>6, FigureFacts
  <1> QED
    BY <1>1, <1>7, FigureFacts

(* What a scenario says of itself.                                         *)
LEMMA OneStory ==
    ASSUME scenario \in Scenario PROVE TheFiguresAgree
  <1> DEFINE s == scenario
             series == backlogSeries(s)
             b == s.backlog * Weight(s)
             k == spareDocuments(s)
             n == documentsPerBusinessDay(s)
  <1>1. b \in Nat /\ k \in Int /\ n \in Nat \ {0} /\ k <= n /\ ProjectedDays \in Nat
    <2>1. s.backlog \in Nat /\ Weight(s) \in Nat
      BY FigureFacts DEF Scenario
    <2> QED
      BY <2>1, FigureFacts, ThroughputAssumption
  <1>2. series = [day \in 0..ProjectedDays |-> NotBelowZero(b - day * k)]
    BY <1>1, SeriesIsRemaining DEF Remaining
  <1>3. Verdict(s) = "over" <=> k < 0
    BY FigureFacts DEF Verdict
  <1>4. Verdict(s) \in {"over", "within"}
    BY DEF Verdict
  <1>5. backlogDrainDays(s) = IF k > 0 THEN DaysOf(b, k) ELSE Never
    BY DEF backlogDrainDays
  <1>6. backlogDrainDaysIdle(s) = DaysOf(b, n)
    BY DEF backlogDrainDaysIdle
  <1> HIDE DEF series, b, k, n
  <1>7. k > 0 => DaysOf(b, k) \in Nat
    BY <1>1, DaysAreEnough
  <1>8. Panel(s) \in {"grows", "clears"} /\ (Panel(s) = "grows" <=> ~(k > 0))
    BY <1>5, <1>7 DEF Panel, Never
  <1>9. Verdict(s) = "over" => Panel(s) = "grows"
    BY <1>1, <1>3, <1>8
  <1>10. ASSUME Panel(s) = "grows", NEW day \in 1..ProjectedDays
         PROVE  series[day] >= series[day - 1]
    <2>1. k <= 0
      BY <1>1, <1>8, <1>10
    <2>2. series[day] = NotBelowZero(b - day * k) /\ series[day - 1] = NotBelowZero(b - (day - 1) * k)
      BY <1>1, <1>2
    <2>3. day * k \in Int /\ (day - 1) * k = day * k - k
      BY <1>1
    <2> QED
      BY <1>1, <2>1, <2>2, <2>3 DEF NotBelowZero
  <1>11. ASSUME Panel(s) = "clears"
         PROVE  /\ Verdict(s) = "within" /\ backlogDrainDays(s) >= backlogDrainDaysIdle(s)
                /\ \A day \in 0..ProjectedDays : series[day] = 0 <=> day >= backlogDrainDays(s)
    <2>1. k \in Nat \ {0}
      BY <1>1, <1>8, <1>11
    <2>2. backlogDrainDays(s) = DaysOf(b, k) /\ DaysOf(b, k) \in Nat
      BY <1>5, <1>7, <2>1
    <2>3. Verdict(s) = "within"
      BY <1>1, <1>3, <1>4, <2>1
    <2>4. DaysOf(b, n) <= DaysOf(b, k)
      <3> DEFINE d == DaysOf(b, k)
      <3>1. d \in Nat /\ b <= d * k
        BY <1>1, <2>1, DaysAreEnough
      <3> HIDE DEF d
      <3>2. d * k <= d * n /\ d * k \in Nat /\ d * n \in Nat
        BY <1>1, <2>1, <3>1
      <3>3. b <= d * n
        BY <1>1, <3>1, <3>2
      <3>4. DaysOf(b, n) <= d
        BY <1>1, <3>1, <3>3, DaysAreEnough
      <3> QED
        BY <3>4 DEF d
    <2>5. ASSUME NEW day \in 0..ProjectedDays
          PROVE  series[day] = 0 <=> day >= backlogDrainDays(s)
      <3>1. series[day] = NotBelowZero(b - day * k) /\ day \in Nat /\ day * k \in Int
        BY <1>1, <1>2
      <3>2. series[day] = 0 <=> b <= day * k
        BY <1>1, <3>1 DEF NotBelowZero
      <3>3. b <= day * k <=> DaysOf(b, k) <= day
        BY <1>1, <2>1, <3>1, DaysAreEnough
      <3> QED
        BY <2>2, <3>1, <3>2, <3>3
    <2>6. backlogDrainDays(s) >= backlogDrainDaysIdle(s)
      BY <1>1, <1>6, <2>2, <2>4, DaysAreEnough
    <2> QED
      BY <2>3, <2>5, <2>6
  <1>12. \A row, other \in scenarioMatrix(s) :
             (row.pollsCount => other.pollsCount) /\ (other.backedOff => row.backedOff)
                 => (Verdict(other) = "within" => Verdict(row) = "within")
    <2> SUFFICES ASSUME NEW row \in scenarioMatrix(s), NEW other \in scenarioMatrix(s),
                        row.pollsCount => other.pollsCount, other.backedOff => row.backedOff,
                        Verdict(other) = "within"
                 PROVE  Verdict(row) = "within"
      OBVIOUS
    <2>1. ~OverCapacity(other)
      BY DEF Verdict
    <2>2. ~OverCapacity(row)
      BY <2>1, RowsAreOrdered
    <2> QED
      BY <2>2 DEF Verdict
  <1>13. {row \in scenarioMatrix(s) : IsCurrent(row)} = {s}
    BY OneRowIsCurrent
  <1> HIDE DEF s
  <1> QED
    BY <1>9, <1>10, <1>11, <1>12, <1>13, Zenon DEF TheFiguresAgree, series, s

(* Every edit of the panel makes a scenario.                               *)
LEMMA EditsKeepScenarios ==
    ASSUME scenario \in Scenario, [ThroughputNext]_throughputVars PROVE scenario' \in Scenario
  <1>1. CASE UNCHANGED scenario
    BY <1>1
  <1>2. ASSUME NEW field \in {"pollsCount", "backedOff"}, Toggles(field) PROVE scenario' \in Scenario
    BY <1>2, Zenon DEF Toggles, Scenario
  <1>3. ASSUME Slides("share", Shares) PROVE scenario' \in Scenario
    BY <1>3, ThroughputAssumption DEF Slides, Scenario
  <1>4. ASSUME Slides("hours", Hours) PROVE scenario' \in Scenario
    BY <1>4, ThroughputAssumption DEF Slides, Scenario
  <1>5. ASSUME Slides("monthly", Monthly) PROVE scenario' \in Scenario
    BY <1>5, ThroughputAssumption DEF Slides, Scenario
  <1>6. ASSUME Slides("backlog", Backlogs) PROVE scenario' \in Scenario
    BY <1>6, ThroughputAssumption DEF Slides, Scenario
  <1>7. Default \in Scenario
    <2>1. 20 \in 0..100 /\ 10 \in 1..24 /\ 35 \in Nat /\ 10 \in Nat
      OBVIOUS
    <2> QED
      BY <2>1, Zenon DEF Default, Scenario
  <1> QED
    BY <1>1, <1>2, <1>3, <1>4, <1>5, <1>6, <1>7, Zenon
       DEF ThroughputNext, OpensUsageTab, EditsScenario, ResetToDefaults, throughputVars

-----------------------------------------------------------------------------
(* The drawing of a flow on its card (FlowThumbnail).                      *)

(* Finitely many integers have a least and a greatest.                     *)
LEMMA FiniteHasEnds ==
    ASSUME NEW S \in SUBSET Int, IsFiniteSet(S), S # {}, NEW sign \in {1, -1}
    PROVE  \E n \in S : \A k \in S : sign * n <= sign * k
  <1> DEFINE Endless == {T \in SUBSET S : /\ T # {}
                                          /\ \A n \in T : \E k \in T : sign * k < sign * n}
  <1>1. SUFFICES ASSUME Endless # {}
                 PROVE  FALSE
    BY <1>1
  <1>2. IsWellFoundedOn(StrictSubsetOrdering(S), SUBSET S)
    <2>1. FiniteSubsetsOf(S) = SUBSET S
      BY FS_FiniteSubsetsOfFinite
    <2> QED
      BY <2>1, FS_StrictSubsetOrderingWellFounded
  <1>3. PICK T \in Endless : \A U \in Endless : <<U, T>> \notin StrictSubsetOrdering(S)
    BY <1>1, <1>2, WFMin
  <1>4. PICK n \in T : TRUE
    OBVIOUS
  <1>5. T \ {n} \notin Endless
    <2>1. <<T \ {n}, T>> \in StrictSubsetOrdering(S)
      BY <1>4 DEF StrictSubsetOrdering
    <2> QED
      BY <1>3, <2>1
  <1>6. PICK k \in T : sign * k < sign * n
    BY <1>4
  <1>7. k # n
    BY <1>6
  <1>8. PICK m \in T \ {n} : \A j \in T \ {n} : ~(sign * j < sign * m)
    BY <1>5, <1>7
  <1>9. sign * n < sign * m
    BY <1>8
  <1> QED
    BY <1>6, <1>7, <1>8, <1>9

Positive == Nat \ {0}
Fraction == Positive \X Positive
AtMostAs(q, r) == q[1] * r[2] <= r[1] * q[2]

(* Its numerator and denominator are positive.                             *)
LEMMA FractionFacts ==
    ASSUME NEW q \in Fraction
    PROVE  q[1] \in Positive /\ q[2] \in Positive
  BY DEF Fraction

(* The order of fractions is transitive.                                   *)
LEMMA FractionsAreOrdered ==
    ASSUME NEW q \in Fraction, NEW r \in Fraction, NEW t \in Fraction,
           AtMostAs(q, r), AtMostAs(r, t)
    PROVE  AtMostAs(q, t)
  <1> DEFINE q1 == q[1]
             q2 == q[2]
             r1 == r[1]
             r2 == r[2]
             t1 == t[1]
             t2 == t[2]
  <1>1. q1 \in Positive /\ q2 \in Positive /\ r1 \in Positive /\ r2 \in Positive
        /\ t1 \in Positive /\ t2 \in Positive
    BY DEF Fraction
  <1>2. q1 * r2 <= r1 * q2 /\ r1 * t2 <= t1 * r2
    BY DEF AtMostAs
  <1> HIDE DEF q1, q2, r1, r2, t1, t2
  <1>3. (q1 * r2) * t2 <= (r1 * q2) * t2
    BY <1>1, <1>2 DEF Positive
  <1>4. (r1 * t2) * q2 <= (t1 * r2) * q2
    BY <1>1, <1>2 DEF Positive
  <1>5. (r1 * q2) * t2 = (r1 * t2) * q2
    BY <1>1 DEF Positive
  <1>6. (q1 * r2) * t2 = (q1 * t2) * r2 /\ (t1 * r2) * q2 = (t1 * q2) * r2
    BY <1>1 DEF Positive
  <1>7. q1 * t2 \in Nat /\ t1 * q2 \in Nat /\ (r1 * q2) * t2 \in Nat
    BY <1>1 DEF Positive
  <1>8. (q1 * t2) * r2 <= (t1 * q2) * r2
    BY <1>3, <1>4, <1>5, <1>6, <1>7, <1>1 DEF Positive
  <1>9. q1 * t2 <= t1 * q2
    BY <1>1, <1>7, <1>8 DEF Positive
  <1> QED
    BY <1>9 DEF AtMostAs, q1, q2, t1, t2

(* The least of two fractions is at most either.                           *)
LEMMA LeastIsAtMost ==
    ASSUME NEW q \in Fraction, NEW r \in Fraction
    PROVE  /\ Least(q, r) \in Fraction
           /\ AtMostAs(Least(q, r), q) /\ AtMostAs(Least(q, r), r)
  <1> DEFINE q1 == q[1]
             q2 == q[2]
             r1 == r[1]
             r2 == r[2]
  <1>1. q1 \in Nat /\ q2 \in Nat /\ r1 \in Nat /\ r2 \in Nat
    BY DEF Fraction, Positive
  <1>2. q1 * r2 \in Nat /\ r1 * q2 \in Nat /\ q1 * q2 \in Nat /\ r1 * r2 \in Nat
    <2> HIDE DEF q1, q2, r1, r2
    <2> QED
      BY <1>1
  <1>3. AtMostAs(q, q) /\ AtMostAs(r, r)
    BY <1>2 DEF AtMostAs
  <1>4. AtMostAs(q, r) \/ AtMostAs(r, q)
    BY <1>2 DEF AtMostAs
  <1>5. Least(q, r) = IF AtMostAs(q, r) THEN q ELSE r
    BY DEF Least, AtMostAs
  <1> QED
    BY <1>3, <1>4, <1>5

(* The greater of two numbers.                                             *)
LEMMA GreatestFacts ==
    ASSUME NEW q, NEW r
    PROVE  Greatest(q, r) \in {q, r}
  BY DEF Greatest

(* How far the centre of a step stays from the edges of the frame.         *)
LEMMA CentreKeepsOff ==
    ASSUME NEW room \in Nat, NEW pad \in Nat, NEW body \in Nat,
           NEW wide \in Nat, NEW off \in Int, NEW k1 \in Positive, NEW k2 \in Positive,
           off <= wide, -wide <= off,
           k1 * (wide + body) <= (room - 2 * pad) * k2
    PROVE  LET centre == room * k2 + off * k1 IN
           /\ centre \in Int /\ body * k1 \in Nat /\ pad * k2 \in Nat /\ room * k2 \in Nat
           /\ 2 * (pad * k2) + body * k1 <= centre
           /\ centre + 2 * (pad * k2) + body * k1 <= 2 * (room * k2)
  <1>1. k1 \in Nat /\ k2 \in Nat
    BY DEF Positive
  <1>2. off * k1 >= -(wide * k1) /\ off * k1 <= wide * k1
    <2>1. off * k1 >= (-wide) * k1 /\ off * k1 <= wide * k1
      BY <1>1
    <2>2. (-wide) * k1 = -(wide * k1)
      BY <1>1
    <2> QED
      BY <2>1, <2>2
  <1>3. k1 * (wide + body) = wide * k1 + body * k1
    BY <1>1
  <1>4. (room - 2 * pad) * k2 = room * k2 - 2 * (pad * k2)
    BY <1>1
  <1>5. room * k2 \in Nat /\ off * k1 \in Int /\ wide * k1 \in Nat /\ body * k1 \in Nat /\ pad * k2 \in Nat
    BY <1>1
  <1> QED
    BY <1>2, <1>3, <1>4, <1>5

(* The flow is what the list endpoint can send.                            *)
FlowTypeOK ==
    /\ flow.place \in [StepId -> Position \cup {Nowhere, NoStep}]
    /\ flow.edges \subseteq StepId \X StepId
    /\ density \in {"card", "row"}

(* The steps of a flow are finitely many, and so are those drawn.          *)
LEMMA StepsAreFew ==
    IsFiniteSet(StepId) /\ IsFiniteSet(InFlow) /\ IsFiniteSet(SentSteps) /\ IsFiniteSet(placed)
  <1>1. IsFiniteSet(StepId)
    <2> DEFINE n == Len(Steps)
               f == [i \in 1..n |-> Steps[i]]
    <2>1. Steps \in Seq(STRING)
      BY ThumbnailAssumption, Zenon
    <2>2. n \in Nat /\ DOMAIN Steps = 1..n
      BY <2>1
    <2>3. IsFiniteSet(1..n)
      BY <2>2, FS_Interval
    <2> HIDE DEF n
    <2>4. f \in Surjection(1..n, StepId)
      BY <2>2 DEF StepId, Surjection
    <2> QED
      BY <2>3, <2>4, FS_Surjection
  <1>2. InFlow \subseteq StepId /\ SentSteps \subseteq InFlow /\ placed \subseteq SentSteps
    BY DEF InFlow, SentSteps, placed
  <1>3. IsFiniteSet(InFlow)
    BY <1>1, <1>2, FS_Subset
  <1>4. IsFiniteSet(SentSteps)
    BY <1>3, <1>2, FS_Subset
  <1>5. IsFiniteSet(placed)
    BY <1>4, <1>2, FS_Subset
  <1> QED
    BY <1>1, <1>3, <1>4, <1>5

(* Each step drawn has a place.                                            *)
LEMMA PlacesOfThePlaced ==
    ASSUME FlowTypeOK, NEW s \in placed
    PROVE  flow.place[s] \in Position
  BY DEF FlowTypeOK, placed, SentSteps, InFlow

(* The drawing has ends in both directions.                                *)
LEMMA EndsOfTheDrawing ==
    ASSUME FlowTypeOK, placed # {}, NEW axis \in {"x", "y"}
    PROVE  /\ LowEnd(axis) \in Int /\ HighEnd(axis) \in Int
           /\ \A s \in placed : /\ flow.place[s][axis] \in Int
                                /\ LowEnd(axis) <= flow.place[s][axis]
                                /\ flow.place[s][axis] <= HighEnd(axis)
  <1>1. \A s \in placed : flow.place[s][axis] \in Int
    <2> TAKE s \in placed
    <2>1. flow.place[s] \in Position
      BY PlacesOfThePlaced
    <2>2. Coordinate \subseteq Int
      BY ThumbnailAssumption
    <2> QED
      BY <2>1, <2>2 DEF Position
  <1> DEFINE S == Along(axis)
  <1>2. S \subseteq Int /\ S # {} /\ \A s \in placed : flow.place[s][axis] \in S
    BY <1>1 DEF Along
  <1>3. IsFiniteSet(S)
    <2> DEFINE f == [s \in placed |-> flow.place[s][axis]]
    <2>1. f \in Surjection(placed, S)
      BY DEF Along, Surjection
    <2> QED
      BY <2>1, StepsAreFew, FS_Surjection
  <1>4. LowEnd(axis) = CHOOSE n \in S : \A k \in S : n <= k
    BY DEF LowEnd
  <1>5. HighEnd(axis) = CHOOSE n \in S : \A k \in S : n >= k
    BY DEF HighEnd
  <1> HIDE DEF S
  <1>6. \E n \in S : \A k \in S : n <= k
    <2>1. PICK n \in S : \A k \in S : 1 * n <= 1 * k
      BY <1>2, <1>3, FiniteHasEnds
    <2>2. \A k \in S : n <= k
      BY <1>2, <2>1
    <2> QED
      BY <2>2
  <1>7. \E n \in S : \A k \in S : n >= k
    <2>1. PICK n \in S : \A k \in S : (-1) * n <= (-1) * k
      BY <1>2, <1>3, FiniteHasEnds
    <2>2. \A k \in S : n >= k
      BY <1>2, <2>1
    <2> QED
      BY <2>2
  <1>8. LowEnd(axis) \in S /\ \A k \in S : LowEnd(axis) <= k
    BY <1>4, <1>6
  <1>9. HighEnd(axis) \in S /\ \A k \in S : HighEnd(axis) >= k
    BY <1>5, <1>7
  <1>10. LowEnd(axis) \in Int /\ HighEnd(axis) \in Int
    BY <1>2, <1>8, <1>9
  <1> QED
    BY <1>1, <1>2, <1>8, <1>9, <1>10

(* The scale fits the drawing in its frame, and is no larger than allowed. *)
LEMMA ScaleFits ==
    ASSUME FlowTypeOK, placed # {}
    PROVE  /\ scale \in Fraction /\ AtMostAs(scale, Density.maxScale)
           /\ \A axis \in {"x", "y"} : AtMostAs(scale, fit(axis))
  <1>1. \A axis \in {"x", "y"} : fit(axis) \in Fraction
    <2> TAKE axis \in {"x", "y"}
    <2>1. span(axis) \in Positive
      <3>1. PICK s \in placed : TRUE
        OBVIOUS
      <3>2. HighEnd(axis) \in Int /\ LowEnd(axis) \in Int /\ LowEnd(axis) <= HighEnd(axis)
        BY <3>1, EndsOfTheDrawing
      <3>3. Body(axis) \in Positive
        BY DEF Body, StepWidth, StepHeight, Positive
      <3> QED
        BY <3>2, <3>3 DEF span, Positive
    <2>2. Room(axis) - 2 * Density.pad \in Positive
      BY DEF Room, Density, Positive
    <2> QED
      BY <2>1, <2>2 DEF fit, Fraction
  <1>2. Density.maxScale \in Fraction
    BY DEF Density, Fraction, Positive
  <1> DEFINE both == Least(fit("x"), fit("y"))
             m == Density.maxScale
             x == fit("x")
             y == fit("y")
  <1>3. x \in Fraction /\ y \in Fraction /\ m \in Fraction
    BY <1>1, <1>2
  <1>4. both \in Fraction /\ AtMostAs(both, x) /\ AtMostAs(both, y)
    BY <1>3, LeastIsAtMost
  <1>5. scale = Least(both, m)
    BY DEF scale
  <1> HIDE DEF both, m, x, y
  <1>6. scale \in Fraction /\ AtMostAs(scale, both) /\ AtMostAs(scale, m)
    BY <1>3, <1>4, <1>5, LeastIsAtMost
  <1>7. AtMostAs(scale, x)
    BY <1>3, <1>4, <1>6, FractionsAreOrdered
  <1>8. AtMostAs(scale, y)
    BY <1>3, <1>4, <1>6, FractionsAreOrdered
  <1> QED
    BY <1>6, <1>7, <1>8 DEF m, x, y

(* Of a drawing that fits at scale k, the mark of no step is cropped, drawn *)
(* to scale or at its floor.                                               *)
LEMMA MarksAreInside ==
    ASSUME FlowTypeOK, placed # {}, NEW s \in placed, NEW axis \in {"x", "y"}
    PROVE  MarkIsInside(s, axis, scale, markScale)
  <1> DEFINE k1 == scale[1]
             k2 == scale[2]
             room == Room(axis)
             pad == Density.pad
             body == Body(axis)
             wide == HighEnd(axis) - LowEnd(axis)
             off == 2 * (flow.place[s][axis] - LowEnd(axis)) - wide
             mark == MarkOf(s, axis)
             centre == room * k2 + off * k1
             f1 == Density.minMark[1]
             f2 == Density.minMark[2]
             g1 == Density.maxScale[1]
             g2 == Density.maxScale[2]
  <1>1. k1 \in Positive /\ k2 \in Positive
    BY ScaleFits, FractionFacts
  <1>2. /\ room \in Nat /\ pad \in Nat /\ body \in Nat /\ mark \in Nat
        /\ f1 \in Nat /\ f2 \in Nat \ {0}
        /\ mark * f1 <= 2 * pad * f2
        /\ g1 \in Nat \ {0} /\ g2 \in Nat \ {0} /\ mark - body <= 5 /\ 5 * g1 <= 2 * pad * g2
    BY DEF Room, Density, Body, MarkOf, StepWidth, StepHeight, BranchWidth, BranchHeight
  <1>3. wide \in Nat /\ off \in Int /\ off <= wide /\ -wide <= off
    BY EndsOfTheDrawing
  <1>4. k1 * (wide + body) <= (room - 2 * pad) * k2
    <2>1. AtMostAs(scale, fit(axis))
      BY ScaleFits
    <2> QED
      BY <2>1 DEF AtMostAs, fit, span
  <1>5. k1 * g2 <= g1 * k2
    BY ScaleFits DEF AtMostAs
  <1>6. Centre(s, axis, scale) = centre
    <2>1. 2 * (flow.place[s][axis] - LowEnd(axis)) + body - span(axis) = off
      BY <1>2, EndsOfTheDrawing DEF span
    <2> QED
      BY <2>1 DEF Centre
  <1>7. markScale = scale \/ markScale = Density.minMark
    BY GreatestFacts DEF markScale
  <1> DEFINE m1 == markScale[1]
             m2 == markScale[2]
  <1>8. MarkIsInside(s, axis, scale, markScale) <=>
           /\ centre * m2 >= mark * m1 * k2
           /\ centre * m2 + mark * m1 * k2 <= 2 * room * k2 * m2
    BY <1>6 DEF MarkIsInside
  <1>9. (m1 = k1 /\ m2 = k2) \/ (m1 = f1 /\ m2 = f2)
    BY <1>7
  <1> HIDE DEF k1, k2, room, pad, body, wide, off, mark, f1, f2, g1, g2, m1, m2
  <1>10. /\ centre \in Int /\ body * k1 \in Nat /\ pad * k2 \in Nat /\ room * k2 \in Nat
         /\ 2 * (pad * k2) + body * k1 <= centre
         /\ centre + 2 * (pad * k2) + body * k1 <= 2 * (room * k2)
    BY <1>1, <1>2, <1>3, <1>4, CentreKeepsOff
  <1> HIDE DEF centre
  <1>11. k1 \in Nat /\ k2 \in Nat \ {0}
    BY <1>1 DEF Positive
  <1>12. CASE m1 = k1 /\ m2 = k2
    <2>1. mark * k1 <= 2 * (pad * k2) + body * k1
      <3>1. 5 * k1 <= 2 * (pad * k2)
        <4>1. (5 * k1) * g2 <= (5 * g1) * k2
          BY <1>5, <1>11, <1>2
        <4>2. (5 * g1) * k2 <= (2 * pad * g2) * k2
          BY <1>2, <1>11
        <4>3. (2 * pad * g2) * k2 = (2 * (pad * k2)) * g2
          BY <1>2, <1>11
        <4>4. (5 * k1) \in Int /\ (2 * (pad * k2)) \in Int /\ (5 * k1) * g2 \in Int /\ (5 * g1) * k2 \in Int
              /\ (2 * (pad * k2)) * g2 \in Int
          BY <1>2, <1>11
        <4>5. (5 * k1) * g2 <= (2 * (pad * k2)) * g2
          BY <4>1, <4>2, <4>3, <4>4
        <4> QED
          BY <1>2, <4>4, <4>5
      <3>2. (mark - body) * k1 <= 5 * k1
        BY <1>2, <1>11
      <3>3. (mark - body) * k1 = mark * k1 - body * k1 /\ mark * k1 \in Nat
        BY <1>2, <1>11
      <3> QED
        BY <3>1, <3>2, <3>3, <1>10, <1>11
    <2> DEFINE reach == mark * k1
    <2>2. reach \in Nat
      BY <1>2, <1>11
    <2>3. reach <= centre /\ centre + reach <= 2 * (room * k2)
      BY <2>1, <2>2, <1>10
    <2>4. mark * m1 * k2 = reach * k2 /\ 2 * room * k2 * m2 = (2 * (room * k2)) * k2
      BY <1>12, <1>2, <1>11
    <2> HIDE DEF reach
    <2>5. reach * k2 <= centre * k2 /\ (centre + reach) * k2 <= (2 * (room * k2)) * k2
      BY <2>2, <2>3, <1>10, <1>11
    <2>6. (centre + reach) * k2 = centre * k2 + reach * k2 /\ centre * k2 \in Int /\ reach * k2 \in Int
      BY <2>2, <1>10, <1>11
    <2> QED
      BY <1>8, <1>12, <2>4, <2>5, <2>6
  <1>13. CASE m1 = f1 /\ m2 = f2
    <2> DEFINE p == 2 * (pad * k2)
               r == 2 * (room * k2)
    <2>1. p \in Nat /\ r \in Nat /\ p <= centre /\ centre + p <= r
      BY <1>10
    <2>2. (mark * f1) * k2 <= (2 * pad * f2) * k2
      BY <1>2, <1>11
    <2>3. (2 * pad * f2) * k2 = p * f2
      BY <1>2, <1>11
    <2>4. mark * m1 * k2 = (mark * f1) * k2 /\ 2 * room * k2 * m2 = r * f2
      BY <1>13, <1>2, <1>11
    <2> HIDE DEF p, r
    <2>5. p * f2 <= centre * f2 /\ (centre + p) * f2 <= r * f2
      BY <2>1, <1>2, <1>10
    <2>6. (centre + p) * f2 = centre * f2 + p * f2 /\ centre * f2 \in Int /\ p * f2 \in Int /\ r * f2 \in Int
          /\ (mark * f1) * k2 \in Int
      BY <2>1, <1>2, <1>10, <1>11
    <2> QED
      BY <1>8, <1>13, <2>2, <2>3, <2>4, <2>5, <2>6
  <1> QED
    BY <1>9, <1>12, <1>13

(* The step stored first is sent, if there is one.                         *)
LEMMA TheFirstIsSent == ASSUME InFlow # {} PROVE SentSteps # {}
  <1> DEFINE At == {i \in DOMAIN Steps : Steps[i] \in InFlow}
  <1>1. DOMAIN Steps \subseteq Nat /\ Sendable \in Nat \ {0}
        /\ \A i, j \in DOMAIN Steps : Steps[i] = Steps[j] => i = j
    <2>1. Steps \in Seq(STRING)
      BY ThumbnailAssumption, Zenon
    <2> QED
      BY <2>1, ThumbnailAssumption
  <1>2. At \subseteq Nat /\ At # {}
    BY <1>1 DEF InFlow, StepId
  <1>3. PICK first \in At : \A i \in At : <<i, first>> \notin OpToRel(<, Nat)
    BY <1>2, WFMin, NatLessThanWellFounded
  <1>4. \A i \in At : ~(i < first)
    BY <1>2, <1>3 DEF OpToRel
  <1>5. Before(Steps[first]) = {}
    <2> SUFFICES ASSUME NEW q \in InFlow, NEW i \in DOMAIN Steps, NEW j \in DOMAIN Steps,
                        Steps[i] = q, Steps[j] = Steps[first], i < j
                 PROVE  FALSE
      BY DEF Before
    <2>1. j = first /\ i \in At
      BY <1>1, <1>3
    <2> QED
      BY <1>4, <2>1
  <1>6. Cardinality(Before(Steps[first])) < Sendable
    BY <1>1, <1>5, FS_EmptySet
  <1> QED
    BY <1>3, <1>6 DEF SentSteps

(* What the label and the caption say of a flow.                           *)
LEMMA LabelsAreTrue ==
    ASSUME FlowTypeOK
    PROVE  /\ Label.says = "all" /\ ~SentInPart => placed = InFlow /\ drawnEdges = Attached
           /\ Label.says = "no steps yet" \/ Caption = "No steps yet" => InFlow = {}
           /\ Caption = "No saved positions" => InFlow # {} /\ Label.says = "none drawn"
  <1>1. Label.says = "all" => placed = SentSteps /\ drawnEdges = SentEdges
    BY DEF Label
  <1>2. Label.says = "no steps yet" => SentSteps = {}
    BY DEF Label
  <1>3. Caption = "No steps yet" => SentSteps = {}
    BY DEF Caption
  <1>4. Caption = "No saved positions" => placed = {} /\ SentSteps # {}
    BY DEF Caption
  <1>5. placed = {} /\ SentSteps # {} => Label.says = "none drawn"
    BY DEF Label
  <1>6. SentSteps \subseteq InFlow
    BY DEF SentSteps
  <1>7. ~SentInPart => SentSteps = InFlow
    BY <1>6, StepsAreFew, FS_Subset, FS_CardinalityType DEF SentInPart
  <1>8. SentSteps = InFlow => SentEdges = Attached
    BY DEF SentEdges, Attached
  <1> QED
    BY <1>1, <1>2, <1>3, <1>4, <1>5, <1>6, <1>7, <1>8, TheFirstIsSent

(* Then the picture on a card is whole.                                    *)
LEMMA ThumbnailsAreWhole == ASSUME FlowTypeOK PROVE ThumbnailIsWhole
  <1>1. placed # {} => \A s \in placed, axis \in {"x", "y"} : MarkIsInside(s, axis, scale, markScale)
    BY MarksAreInside
  <1> QED
    BY <1>1, LabelsAreTrue DEF ThumbnailIsWhole, SaysPart

(* A flow starts without steps.                                            *)
LEMMA FlowInitially == ASSUME FlowThumbnailInit PROVE FlowTypeOK
  BY DEF FlowThumbnailInit, FlowTypeOK

(* Saving a step or a connection keeps the flow one.                       *)
LEMMA SavedFlows == ASSUME FlowTypeOK, [FlowThumbnailNext]_thumbnailVars PROVE FlowTypeOK'
  <1>1. CASE UNCHANGED thumbnailVars
    BY <1>1 DEF thumbnailVars, FlowTypeOK, InFlow
  <1>2. ASSUME NEW s \in StepId, NEW place \in Placement \cup {NoStep}, StepSaved(s, place),
               UNCHANGED density
        PROVE  FlowTypeOK'
    <2>1. PICK edges \in SUBSET flow.edges :
              flow' = [place |-> [flow.place EXCEPT ![s] = place], edges |-> edges]
      BY <1>2 DEF StepSaved
    <2>2. density' \in {"card", "row"}
      BY <1>2 DEF FlowTypeOK
    <2> QED
      BY <2>1, <2>2 DEF FlowTypeOK, Placement
  <1>3. ASSUME NEW e \in Connections, EdgeSaved(e), UNCHANGED density
        PROVE  FlowTypeOK'
    <2>1. flow'.place = flow.place /\ flow'.edges \subseteq flow.edges \cup {e}
      BY <1>3 DEF EdgeSaved
    <2>2. e \in StepId \X StepId
      BY ThumbnailAssumption DEF StepId
    <2> QED
      BY <1>3, <2>1, <2>2 DEF FlowTypeOK
  <1> QED
    BY <1>1, <1>2, <1>3 DEF FlowThumbnailNext

(* The scenario and the flow are what a visit can make them.               *)
PicturesOK == scenario \in Scenario /\ FlowTypeOK

(* Both are drawn as they are.                                             *)
LEMMA VisitsDraw == PicturesOK => PicturesAreTrue
  BY OneStory, ThumbnailsAreWhole DEF PicturesOK, PicturesAreTrue

(* A visit starts with the default scenario and no flow.                   *)
LEMMA PicturesInitially == Init => PicturesOK
  <1> SUFFICES ASSUME Init PROVE PicturesOK
    OBVIOUS
  <1>1. scenario = Default
    BY Zenon DEF Init, ThroughputStart, ThroughputInit
  <1>2. Default \in Scenario
    <2>1. 20 \in 0..100 /\ 10 \in 1..24 /\ 35 \in Nat /\ 10 \in Nat
      OBVIOUS
    <2> QED
      BY <2>1, Zenon DEF Default, Scenario
  <1>3. FlowTypeOK
    BY FlowInitially, Zenon DEF Init, ThumbnailStart
  <1> QED
    BY <1>1, <1>2, <1>3, Zenon DEF PicturesOK

(* A visit to another page leaves the figures and the drawing alone.       *)
LEMMA VisitsKeepPictures == PicturesOK /\ [Next]_vars => PicturesOK'
  <1> SUFFICES ASSUME PicturesOK, [Next]_vars PROVE PicturesOK'
    OBVIOUS
  <1>1. [ThroughputNext]_throughputVars /\ [FlowThumbnailNext]_thumbnailVars
    BY Zenon DEF Next, Figures, vars, figureVars
  <1> QED
    BY <1>1, EditsKeepScenarios, SavedFlows DEF PicturesOK

(* Whatever the scenario, the figures of the throughput panel agree with   *)
(* one another; whatever the flow, the drawing of it on a card lies inside *)
(* and its words are true of it (PicturesAreTrue).                         *)
THEOREM PicturesAreTrueAlways == Spec => []PicturesAreTrue
  BY PicturesInitially, VisitsKeepPictures, VisitsDraw, PTL DEF Spec

-----------------------------------------------------------------------------
(* The two explainers of the public site (Explainers).                     *)

(* The steps a run of n stages can be at, with a person or without.        *)
FramesOf(n, escalating) ==
    {Frame("intake", 0, 0, FALSE, FALSE)}
    \cup {Frame("transit", j, j - 1, FALSE, FALSE) : j \in 1..n + 1}
    \cup {Frame("stage", j, j, FALSE, FALSE) : j \in 1..n}
    \cup {Frame("verdict", 0, n, FALSE, FALSE), Frame("emit", 0, n, TRUE, FALSE),
          Frame("rest", 0, n, TRUE, escalating)}
    \cup (IF escalating THEN {Frame("handover", 0, n, TRUE, TRUE)} ELSE {})

(* Sequences of one step and of three, and two put end to end.             *)
LEMMA SeqOfOne ==
    ASSUME NEW S, NEW x \in S PROVE <<x>> \in Seq(S) /\ Len(<<x>>) = 1
  OBVIOUS

(* Three steps in a row.                                                   *)
LEMMA SeqOfThree ==
    ASSUME NEW S, NEW x \in S, NEW y \in S, NEW z \in S
    PROVE  <<x, y, z>> \in Seq(S) /\ Len(<<x, y, z>>) = 3
  OBVIOUS

(* None at all.                                                            *)
LEMMA SeqOfNone ==
    ASSUME NEW S PROVE <<>> \in Seq(S) /\ Len(<<>>) = 0
  OBVIOUS

(* Two sequences of steps put end to end.                                  *)
LEMMA PutEndToEnd ==
    ASSUME NEW S, NEW p \in Seq(S), NEW q \in Seq(S)
    PROVE  p \o q \in Seq(S) /\ Len(p \o q) = Len(p) + Len(q) /\ Len(p) \in Nat /\ Len(q) \in Nat
  OBVIOUS

(* A sequence of some steps is one of more.                                *)
LEMMA SeqGrows ==
    ASSUME NEW S, NEW T, S \subseteq T, NEW p \in Seq(S) PROVE p \in Seq(T)
  <1>1. Len(p) \in Nat /\ p \in [1..Len(p) -> S]
    OBVIOUS
  <1>2. p \in [1..Len(p) -> T]
    BY <1>1
  <1> QED
    BY <1>1, <1>2

(* A cycle is made of the steps of its run, and of five at least.          *)
LEMMA CycleIsOfFrames ==
    ASSUME NEW n \in Nat, NEW escalating \in BOOLEAN
    PROVE  Cycle(n, escalating) \in Seq(FramesOf(n, escalating)) /\ Len(Cycle(n, escalating)) >= 5
  <1> DEFINE S == FramesOf(n, escalating)
             a == <<Frame("intake", 0, 0, FALSE, FALSE)>>
             b == [k \in 1..2 * n |->
                     IF k % 2 = 1 THEN Frame("transit", (k + 1) \div 2, k \div 2, FALSE, FALSE)
                     ELSE Frame("stage", k \div 2, k \div 2, FALSE, FALSE)]
             c == <<Frame("transit", n + 1, n, FALSE, FALSE),
                    Frame("verdict", 0, n, FALSE, FALSE), Frame("emit", 0, n, TRUE, FALSE)>>
             d == IF escalating THEN <<Frame("handover", 0, n, TRUE, TRUE)>> ELSE <<>>
             e == <<Frame("rest", 0, n, TRUE, escalating)>>
  <1>1. Cycle(n, escalating) = a \o b \o c \o d \o e
    BY DEF Cycle
  <1>2. /\ Frame("intake", 0, 0, FALSE, FALSE) \in S
        /\ \A j \in 1..n + 1 : Frame("transit", j, j - 1, FALSE, FALSE) \in S
        /\ \A j \in 1..n : Frame("stage", j, j, FALSE, FALSE) \in S
        /\ Frame("verdict", 0, n, FALSE, FALSE) \in S /\ Frame("emit", 0, n, TRUE, FALSE) \in S
        /\ Frame("rest", 0, n, TRUE, escalating) \in S
        /\ escalating => Frame("handover", 0, n, TRUE, TRUE) \in S
    BY Zenon DEF FramesOf
  <1> HIDE DEF S
  <1>3. a \in Seq(S) /\ Len(a) = 1
    BY <1>2, SeqOfOne, Zenon
  <1>4. b \in Seq(S) /\ Len(b) = 2 * n
    <2>1. ASSUME NEW k \in 1..2 * n PROVE b[k] \in S
      <3>1. CASE k % 2 = 1
        <4>1. (k + 1) \div 2 \in 1..n + 1 /\ k \div 2 = (k + 1) \div 2 - 1
          BY <3>1
        <4>2. b[k] = Frame("transit", (k + 1) \div 2, (k + 1) \div 2 - 1, FALSE, FALSE)
          BY <3>1, <4>1
        <4> QED
          BY <1>2, <4>1, <4>2, Zenon
      <3>2. CASE k % 2 # 1
        <4>1. k \div 2 \in 1..n
          BY <3>2
        <4>2. b[k] = Frame("stage", k \div 2, k \div 2, FALSE, FALSE)
          BY <3>2
        <4> QED
          BY <1>2, <4>1, <4>2, Zenon
      <3> QED
        BY <3>1, <3>2
    <2>2. b = [k \in 1..2 * n |-> b[k]]
      OBVIOUS
    <2> HIDE DEF b
    <2>3. b \in [1..2 * n -> S] /\ 2 * n \in Nat
      BY <2>1, <2>2
    <2> QED
      BY <2>3
  <1>5. c \in Seq(S) /\ Len(c) = 3
    <2>1. Frame("transit", n + 1, n, FALSE, FALSE) \in S
      <3>1. n + 1 \in 1..n + 1 /\ (n + 1) - 1 = n
        OBVIOUS
      <3> QED
        BY <1>2, <3>1
    <2> QED
      BY <1>2, <2>1, SeqOfThree, Zenon
  <1>6. d \in Seq(S) /\ Len(d) \in Nat
    <2>1. CASE escalating
      <3>1. d = <<Frame("handover", 0, n, TRUE, TRUE)>>
        BY <2>1
      <3>2. d \in Seq(S)
        BY <1>2, <2>1, <3>1, SeqOfOne, Zenon
      <3> HIDE DEF d
      <3> QED
        BY <3>2
    <2>2. CASE ~escalating
      <3>1. d = <<>>
        BY <2>2
      <3> HIDE DEF d
      <3> QED
        BY <3>1, SeqOfNone
    <2> QED
      BY <2>1, <2>2
  <1>7. e \in Seq(S) /\ Len(e) = 1
    BY <1>2, SeqOfOne, Zenon
  <1> HIDE DEF a, b, c, d, e
  <1> DEFINE ab == a \o b
             abc == ab \o c
             abcd == abc \o d
             abcde == abcd \o e
  <1>8. ab \in Seq(S) /\ Len(ab) = 1 + 2 * n
    BY <1>3, <1>4, PutEndToEnd
  <1> HIDE DEF ab
  <1>9. abc \in Seq(S) /\ Len(abc) = 4 + 2 * n
    <2>1. abc \in Seq(S) /\ Len(abc) = Len(ab) + Len(c)
      BY <1>8, <1>5, PutEndToEnd, Zenon
    <2> HIDE DEF abc
    <2> QED
      BY <1>8, <1>5, <2>1
  <1> HIDE DEF abc
  <1>10. abcd \in Seq(S) /\ Len(abcd) >= 4
    <2>1. abcd \in Seq(S) /\ Len(abcd) = Len(abc) + Len(d)
      BY <1>9, <1>6, PutEndToEnd, Zenon
    <2> HIDE DEF abcd
    <2> QED
      BY <1>9, <1>6, <2>1
  <1> HIDE DEF abcd
  <1>11. abcde \in Seq(S) /\ Len(abcde) >= 5
    <2>1. abcde \in Seq(S) /\ Len(abcde) = Len(abcd) + Len(e)
      BY <1>10, <1>7, PutEndToEnd, Zenon
    <2> HIDE DEF abcde
    <2> QED
      BY <1>10, <1>7, <2>1
  <1>12. abcde = Cycle(n, escalating)
    BY <1>1 DEF abcd, abc, ab
  <1> HIDE DEF abcde
  <1> QED
    BY <1>11, <1>12 DEF S

(* One sequence, or two, put end to end.                                   *)
LEMMA FlatOfOne == ASSUME NEW s PROVE FlattenSeq(<<s>>) = s
  <1> DEFINE q == <<s>>
  <1>1. Len(q) = 1 /\ q[1] = s
    OBVIOUS
  <1> HIDE DEF q
  <1> DEFINE Flat(g) == g = [i \in 1..Len(q) |-> IF i = 1 THEN q[i] ELSE g[i - 1] \o q[i]]
  <1>2. Flat([i \in 1..1 |-> s])
    BY <1>1
  <1>3. FlattenSeq(q) = (CHOOSE g : Flat(g))[Len(q)]
    BY <1>1 DEF FlattenSeq
  <1>4. PICK g : g = (CHOOSE h : Flat(h)) /\ Flat(g)
    BY <1>2
  <1>5. g[1] = s
    BY <1>1, <1>4
  <1> QED
    BY <1>1, <1>3, <1>4, <1>5 DEF q

(* Two put end to end.                                                     *)
LEMMA FlatOfTwo == ASSUME NEW s, NEW t PROVE FlattenSeq(<<s, t>>) = s \o t
  <1> DEFINE q == <<s, t>>
  <1>1. Len(q) = 2 /\ q[1] = s /\ q[2] = t
    OBVIOUS
  <1> HIDE DEF q
  <1> DEFINE Flat(g) == g = [i \in 1..Len(q) |-> IF i = 1 THEN q[i] ELSE g[i - 1] \o q[i]]
  <1> DEFINE w == [i \in 1..2 |-> IF i = 1 THEN s ELSE s \o t]
  <1>2. Flat(w)
    <2>1. w[1] = s /\ w[2] = s \o t
      OBVIOUS
    <2>2. \A i \in 1..2 : w[i] = IF i = 1 THEN q[i] ELSE w[i - 1] \o q[i]
      BY <1>1, <2>1
    <2>3. w = [i \in 1..2 |-> w[i]]
      OBVIOUS
    <2> HIDE DEF w
    <2>4. w = [i \in 1..2 |-> IF i = 1 THEN q[i] ELSE w[i - 1] \o q[i]]
      BY <2>2, <2>3
    <2> QED
      BY <1>1, <2>4
  <1> HIDE DEF w
  <1>3. FlattenSeq(q) = (CHOOSE g : Flat(g))[Len(q)]
    BY <1>1 DEF FlattenSeq
  <1>4. PICK g : g = (CHOOSE h : Flat(h)) /\ Flat(g)
    BY <1>2
  <1>5. g[1] = s /\ g[2] = g[1] \o t
    <2>1. 1 \in 1..Len(q) /\ 2 \in 1..Len(q) /\ 2 # 1 /\ 2 - 1 = 1
      BY <1>1
    <2>2. g[1] = q[1] /\ g[2] = g[2 - 1] \o q[2]
      BY <1>4, <2>1, Zenon
    <2> QED
      BY <1>1, <2>1, <2>2, Zenon
  <1> QED
    BY <1>1, <1>3, <1>4, <1>5 DEF q

(* The cycles of an entry, one by one.                                     *)
LEMMA OneMapped ==
    ASSUME NEW n, NEW a, NEW c, c = <<a>>
    PROVE  [i \in DOMAIN c |-> Cycle(n, c[i])] = <<Cycle(n, a)>>
  <1> DEFINE x == Cycle(n, a)
  <1>1. Cycle(n, c[1]) = x
    OBVIOUS
  <1> HIDE DEF x
  <1>2. [i \in DOMAIN c |-> Cycle(n, c[i])] = [i \in 1..1 |-> x]
    <2>1. DOMAIN c = 1..1 /\ \A i \in 1..1 : i = 1
      OBVIOUS
    <2> QED
      BY <1>1, <2>1, Zenon
  <1>3. [i \in 1..1 |-> x] = <<x>>
    OBVIOUS
  <1> QED
    BY <1>2, <1>3 DEF x

(* Two cycles, one by one.                                                 *)
LEMMA TwoMapped ==
    ASSUME NEW n, NEW a, NEW b, NEW c, c = <<a, b>>
    PROVE  [i \in DOMAIN c |-> Cycle(n, c[i])] = <<Cycle(n, a), Cycle(n, b)>>
  <1> DEFINE x == Cycle(n, a)
             y == Cycle(n, b)
             f == [i \in DOMAIN c |-> Cycle(n, c[i])]
  <1>1. DOMAIN c = 1..2 /\ c[1] = a /\ c[2] = b /\ 1 \in 1..2 /\ 2 \in 1..2
    OBVIOUS
  <1>2. f[1] = x /\ f[2] = y
    BY <1>1, Zenon
  <1>3. f = [i \in 1..2 |-> f[i]]
    BY <1>1, Zenon
  <1> HIDE DEF f, x, y
  <1>4. f = <<x, y>>
    BY <1>2, <1>3
  <1> QED
    BY <1>4 DEF f, x, y

(* The stages drawn and the stages hidden are all there are.               *)
LEMMA StagesFacts ==
    ASSUME NEW e \in Entry
    PROVE  /\ stagesFor(e) \in Nat /\ e.models + e.codes \in Nat
           /\ Hidden(e) = (e.models + e.codes) - stagesFor(e)
  BY ExplainersAssumption DEF stagesFor, Hidden

(* What a beat can draw of an entry.                                       *)
LEMMA FramesOfAnEntry ==
    ASSUME NEW e \in Entry
    PROVE  /\ framesFor(e) \in Seq(FramesOf(stagesFor(e), FALSE) \cup FramesOf(stagesFor(e), TRUE))
           /\ Len(framesFor(e)) >= 5
           /\ e.escalates = "never" => framesFor(e) \in Seq(FramesOf(stagesFor(e), FALSE))
           /\ e.escalates = "always" => framesFor(e) \in Seq(FramesOf(stagesFor(e), TRUE))
  <1> DEFINE n == stagesFor(e)
             no == Cycle(n, FALSE)
             yes == Cycle(n, TRUE)
             N == FramesOf(n, FALSE)
             Y == FramesOf(n, TRUE)
             turns == [i \in DOMAIN cycles(e) |-> Cycle(n, cycles(e)[i])]
  <1>1. no \in Seq(N) /\ Len(no) >= 5 /\ yes \in Seq(Y) /\ Len(yes) >= 5
    BY StagesFacts, CycleIsOfFrames
  <1>2. e.escalates \in {"never", "sometimes", "always"}
    BY ExplainersAssumption, Zenon
  <1>3. framesFor(e) = FlattenSeq(turns)
    BY DEF framesFor
  <1>4. CASE e.escalates = "never"
    <2>1. cycles(e) = <<FALSE>>
      BY <1>4 DEF cycles, alwaysEscalates
    <2>2. turns = <<no>>
      BY <2>1, OneMapped, Zenon
    <2> HIDE DEF turns, no, N, Y
    <2>3. framesFor(e) = no
      BY <1>3, <2>2, FlatOfOne
    <2>4. no \in Seq(N \cup Y)
      BY <1>1, SeqGrows
    <2>5. no \in Seq(N \cup Y) /\ no \in Seq(N) /\ Len(no) >= 5 /\ e.escalates # "always"
      BY <1>1, <1>4, <2>4
    <2> QED
      BY <2>3, <2>5, Zenon DEF N, Y
  <1>5. CASE e.escalates = "always"
    <2>1. cycles(e) = <<TRUE>>
      BY <1>5 DEF cycles, alwaysEscalates
    <2>2. turns = <<yes>>
      BY <2>1, OneMapped, Zenon
    <2> HIDE DEF turns, yes, N, Y
    <2>3. framesFor(e) = yes
      BY <1>3, <2>2, FlatOfOne
    <2>4. yes \in Seq(N \cup Y)
      BY <1>1, SeqGrows
    <2>5. yes \in Seq(N \cup Y) /\ yes \in Seq(Y) /\ Len(yes) >= 5 /\ e.escalates # "never"
      BY <1>1, <1>5, <2>4
    <2> QED
      BY <2>3, <2>5, Zenon DEF N, Y
  <1>6. CASE e.escalates = "sometimes"
    <2>1. cycles(e) = <<FALSE, TRUE>>
      BY <1>6 DEF cycles, alwaysEscalates
    <2>2. turns = <<no, yes>>
      BY <2>1, TwoMapped, Zenon
    <2> HIDE DEF turns, yes, no, N, Y
    <2>3. framesFor(e) = no \o yes
      BY <1>3, <2>2, FlatOfTwo
    <2>4. no \in Seq(N \cup Y) /\ yes \in Seq(N \cup Y)
      BY <1>1
    <2>5. no \o yes \in Seq(N \cup Y) /\ Len(no \o yes) >= 5
      BY <1>1, <2>4, PutEndToEnd
    <2>6. e.escalates # "never" /\ e.escalates # "always"
      BY <1>6
    <2> QED
      BY <2>3, <2>5, <2>6, Zenon DEF N, Y
  <1> QED
    BY <1>2, <1>4, <1>5, <1>6

-----------------------------------------------------------------------------
(* What a step of a run draws.                                             *)
DrawsARun(fr, n) ==
    /\ fr.done \in 0..n
    /\ fr.person => fr.returns
    /\ fr.returns => fr.done = n /\ fr.at # "transit"
    /\ fr.at = "stage" => fr.index \in 1..n /\ fr.done = fr.index
    /\ fr.at = "transit" => fr.index \in 1..n + 1 /\ fr.done = fr.index - 1

(* Every step of a run draws one.                                          *)
LEMMA FramesDraw ==
    ASSUME NEW n \in Nat, NEW escalating \in BOOLEAN, NEW fr \in FramesOf(n, escalating)
    PROVE  /\ DrawsARun(fr, n)
           /\ ~escalating => ~fr.person
           /\ escalating /\ fr.at = "rest" => fr.person
  <1> DEFINE FrameIs(place, index, done, returns, person) ==
               /\ fr.at = place /\ fr.index = index /\ fr.done = done
               /\ fr.returns = returns /\ fr.person = person
  <1>1. \/ FrameIs("intake", 0, 0, FALSE, FALSE)
        \/ \E j \in 1..n + 1 : FrameIs("transit", j, j - 1, FALSE, FALSE)
        \/ \E j \in 1..n : FrameIs("stage", j, j, FALSE, FALSE)
        \/ FrameIs("verdict", 0, n, FALSE, FALSE) \/ FrameIs("emit", 0, n, TRUE, FALSE)
        \/ FrameIs("rest", 0, n, TRUE, escalating)
        \/ escalating /\ FrameIs("handover", 0, n, TRUE, TRUE)
    <2>1. \/ fr = Frame("intake", 0, 0, FALSE, FALSE)
          \/ \E j \in 1..n + 1 : fr = Frame("transit", j, j - 1, FALSE, FALSE)
          \/ \E j \in 1..n : fr = Frame("stage", j, j, FALSE, FALSE)
          \/ fr = Frame("verdict", 0, n, FALSE, FALSE) \/ fr = Frame("emit", 0, n, TRUE, FALSE)
          \/ fr = Frame("rest", 0, n, TRUE, escalating)
          \/ escalating /\ fr = Frame("handover", 0, n, TRUE, TRUE)
      BY Zenon DEF FramesOf
    <2>2. CASE fr = Frame("intake", 0, 0, FALSE, FALSE)
      BY <2>2, Zenon DEF Frame
    <2>3. CASE \E j \in 1..n + 1 : fr = Frame("transit", j, j - 1, FALSE, FALSE)
      <3>1. PICK j \in 1..n + 1 : fr = Frame("transit", j, j - 1, FALSE, FALSE)
        BY <2>3
      <3>2. FrameIs("transit", j, j - 1, FALSE, FALSE)
        BY <3>1, Zenon DEF Frame
      <3> QED
        BY <3>2
    <2>4. CASE \E j \in 1..n : fr = Frame("stage", j, j, FALSE, FALSE)
      <3>1. PICK j \in 1..n : fr = Frame("stage", j, j, FALSE, FALSE)
        BY <2>4
      <3>2. FrameIs("stage", j, j, FALSE, FALSE)
        BY <3>1, Zenon DEF Frame
      <3> QED
        BY <3>2
    <2>5. CASE fr = Frame("verdict", 0, n, FALSE, FALSE)
      BY <2>5, Zenon DEF Frame
    <2>6. CASE fr = Frame("emit", 0, n, TRUE, FALSE)
      BY <2>6, Zenon DEF Frame
    <2>7. CASE fr = Frame("rest", 0, n, TRUE, escalating)
      BY <2>7, Zenon DEF Frame
    <2>8. CASE escalating /\ fr = Frame("handover", 0, n, TRUE, TRUE)
      BY <2>8, Zenon DEF Frame
    <2> QED
      BY <2>1, <2>2, <2>3, <2>4, <2>5, <2>6, <2>7, <2>8
  <1> QED
    BY <1>1 DEF DrawsARun

(* The members of a sequence.                                              *)
LEMMA MembersOf ==
    ASSUME NEW S, NEW p \in Seq(S)
    PROVE  Len(p) \in Nat /\ \A i \in 1..Len(p) : p[i] \in S
  OBVIOUS

(* Each beat of an entry has its step.                                     *)
LEMMA BeatsOfAnEntry ==
    ASSUME NEW e \in Entry
    PROVE  /\ Len(framesFor(e)) \in Nat /\ Len(framesFor(e)) >= 5
           /\ \A b \in 1..Len(framesFor(e)) :
                 /\ framesFor(e)[b] \in FramesOf(stagesFor(e), FALSE) \cup FramesOf(stagesFor(e), TRUE)
                 /\ e.escalates = "never" => framesFor(e)[b] \in FramesOf(stagesFor(e), FALSE)
                 /\ e.escalates = "always" => framesFor(e)[b] \in FramesOf(stagesFor(e), TRUE)
  BY FramesOfAnEntry, MembersOf, Zenon

(* What the pipeline draws, and the run it is drawn of.                    *)
PipelineOK ==
    /\ entry \in Entry /\ beat \in 0..Len(framesFor(entry))
    /\ beatTimer \in BOOLEAN /\ offScreen \in BOOLEAN /\ wanted \in BOOLEAN /\ stillness \in BOOLEAN
    /\ beatTimer => pipelineRan.playing /\ pipelineRan.beat = beat
    /\ pipelineRan.playing /\ pipelineRan.beat = beat => beatTimer
    /\ pipelineRan.playing => ~pipelineRan.still
    /\ pipelineRan.still => beat = 0

(* The frame drawn is none, or a step of a run the entry can have.         *)
LEMMA FrameOfABeat ==
    ASSUME entry \in Entry, beat \in 0..Len(framesFor(entry))
    PROVE  /\ DrawsARun(frame, stagesFor(entry))
           /\ entry.escalates = "never" => ~frame.person
           /\ entry.escalates = "always" /\ frame.at = "rest" => frame.person
  <1> DEFINE n == stagesFor(entry)
  <1>1. n \in Nat
    BY StagesFacts
  <1>2. CASE beat = 0
    <2>1. frame = Frame("nowhere", 0, 0, FALSE, FALSE)
      BY <1>2 DEF frame, Still
    <2>2. frame.at = "nowhere" /\ frame.done = 0 /\ ~frame.returns /\ ~frame.person
      BY <2>1, Zenon DEF Frame
    <2> QED
      BY <1>1, <2>2 DEF DrawsARun
  <1>3. CASE beat # 0
    <2>1. frame = framesFor(entry)[beat] /\ beat \in 1..Len(framesFor(entry))
      BY <1>3, BeatsOfAnEntry DEF frame
    <2>2. frame \in FramesOf(n, FALSE) \cup FramesOf(n, TRUE)
      BY <2>1, BeatsOfAnEntry, Zenon
    <2>3. entry.escalates = "never" => frame \in FramesOf(n, FALSE)
      BY <2>1, BeatsOfAnEntry, Zenon
    <2>4. entry.escalates = "always" => frame \in FramesOf(n, TRUE)
      BY <2>1, BeatsOfAnEntry, Zenon
    <2>5. DrawsARun(frame, n)
      BY <1>1, <2>2, FramesDraw
    <2>6. entry.escalates = "never" => ~frame.person
      BY <1>1, <2>3, FramesDraw
    <2>7. entry.escalates = "always" /\ frame.at = "rest" => frame.person
      BY <1>1, <2>4, FramesDraw
    <2> QED
      BY <2>5, <2>6, <2>7
  <1> QED
    BY <1>2, <1>3

(* Then the pipeline plays a run the agent can have.                       *)
LEMMA PipelinesPlay == ASSUME PipelineOK PROVE PipelinePlaysARun
  <1> DEFINE n == stagesFor(entry)
  <1>1. entry \in Entry /\ beat \in 0..Len(framesFor(entry))
    BY DEF PipelineOK
  <1>2. /\ n \in Nat /\ entry.models + entry.codes \in Nat
        /\ Hidden(entry) = (entry.models + entry.codes) - n
    BY <1>1, StagesFacts
  <1>3. /\ DrawsARun(frame, n)
        /\ entry.escalates = "never" => ~frame.person
        /\ entry.escalates = "always" /\ frame.at = "rest" => frame.person
    BY <1>1, FrameOfABeat
  <1>4. ("person" \in ExitsTaken <=> frame.person) /\ (ColumnLit("produces") <=> frame.returns)
    BY DEF ExitsTaken, ColumnLit
  <1>5. "person" \in ExitsTaken => ColumnLit("produces") /\ entry.escalates # "never"
    BY <1>3, <1>4, Zenon DEF DrawsARun
  <1>6. frame.at = "rest" /\ entry.escalates = "always" => "person" \in ExitsTaken
    BY <1>3, <1>4, Zenon
  <1>7. ASSUME NEW i \in 1..n, PillLive(i) \/ PillPassed(i)
        PROVE  PillPassed(i) /\ \A j \in 1..i : ConnectorPassed(j)
    <2>1. i <= frame.done /\ frame.done \in 0..n
      BY <1>2, <1>3, <1>7 DEF DrawsARun, PillLive, PillPassed
    <2> QED
      BY <1>2, <2>1 DEF PillPassed, ConnectorPassed, LastConnector
  <1>8. ASSUME NEW i \in 1..n + 1, ConnectorLive(i)
        PROVE  ~ConnectorPassed(i) /\ \A j \in 1..i - 1 : ConnectorPassed(j) /\ PillPassed(j)
    <2>1. frame.at = "transit" /\ frame.done = i - 1 /\ frame.index = i
      BY <1>3, <1>8 DEF ConnectorLive, DrawsARun
    <2>2. ~frame.returns
      BY <1>3, <2>1, Zenon DEF DrawsARun
    <2> HIDE DEF n
    <2>3. LastConnector = n + 1
      BY DEF LastConnector, n
    <2>4. frame.at # "verdict"
      BY <2>1
    <2>5. ~ConnectorPassed(i)
      BY <1>2, <2>1, <2>2, <2>3, <2>4 DEF ConnectorPassed
    <2>6. \A j \in 1..i - 1 : j # n + 1 /\ j <= frame.done
      BY <1>2, <2>1
    <2> QED
      BY <2>3, <2>5, <2>6, Zenon DEF ConnectorPassed, PillPassed
  <1>9. ASSUME ColumnLit("produces")
        PROVE  Cardinality({i \in 1..n : PillPassed(i)}) + Hidden(entry) = entry.models + entry.codes
    <2>1. frame.done = n
      BY <1>3, <1>4, <1>9, Zenon DEF DrawsARun
    <2>2. {i \in 1..n : PillPassed(i)} = 1..n
      BY <1>2, <2>1 DEF PillPassed
    <2>3. Cardinality(1..n) = n
      BY <1>2, FS_Interval
    <2>4. Cardinality({i \in 1..n : PillPassed(i)}) = n
      BY <2>2, <2>3, Zenon
    <2> DEFINE drawn == Cardinality({i \in 1..n : PillPassed(i)})
    <2>5. drawn = n
      BY <2>4, Zenon
    <2> DEFINE all == entry.models + entry.codes
               rest == Hidden(entry)
    <2>6. n \in Nat /\ all \in Nat /\ rest = all - n
      BY <1>2, Zenon
    <2> HIDE DEF n, drawn, all, rest
    <2>7. drawn + rest = all
      BY <2>5, <2>6
    <2> QED
      BY <2>7, Zenon DEF drawn, n, all, rest
  <1>10. ~PipelineDue => beatTimer = playing /\ (stillness => beat = 0)
    <2> SUFFICES ASSUME pipelineRan = Rendered PROVE beatTimer = playing /\ (stillness => beat = 0)
      BY DEF PipelineDue
    <2>1. pipelineRan.playing = playing /\ pipelineRan.beat = beat /\ pipelineRan.still = stillness
      BY Zenon DEF Rendered
    <2> QED
      BY <2>1, Zenon DEF PipelineOK, playing
  <1> HIDE DEF n
  <1> QED
    BY <1>5, <1>6, <1>7, <1>8, <1>9, <1>10, Zenon DEF PipelinePlaysARun, alwaysEscalates, LastConnector, n

(* It starts before its first cycle.                                       *)
LEMMA PipelineStarts == ASSUME PipelineInit PROVE PipelineOK
  <1>1. pipelineRan.playing = FALSE /\ pipelineRan.still = FALSE
    BY Zenon DEF PipelineInit
  <1>2. entry \in Entry /\ beat = 0 /\ Len(framesFor(entry)) >= 5 /\ Len(framesFor(entry)) \in Nat
    BY BeatsOfAnEntry DEF PipelineInit
  <1>3. beat \in 0..Len(framesFor(entry))
    BY <1>2
  <1> QED
    BY <1>1, <1>2, <1>3, Zenon DEF PipelineOK, PipelineInit

(* Effects, beats and changes of what the reader wants keep it.            *)
LEMMA PipelineKeeps == ASSUME PipelineOK, [PipelineNext]_pipelineVars PROVE PipelineOK'
  <1> DEFINE len == Len(framesFor(entry))
  <1>1. len \in Nat /\ len >= 5 /\ beat \in 0..len
    BY BeatsOfAnEntry DEF PipelineOK
  <1>2. CASE UNCHANGED pipelineVars
    <2>1. UNCHANGED frame /\ entry' = entry /\ framesFor(entry)' = framesFor(entry)
      BY <1>2 DEF pipelineVars, frame, Still
    <2> QED
      BY <1>2, <2>1, Zenon DEF pipelineVars, PipelineOK
  <1>3. CASE PipelineEffects
    <2>1. pipelineRan'.playing = playing /\ pipelineRan'.beat = beat /\ pipelineRan'.still = stillness
      BY <1>3, Zenon DEF PipelineEffects, Rendered
    <2>2. beat' = (IF stillness /\ ~pipelineRan.still THEN 0 ELSE beat) /\ beatTimer' = playing
          /\ UNCHANGED <<entry, offScreen, wanted, stillness>>
      BY <1>3, Zenon DEF PipelineEffects
    <2>3. beat' \in 0..len /\ framesFor(entry)' = framesFor(entry)
      BY <1>1, <2>2
    <2>4. playing \in BOOLEAN /\ (playing => ~stillness)
      BY DEF playing, PipelineOK
    <2>5. stillness => beat' = 0
      BY <2>2, Zenon DEF PipelineOK
    <2>6. ~stillness => beat' = beat
      BY <2>2
    <2> HIDE DEF len
    <2>7. beat' \in 0..Len(framesFor(entry))'
      BY <2>2, <2>3, Zenon DEF len
    <2> QED
      BY <2>1, <2>2, <2>4, <2>5, <2>6, <2>7, Zenon DEF PipelineOK
  <1>4. CASE BeatEnds
    <2>1. /\ beatTimer /\ beatTimer' = FALSE /\ beat' = (beat % len) + 1
          /\ UNCHANGED <<entry, offScreen, wanted, stillness, pipelineRan>>
      BY <1>4, Zenon DEF BeatEnds
    <2>2. pipelineRan.playing /\ pipelineRan.beat = beat /\ ~pipelineRan.still
      BY <2>1, Zenon DEF PipelineOK
    <2>3. beat' \in 0..len /\ beat' # beat /\ framesFor(entry)' = framesFor(entry)
      <3> HIDE DEF len
      <3>1. beat % len \in 0..len - 1 /\ (beat < len => beat % len = beat) /\ (beat = len => beat % len = 0)
        BY <1>1
      <3>2. beat' = (beat % len) + 1
        BY <2>1
      <3> QED
        BY <1>1, <2>1, <3>1, <3>2
    <2> HIDE DEF len
    <2>4. beat' \in 0..Len(framesFor(entry))'
      BY <2>1, <2>3, Zenon DEF len
    <2> QED
      BY <2>1, <2>2, <2>3, <2>4, Zenon DEF PipelineOK
  <1>5. CASE PipelineSees
    <2>1. offScreen' \in BOOLEAN /\ wanted' \in BOOLEAN /\ stillness' \in BOOLEAN
      BY <1>5 DEF PipelineSees, PipelineOK
    <2>2. UNCHANGED <<entry, beat, beatTimer, pipelineRan>>
      BY <1>5 DEF PipelineSees
    <2>3. beat' \in 0..Len(framesFor(entry))'
      BY <2>2, <1>1
    <2> QED
      BY <2>1, <2>2, <2>3, Zenon DEF PipelineOK
  <1> QED
    BY <1>2, <1>3, <1>4, <1>5 DEF PipelineNext

(* What is behind the reveal of a recorded run: while it is hidden its     *)
(* stages are watched or have arrived, and either the observer spoke or    *)
(* the fallback is still to come.                                          *)
RevealTypeOK ==
    /\ armed \in BOOLEAN /\ heard \in BOOLEAN /\ fallback \in BOOLEAN
    /\ observing \subseteq Stage /\ arrived \subseteq Stage /\ inView \subseteq Stage
    /\ told \in [Stage -> {"nothing", "in", "out"}] /\ delay \in [Stage -> Nat]

HiddenIsWatched ==
    /\ armedRan = "unmounted" => ~armed
    /\ heard => observer = "works"
    /\ armed /\ armedRan = "yes" => Stage \subseteq observing \cup arrived /\ (fallback \/ heard)
    /\ \A s \in observing : told[s] # "in"

DelaysFollow == \A s \in arrived : delay[s] = 0 \/ \E q \in arrived : q < s /\ delay[q] = delay[s] - 1

RevealOK == RevealTypeOK /\ HiddenIsWatched /\ DelaysFollow

(* Then nothing the reader looks at stays hidden.                          *)
LEMMA RevealsShow == ASSUME RevealOK PROVE NothingStaysHidden
  <1>1. ASSUME ~ArmedDue, ~fallback, observer = "works" => Unsaid = {}, NEW s \in inView, armed,
               s \notin arrived
        PROVE  FALSE
    <2>1. armedRan = "yes"
      BY <1>1 DEF ArmedDue, RevealOK, HiddenIsWatched
    <2>2. heard /\ Stage \subseteq observing \cup arrived
      BY <1>1, <2>1 DEF RevealOK, HiddenIsWatched
    <2>3. Unsaid = {}
      BY <1>1, <2>2 DEF RevealOK, HiddenIsWatched
    <2>4. s \in observing /\ told[s] # "in"
      BY <1>1, <2>2 DEF RevealOK, HiddenIsWatched, RevealTypeOK
    <2>5. s \in Unsaid
      BY <1>1, <2>4 DEF Unsaid, Saying
    <2> QED
      BY <2>3, <2>5
  <1>2. ~ArmedDue /\ ~fallback /\ (observer = "works" => Unsaid = {}) => \A s \in inView : Shown(s)
    BY <1>1 DEF Shown
  <1> QED
    BY <1>2 DEF NothingStaysHidden, RevealOK, DelaysFollow

(* The recorded run starts drawn whole.                                    *)
LEMMA RevealStarts == ASSUME RevealInit PROVE RevealOK
  BY DEF RevealInit, RevealOK, RevealTypeOK, HiddenIsWatched, DelaysFollow

(* A batch is put off stage by stage: one behind the stage before it.      *)
LEMMA BatchesFollow ==
    ASSUME NEW new \in SUBSET Stage, NEW s \in new
    PROVE  /\ Cardinality({q \in new : q < s}) \in Nat
           /\ \/ Cardinality({q \in new : q < s}) = 0
              \/ \E q \in new : /\ q < s
                                /\ Cardinality({r \in new : r < q}) = Cardinality({r \in new : r < s}) - 1
  <1> DEFINE before == {q \in new : q < s}
  <1>1. Stage \subseteq Int /\ IsFiniteSet(Stage)
    BY FS_Interval, ExplainersAssumption DEF Stage
  <1>2. IsFiniteSet(before) /\ before \in SUBSET Int
    BY <1>1, FS_Subset
  <1>3. Cardinality(before) \in Nat
    BY <1>2, FS_CardinalityType
  <1>4. CASE before = {}
    BY <1>4, FS_EmptySet
  <1>5. CASE before # {}
    <2>1. PICK q \in before : \A k \in before : (-1) * q <= (-1) * k
      BY <1>2, <1>5, FiniteHasEnds
    <2>2. \A k \in before : k <= q
      BY <1>2, <2>1
    <2>3. {r \in new : r < q} = before \ {q}
      <3>1. q \in Int /\ s \in Int /\ q < s /\ new \subseteq Int
        BY <1>1
      <3>2. ASSUME NEW r \in new PROVE r < q <=> r < s /\ r # q
        <4>1. r < s => r <= q
          BY <2>2
        <4> QED
          BY <3>1, <4>1
      <3> QED
        BY <3>2
    <2>4. Cardinality(before \ {q}) = Cardinality(before) - 1
      BY <1>2, FS_RemoveElement
    <2> QED
      BY <1>3, <2>3, <2>4
  <1> QED
    BY <1>3, <1>4, <1>5

(* What the observer says in one batch keeps it.                           *)
LEMMA ObserversSpeak == ASSUME RevealOK, ObserverSpeaks PROVE RevealOK'
  <1> DEFINE batch == Unsaid \cap inView
             new == batch \ arrived
             wait(s) == Cardinality({q \in new : q < s})
  <1>1. /\ observer = "works" /\ heard' = TRUE
        /\ told' = [s \in Stage |-> IF s \in Unsaid THEN Saying(s) ELSE told[s]]
        /\ observing' = observing \ batch /\ arrived' = arrived \cup batch
        /\ delay' = [s \in Stage |-> IF s \in new THEN wait(s) ELSE delay[s]]
        /\ UNCHANGED <<observer, calm, listens, armed, armedRan, inView, fallback>>
    BY DEF ObserverSpeaks
  <1>2. Unsaid \subseteq observing /\ observing \subseteq Stage /\ arrived \subseteq Stage
        /\ new \in SUBSET Stage
    BY DEF Unsaid, RevealOK, RevealTypeOK
  <1>3. \A s \in new : /\ wait(s) \in Nat
                       /\ wait(s) = 0 \/ \E q \in new : q < s /\ wait(q) = wait(s) - 1
    BY <1>2, BatchesFollow
  <1>4. \A s \in Stage : Saying(s) \in {"in", "out"} /\ (s \notin inView => Saying(s) = "out")
    BY DEF Saying
  <1> HIDE DEF wait
  <1>5. RevealTypeOK'
    <2>1. told' \in [Stage -> {"nothing", "in", "out"}]
      BY <1>1, <1>4 DEF RevealOK, RevealTypeOK
    <2>2. delay' \in [Stage -> Nat]
      BY <1>1, <1>3 DEF RevealOK, RevealTypeOK
    <2>3. observing' \subseteq Stage /\ arrived' \subseteq Stage
      BY <1>1, <1>2
    <2> HIDE DEF batch
    <2> QED
      BY <1>1, <2>1, <2>2, <2>3 DEF RevealOK, RevealTypeOK
  <1>6. HiddenIsWatched'
    <2>1. observing' \cup arrived' = observing \cup arrived
      BY <1>1, <1>2
    <2>2. \A s \in observing' : told'[s] # "in"
      <3> SUFFICES ASSUME NEW s \in observing' PROVE told'[s] # "in"
        OBVIOUS
      <3>1. s \in observing /\ s \in Stage /\ (s \in Unsaid => s \notin inView)
        BY <1>1, <1>2
      <3>2. told'[s] = IF s \in Unsaid THEN Saying(s) ELSE told[s]
        BY <1>1, <3>1
      <3>3. told[s] # "in"
        BY <3>1 DEF RevealOK, HiddenIsWatched
      <3> QED
        BY <1>4, <3>1, <3>2, <3>3
    <2> HIDE DEF batch
    <2> QED
      BY <1>1, <2>1, <2>2 DEF RevealOK, HiddenIsWatched
  <1>7. DelaysFollow'
    <2> SUFFICES ASSUME NEW s \in arrived'
                 PROVE  delay'[s] = 0 \/ \E q \in arrived' : q < s /\ delay'[q] = delay'[s] - 1
      BY DEF DelaysFollow
    <2>1. CASE s \in new
      <3>1. \A q \in new : q \in arrived' /\ delay'[q] = wait(q)
        BY <1>1, <1>2
      <3> HIDE DEF new
      <3> QED
        BY <1>3, <2>1, <3>1
    <2>2. CASE s \notin new
      <3>1. s \in arrived
        BY <1>1, <2>2
      <3>2. \A q \in arrived : q \in arrived' /\ delay'[q] = delay[q]
        BY <1>1, <1>2
      <3> HIDE DEF new
      <3> QED
        BY <3>1, <3>2 DEF RevealOK, DelaysFollow
    <2> QED
      BY <2>1, <2>2
  <1> QED
    BY <1>5, <1>6, <1>7 DEF RevealOK

(* So does every step of the reveal.                                       *)
LEMMA RevealKeeps == ASSUME RevealOK, [RevealNext]_revealVars PROVE RevealOK'
  <1>1. CASE UNCHANGED revealVars
    BY <1>1 DEF revealVars, RevealOK, RevealTypeOK, HiddenIsWatched, DelaysFollow
  <1>2. CASE FlowMounts
    <2>1. armed' \in BOOLEAN
      BY <1>2 DEF FlowMounts
    <2> QED
      BY <1>2, <2>1 DEF FlowMounts, RevealOK, RevealTypeOK, HiddenIsWatched, DelaysFollow
  <1>3. CASE ArmedEffect
    <2>1. RevealTypeOK'
      BY <1>3 DEF ArmedEffect, RevealOK, RevealTypeOK
    <2>2. HiddenIsWatched'
      <3>1. armedRan' # "unmounted" /\ heard' = FALSE /\ fallback' = armed /\ armed' = armed
        BY <1>3 DEF ArmedEffect
      <3>2. armed => observing' = Stage
        BY <1>3 DEF ArmedEffect
      <3>3. \A s \in Stage : told'[s] = "nothing"
        BY <1>3 DEF ArmedEffect
      <3> QED
        BY <2>1, <3>1, <3>2, <3>3 DEF HiddenIsWatched, RevealTypeOK
    <2>3. DelaysFollow'
      BY <1>3 DEF ArmedEffect, RevealOK, DelaysFollow
    <2> QED
      BY <2>1, <2>2, <2>3 DEF RevealOK
  <1>4. CASE ObserverSpeaks
    BY <1>4, ObserversSpeak
  <1>5. CASE Scrolls
    <2>1. inView' \subseteq Stage
      <3>1. \A w \in Windows : w \subseteq Stage
        BY ExplainersAssumption DEF Windows, Stage
      <3> QED
        BY <1>5, <3>1 DEF Scrolls
    <2> QED
      BY <1>5, <2>1 DEF Scrolls, RevealOK, RevealTypeOK, HiddenIsWatched, DelaysFollow
  <1>6. CASE FallbackFires
    BY <1>6 DEF FallbackFires, RevealOK, RevealTypeOK, HiddenIsWatched, DelaysFollow
  <1>7. CASE MotionWish
    <2>1. armed' \in BOOLEAN /\ (armed' => armed)
      BY <1>7 DEF MotionWish, RevealOK, RevealTypeOK
    <2> QED
      BY <1>7, <2>1 DEF MotionWish, RevealOK, RevealTypeOK, HiddenIsWatched, DelaysFollow
  <1> QED
    BY <1>1, <1>2, <1>3, <1>4, <1>5, <1>6, <1>7 DEF RevealNext

(* Both explainers, on whatever page the visit is.                         *)
ExplainersOK == PipelineOK /\ RevealOK

(* Both start as they should.                                              *)
LEMMA ExplainersInitially == Init => ExplainersOK
  BY PipelineStarts, RevealStarts, Zenon DEF Init, PipelineStart, RevealStart, ExplainersOK

(* A visit to another page leaves them alone.                              *)
LEMMA VisitsKeepExplainers == ExplainersOK /\ [Next]_vars => ExplainersOK'
  <1> SUFFICES ASSUME ExplainersOK, [Next]_vars PROVE ExplainersOK'
    OBVIOUS
  <1>1. [PipelineNext]_pipelineVars /\ [RevealNext]_revealVars
    BY Zenon DEF Next, Site, siteVars, vars, explainerVars
  <1> QED
    BY <1>1, PipelineKeeps, RevealKeeps DEF ExplainersOK

(* Then both play.                                                         *)
LEMMA ExplainersOKPlay == ExplainersOK => ExplainersPlay
  BY PipelinesPlay, RevealsShow DEF ExplainersOK, ExplainersPlay

(* Neither explainer stalls, hides what it shows or tells a run that the   *)
(* agent cannot have, whatever the catalogue entry, the length of the      *)
(* recorded run and the browser (ExplainersPlay).                          *)
THEOREM ExplainersPlayAlways == Spec => []ExplainersPlay
  BY ExplainersInitially, VisitsKeepExplainers, ExplainersOKPlay, PTL DEF Spec
=============================================================================
