------------------------------- MODULE SiteHeader -------------------------------
(***************************************************************************)
(* The header of the public site (SiteHeader.tsx): the menu of agents that *)
(* opens under a pointer or the keyboard, and closes a moment after the    *)
(* pointer has left, so that it can cross the gap between the trigger and  *)
(* the panel; and the navigation of a phone.                               *)
(***************************************************************************)
CONSTANTS Paths,  \* pages of the site
          Hand    \* kinds of pointer: "slow", or "quick" over the gap

VARIABLES hand, sitePath,
          menuOpen,
          closeTimer,        \* whether the delayed close is set
          mobile, agentsOpen,
          pointer,           \* "away", or over the "trigger" or the "panel"
          focus              \* "out", or on the "trigger" or in the "panel"

siteHeaderVars == <<hand, sitePath, menuOpen, closeTimer, mobile, agentsOpen, pointer, focus>>

-----------------------------------------------------------------------------
(* Mutant: opening leaves a pending close in place. *)
openMenu_LeavesTheTimer == menuOpen' = TRUE /\ closeTimer' = closeTimer
openMenu == menuOpen' = TRUE /\ closeTimer' = FALSE

closeMenuNow == menuOpen' = FALSE /\ closeTimer' = FALSE
closeMenuSoon == menuOpen' = menuOpen /\ closeTimer' = TRUE

(* What was in a panel that is gone is in no panel.                        *)
Unmounts == /\ pointer' = IF pointer = "panel" /\ ~menuOpen' THEN "away" ELSE pointer
            /\ focus' = IF focus = "panel" /\ ~menuOpen' THEN "out" ELSE focus

-----------------------------------------------------------------------------
(* The panel is inside the trigger's box: from one to the other, the box   *)
(* is neither left nor entered.                                            *)
PointerEnters(place) ==
    /\ pointer = "away" /\ (place = "panel" => menuOpen)
    /\ openMenu /\ pointer' = place
    /\ UNCHANGED <<hand, sitePath, mobile, agentsOpen, focus>>

PointerLeaves ==
    /\ pointer # "away"
    /\ closeMenuSoon /\ pointer' = "away"
    /\ UNCHANGED <<hand, sitePath, mobile, agentsOpen, focus>>

PointerDownToPanel ==
    /\ hand = "quick" /\ pointer = "trigger" /\ menuOpen
    /\ openMenu /\ pointer' = "panel"
    /\ UNCHANGED <<hand, sitePath, mobile, agentsOpen, focus>>

PointerUpToTrigger ==
    /\ hand = "quick" /\ pointer = "panel"
    /\ closeMenuSoon /\ pointer' = "trigger"
    /\ UNCHANGED <<hand, sitePath, mobile, agentsOpen, focus>>

TimerCloses ==
    /\ closeTimer /\ closeMenuNow /\ Unmounts
    /\ UNCHANGED <<hand, sitePath, mobile, agentsOpen>>

-----------------------------------------------------------------------------
FocusArrives(place) ==
    /\ focus # place /\ (place = "panel" => menuOpen)
    /\ openMenu /\ focus' = place
    /\ UNCHANGED <<hand, sitePath, mobile, agentsOpen, pointer>>

FocusLeaves ==
    /\ focus # "out" /\ closeMenuNow /\ focus' = "out"
    /\ pointer' = IF pointer = "panel" THEN "away" ELSE pointer
    /\ UNCHANGED <<hand, sitePath, mobile, agentsOpen>>

(* Escape closes the menu and hands focus to the trigger: where the focus  *)
(* was elsewhere it arrives, and what arrives opens the menu again.        *)
Escape ==
    /\ menuOpen /\ focus # "out"
    /\ focus' = "trigger"
    /\ IF focus = "panel" THEN openMenu /\ UNCHANGED pointer
       ELSE closeMenuNow /\ pointer' = IF pointer = "panel" THEN "away" ELSE pointer
    /\ UNCHANGED <<hand, sitePath, mobile, agentsOpen>>

ArrowDown ==
    /\ focus = "trigger" /\ openMenu
    /\ UNCHANGED <<hand, sitePath, mobile, agentsOpen, pointer, focus>>

(* A link followed: the new page's header starts closed.                   *)
Navigates(path) ==
    /\ path # sitePath /\ sitePath' = path
    /\ menuOpen' = FALSE /\ mobile' = FALSE /\ agentsOpen' = FALSE
    /\ Unmounts
    /\ UNCHANGED <<hand, closeTimer>>

OnAPhone ==
    /\ \/ mobile' = ~mobile /\ UNCHANGED agentsOpen
       \/ mobile /\ agentsOpen' = ~agentsOpen /\ UNCHANGED mobile
    /\ UNCHANGED <<hand, sitePath, menuOpen, closeTimer, pointer, focus>>

SiteHeaderInit ==
    /\ hand \in Hand /\ sitePath \in Paths
    /\ menuOpen = FALSE /\ closeTimer = FALSE /\ mobile = FALSE /\ agentsOpen = FALSE
    /\ pointer = "away" /\ focus = "out"

SiteHeaderNext ==
    \/ \E place \in {"trigger", "panel"} : PointerEnters(place) \/ FocusArrives(place)
    \/ PointerLeaves \/ PointerDownToPanel \/ PointerUpToTrigger
    \/ TimerCloses
    \/ FocusLeaves \/ Escape \/ ArrowDown
    \/ \E path \in Paths : Navigates(path)
    \/ OnAPhone

-----------------------------------------------------------------------------
(* The menu does not close by itself under a pointer that crosses slowly,  *)
(* and is not left open with nobody at it (SiteHeader.tsx:187 and :255).   *)
MenuFollowsThePointer ==
    /\ hand = "slow" /\ closeTimer => pointer = "away"
    /\ menuOpen /\ ~closeTimer => pointer # "away" \/ focus # "out"
=============================================================================
