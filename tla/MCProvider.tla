------------------------------ MODULE MCProvider ------------------------------
(***************************************************************************)
(* The two guards in front of the provider, one in each behaviour: the     *)
(* governor, with three callers of two tenants and a two-token bucket; or  *)
(* the client with its breaker, three callers and three attempts each.     *)
(* They share no state: a caller that has its token calls the client.      *)
(***************************************************************************)
EXTENDS Governor, SarvamHTTP

CONSTANT Guard    \* the guards looked at
VARIABLE guard    \* the one of this behaviour

vars == <<guard, govVars, httpVars>>

Init ==
    /\ guard \in Guard
    /\ GovernorInit /\ HttpInit
    /\ guard = "governor" => up

Governs(A) == guard = "governor" /\ A /\ UNCHANGED <<guard, httpVars>>
Sends(A) == guard = "breaker" /\ A /\ UNCHANGED <<guard, govVars>>

Next == Governs(GovernorNext) \/ Sends(HttpNext)

(* The fairness of both: the clock runs, the pump wakes from its sleep (at *)
(* most a second), the event loop runs a task whose future is set, every   *)
(* send is answered or times out, a delay ends, and callers keep coming.   *)
Spec ==
    /\ Init /\ [][Next]_vars
    /\ WF_vars(Governs(Tick)) /\ WF_vars(Governs(PumpReleases))
    /\ \A c \in Call : WF_vars(Governs(Resume(c)))
    /\ WF_vars(Sends(ClockTicks))
    /\ \A c \in Caller : /\ WF_vars(Sends(Request(c))) /\ WF_vars(Sends(AnswerTo(c)))
                         /\ WF_vars(Sends(Resend(c)))

-----------------------------------------------------------------------------
(* A parked caller is woken, and a breaker closes for good by itself once  *)
(* the provider answers for good.                                          *)
NobodyIsShutOut == EveryWaiterIsWoken /\ RecoveryIsAutomatic
=============================================================================
