------------------------------ MODULE SarvamHTTP ------------------------------
(***************************************************************************)
(* SarvamHTTP.request and the CircuitBreaker of one product                *)
(* (gravai_sarvam/http.py): concurrent callers send, retry with a delay    *)
(* and share a breaker that opens on consecutive failures and half-opens   *)
(* after Reset steps of time.                                              *)
(*                                                                         *)
(* Breaker and counters change between two awaits only, so each action is  *)
(* the code between two of them: the send, the answer, the end of a sleep. *)
(***************************************************************************)
EXTENDS Integers, FiniteSets

CONSTANTS Caller,       \* callers of this product
          Threshold,  \* failures that open the breaker
          Attempts,   \* sends per request at most
          Reset       \* steps of time after which the breaker half-opens

ASSUME SarvamHTTPAssumption ==
    /\ IsFiniteSet(Caller)
    /\ Threshold \in Nat \ {0} /\ Attempts \in Nat \ {0} /\ Reset \in Nat

VARIABLES failures,  \* CircuitBreaker.failures
          open,      \* opened_at is not None
          age,       \* time since opened_at, up to Reset
          sending,      \* each caller: at rest, awaiting an answer, or a retry
          up,        \* the provider: it answers, or anything may happen
          streak,    \* history: failures since the last success, to Threshold
          leaked,    \* history: sends while open
          probes     \* history: requests let through since the half-open
                     \* and before an answer came, to two

httpVars == <<failures, open, age, sending, up, streak, leaked, probes>>

Breaker == <<failures, open, age>>
History == <<streak, leaked, probes>>

Resting == [pc |-> "rest", tries |-> 0]

HttpInit ==
    /\ failures = 0 /\ open = FALSE /\ age = 0
    /\ sending = [c \in Caller |-> Resting]
    /\ up \in BOOLEAN
    /\ streak = 0 /\ leaked = 0 /\ probes = 0

AtMost(n, cap) == IF n > cap THEN cap ELSE n

-----------------------------------------------------------------------------
(* CircuitBreaker *)

RecordSuccess ==
    /\ failures' = 0 /\ open' = FALSE /\ age' = 0
    /\ streak' = 0 /\ leaked' = 0 /\ probes' = 0

(* The time it opened is set once, when it opens. *)
RecordFailure ==
    /\ failures' = failures + 1
    /\ open' = (open \/ failures + 1 >= Threshold)
    /\ age' = IF open THEN age ELSE 0
    /\ streak' = AtMost(streak + 1, Threshold)
    /\ probes' = 0 /\ UNCHANGED leaked

(* Mutant: the breaker never half-opens. *)
LetsThrough_OnlyClosed ==
    /\ ~open
    /\ probes' = IF probes > 0 THEN 2 ELSE 0
    /\ UNCHANGED <<Breaker, streak, leaked>>

(* is_open, when it lets a request through. *)
LetsThrough ==
    \/ /\ ~open
       /\ probes' = IF probes > 0 THEN 2 ELSE 0
       /\ UNCHANGED <<Breaker, streak, leaked>>
    \/ /\ open /\ age = Reset
       /\ open' = FALSE /\ age' = 0 /\ failures' = Threshold - 1
       /\ probes' = 1 /\ leaked' = 0
       /\ UNCHANGED streak

-----------------------------------------------------------------------------
(* SarvamHTTP.request *)

(* Asks the breaker, once, and sends.  (When it is refused nothing changes.) *)
Request(c) ==
    /\ sending[c] = Resting
    /\ LetsThrough
    /\ sending' = [sending EXCEPT ![c] = [pc |-> "sent", tries |-> 1]]
    /\ UNCHANGED up

Ends(c) == sending' = [sending EXCEPT ![c] = Resting]

Answered(c) ==
    /\ sending[c].pc = "sent"
    /\ RecordSuccess /\ Ends(c) /\ UNCHANGED up

(* 401 and 403 are never retried. *)
AuthRefused(c) ==
    /\ sending[c].pc = "sent" /\ ~up
    /\ RecordFailure /\ Ends(c) /\ UNCHANGED up

(* Mutant: attempts are counted from one too low. *)
TransientFailure_OneMore(c) ==
    /\ sending[c].pc = "sent" /\ ~up
    /\ RecordFailure
    /\ sending' = [sending EXCEPT ![c] = IF @.tries > Attempts THEN Resting
                                   ELSE [@ EXCEPT !.pc = "backoff"]]
    /\ UNCHANGED up

(* 429, 5xx or no connection: after the last attempt the error is raised.  *)
TransientFailure(c) ==
    /\ sending[c].pc = "sent" /\ ~up
    /\ RecordFailure
    /\ sending' = [sending EXCEPT ![c] = IF @.tries = Attempts THEN Resting
                                   ELSE [@ EXCEPT !.pc = "backoff"]]
    /\ UNCHANGED up

(* Any other 4xx, and a caller that is cancelled, tell the breaker nothing. *)
Unrecorded(c) ==
    /\ sending[c] # Resting
    /\ Ends(c)
    /\ UNCHANGED <<Breaker, up, History>>

(* The end of the delay: the next attempt, whatever the breaker says now.  *)
Resend(c) ==
    /\ sending[c].pc = "backoff"
    /\ sending' = [sending EXCEPT ![c] = [pc |-> "sent", tries |-> @.tries + 1]]
    /\ leaked' = IF open THEN leaked + 1 ELSE leaked
    /\ UNCHANGED <<Breaker, up, streak, probes>>

ClockTicks ==
    /\ open /\ age < Reset
    /\ age' = age + 1
    /\ UNCHANGED <<failures, open, sending, up, History>>

ProviderChanges ==
    /\ up' = ~up
    /\ UNCHANGED <<Breaker, sending, History>>

AnswerTo(c) == Answered(c) \/ AuthRefused(c) \/ TransientFailure(c)

HttpNext ==
    \/ ClockTicks \/ ProviderChanges
    \/ \E c \in Caller : Request(c) \/ AnswerTo(c) \/ Resend(c) \/ Unrecorded(c)

HttpSpec == HttpInit /\ [][HttpNext]_httpVars

-----------------------------------------------------------------------------
(* Properties *)

(* "Opens after threshold consecutive failures": it is open only when the  *)
(* last Threshold answers, of all callers, failed; a half-open breaker is  *)
(* one failure from opening, and its count is never left above.            *)
OpenMeansFailing ==
    /\ open => streak = Threshold
    /\ open <=> failures >= Threshold

(* A provider that is failing is spared: after the breaker opened no more  *)
(* is sent than what is left of the requests that were under way.          *)
LeakIsBounded == leaked <= Cardinality(Caller) * (Attempts - 1)

(* The breaker: open means that the last answers all failed, and what is   *)
(* sent while it is open was under way before.                             *)
BreakerSparesTheProvider == OpenMeansFailing /\ LeakIsBounded

(* provider-outage.md: "recovery is automatic".  When the provider answers *)
(* again for good, the breaker is in the end closed for good.              *)
RecoveryIsAutomatic == <>[]up => <>[]~open
=============================================================================
