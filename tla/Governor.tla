------------------------------- MODULE Governor -------------------------------
(***************************************************************************)
(* RateGovernor for one product (gravai_sarvam/governor.py): a token       *)
(* bucket, a queue of waiters per tenant, the rotation of tenants, and the *)
(* pump that hands tokens to waiters.                                      *)
(*                                                                         *)
(* Every action is a stretch of code without an await: all of them run     *)
(* under one lock that is never held across an await, on one event loop.   *)
(* Time advances in steps; Grain steps make a token, so Minute steps make  *)
(* Limit tokens.  Each call takes one token (weight is always 1).          *)
(***************************************************************************)
EXTENDS Integers, Sequences, FiniteSets

CONSTANTS Call,        \* callers, each with one acquire at a time
          Tenant,
          Limit,       \* tokens the bucket holds, requests per minute
          Grain,       \* steps of time it takes to refill one token
          MaxCancels,  \* how many callers give up in a behaviour
          Gone,        \* a waiter in a queue whose caller gave up
          NoTenant

ASSUME GovernorAssumption ==
    /\ Limit \in Nat \ {0} /\ Grain \in Nat \ {0} /\ MaxCancels \in Nat
    /\ IsFiniteSet(Call) /\ IsFiniteSet(Tenant)
    /\ Gone \notin Call /\ NoTenant \notin Tenant

VARIABLES tokens,   \* what the bucket holds, in units of 1/Grain token
          queues,   \* waiters of each tenant, oldest first
          order,    \* the rotation: whose turn is first
          pump,     \* whether the pump task runs
          call,     \* where each caller is, and for which tenant
          cancels,  \* callers that gave up so far
          recent,   \* history: tokens taken in each of the last Minute steps
          passed,   \* history: turns others had since a tenant began to wait
          unserved  \* history: tokens taken and not recorded as served

govVars == <<tokens, queues, order, pump, call, cancels, recent, passed, unserved>>

Minute == Limit * Grain

Idle == [pc |-> "idle", tenant |-> NoTenant]

GovernorInit ==
    /\ tokens = Limit * Grain
    /\ queues = [t \in Tenant |-> <<>>]
    /\ order = <<>>
    /\ pump = FALSE
    /\ call = [c \in Call |-> Idle]
    /\ cancels = 0
    /\ recent = [i \in 1..Minute |-> 0]
    /\ passed = [a \in Tenant |-> [b \in Tenant |-> 0]]
    /\ unserved = 0

Queued(t) == queues[t] # <<>>

Waiting == \E t \in Tenant : Queued(t)

(* TokenBucket.try_consume.  The code refills when the bucket is used, from *)
(* the time since the last use; Tick refills as time passes.                *)
TryConsume ==
    /\ tokens >= Grain
    /\ tokens' = tokens - Grain
    /\ recent' = [recent EXCEPT ![1] = @ + 1]

Tick ==
    /\ tokens' = IF tokens < Limit * Grain THEN tokens + 1 ELSE tokens
    /\ recent' = [i \in 1..Minute |-> IF i = 1 THEN 0 ELSE recent[i - 1]]
    /\ UNCHANGED <<queues, order, pump, call, cancels, passed, unserved>>

-----------------------------------------------------------------------------
(* acquire *)

(* Nobody waits and the bucket has a token: no await at all (try_acquire   *)
(* does this and nothing else).                                            *)
AcquireNow(c, t) ==
    /\ call[c] = Idle /\ ~Waiting
    /\ TryConsume
    /\ UNCHANGED <<queues, order, pump, call, cancels, passed, unserved>>

(* The caller parks a future at the end of its tenant's queue and awaits.  *)
AcquireWaits(c, t) ==
    /\ call[c] = Idle
    /\ Waiting \/ tokens < Grain
    /\ order' = IF Queued(t) THEN order ELSE Append(order, t)
    /\ queues' = [queues EXCEPT ![t] = Append(@, c)]
    /\ passed' = IF Queued(t) THEN passed
                 ELSE [passed EXCEPT ![t] = [b \in Tenant |-> 0]]
    /\ pump' = TRUE
    /\ call' = [call EXCEPT ![c] = [pc |-> "waiting", tenant |-> t]]
    /\ UNCHANGED <<tokens, cancels, recent, unserved>>

(* The future is set: the caller runs on and is recorded as served.        *)
Resume(c) ==
    /\ call[c].pc = "released"
    /\ call' = [call EXCEPT ![c] = Idle]
    /\ unserved' = unserved - 1
    /\ UNCHANGED <<tokens, queues, order, pump, cancels, recent, passed>>

(* The caller's task is cancelled.  A future still in a queue stays there, *)
(* done; one already set has had its token.                                *)
GiveUp(c) ==
    /\ call[c].pc # "idle"
    /\ cancels < MaxCancels /\ cancels' = cancels + 1
    /\ call' = [call EXCEPT ![c] = Idle]
    /\ queues' = [t \in Tenant |-> [i \in 1..Len(queues[t]) |->
                     IF queues[t][i] = c THEN Gone ELSE queues[t][i]]]
    /\ UNCHANGED <<tokens, order, pump, recent, passed, unserved>>

-----------------------------------------------------------------------------
(* _pump *)

(* Mutant: a failed poll passes the turn on. *)
PumpReleases_RotatesAlways ==
    /\ pump /\ order # <<>>
    /\ LET t == Head(order)
           left == Tail(queues[t])
       IN \/ /\ tokens < Grain
             /\ order' = Append(Tail(order), t)
             /\ UNCHANGED <<tokens, recent, queues, passed, call, unserved>>
          \/ /\ TryConsume
             /\ queues' = [queues EXCEPT ![t] = left]
             /\ order' = IF left = <<>> THEN Tail(order) ELSE Append(Tail(order), t)
             /\ passed' = [a \in Tenant |->
                             IF a = t \/ ~Queued(a) THEN [b \in Tenant |-> 0]
                             ELSE [passed[a] EXCEPT ![t] = @ + 1]]
             /\ call' = IF Head(queues[t]) = Gone THEN call
                        ELSE [call EXCEPT ![Head(queues[t])].pc = "released"]
             /\ unserved' = unserved + 1
    /\ UNCHANGED <<pump, cancels>>

(* The oldest waiter of the tenant whose turn it is gets a token, gone or  *)
(* not, and the tenant goes to the end of the rotation, or out of it.      *)
(* Without a token nothing changes: the tenant keeps its turn.             *)
PumpReleases ==
    /\ pump /\ order # <<>>
    /\ TryConsume
    /\ LET t == Head(order)
           left == Tail(queues[t])
       IN /\ queues' = [queues EXCEPT ![t] = left]
          /\ order' = IF left = <<>> THEN Tail(order) ELSE Append(Tail(order), t)
          /\ passed' = [a \in Tenant |->
                          IF a = t \/ ~Queued(a) THEN [b \in Tenant |-> 0]
                          ELSE [passed[a] EXCEPT ![t] = @ + 1]]
          /\ call' = IF Head(queues[t]) = Gone THEN call
                     ELSE [call EXCEPT ![Head(queues[t])].pc = "released"]
          /\ unserved' = unserved + 1
    /\ UNCHANGED <<pump, cancels>>

PumpEnds ==
    /\ pump /\ ~Waiting
    /\ pump' = FALSE
    /\ UNCHANGED <<tokens, queues, order, call, cancels, recent, passed, unserved>>

(* aclose: the pump is cancelled and so is every waiter.                   *)
Close ==
    /\ pump' = FALSE
    /\ queues' = [t \in Tenant |-> <<>>] /\ order' = <<>>
    /\ call' = [c \in Call |-> IF call[c].pc = "waiting" THEN Idle ELSE call[c]]
    /\ UNCHANGED <<tokens, cancels, recent, passed, unserved>>

GovernorNext ==
    \/ Tick \/ PumpReleases \/ PumpEnds \/ Close
    \/ \E c \in Call : Resume(c) \/ GiveUp(c)
    \/ \E c \in Call, t \in Tenant : AcquireNow(c, t) \/ AcquireWaits(c, t)

GovernorSpec == GovernorInit /\ [][GovernorNext]_govVars

-----------------------------------------------------------------------------
(* Properties *)

(* "Stale rotation entry for a tenant with nothing queued": there is never *)
(* one.  The rotation holds every tenant with a waiter, once, and a parked *)
(* caller has one place, in the queue of its tenant; nobody else has any.  *)
RotationIsExact ==
    /\ \A i, j \in 1..Len(order) : order[i] = order[j] => i = j
    /\ {order[i] : i \in 1..Len(order)} = {t \in Tenant : Queued(t)}
    /\ \A c \in Call, t \in Tenant :
          Cardinality({i \in 1..Len(queues[t]) : queues[t][i] = c})
              = IF call[c] = [pc |-> "waiting", tenant |-> t] THEN 1 ELSE 0

(* "exactly one turn per token": while a tenant waits for its turn no      *)
(* other has two, however they arrive, give up and run empty.              *)
FairTurns == \A a, b \in Tenant : Queued(a) => passed[a][b] <= 1

Taken[k \in 0..Minute] == IF k = 0 THEN 0 ELSE Taken[k - 1] + recent[k]

(* Over the last k steps the bucket gave at most what it can hold and what *)
(* was refilled meanwhile, with and without a queue.                       *)
NeverFasterThanRefill ==
    \A k \in 1..Minute : Taken[k] * Grain <= Limit * Grain + (k - 1)

(* A parked caller is woken, whoever gives up and whenever it is closed.   *)
EveryWaiterIsWoken == \A c \in Call : call[c].pc = "waiting" ~> call[c].pc # "waiting"

(* A token is recorded as served to the caller it went to, or is still to  *)
(* be, except for at most one per caller that gave up: the one its parked  *)
(* future draws when its turn comes, or the one it had and did not use.    *)
OneTokenPerGiveUp ==
    LET released == {c \in Call : call[c].pc = "released"}
    IN unserved \in Cardinality(released)..(Cardinality(released) + cancels)

(* The governor, whoever arrives, gives up and closes it: the rotation is   *)
(* what is queued, a turn is one token, no window gets more than was       *)
(* refilled, and a token is lost at most with a caller that gave up.       *)
TokensGoRound ==
    RotationIsExact /\ FairTurns /\ NeverFasterThanRefill /\ OneTokenPerGiveUp
=============================================================================
