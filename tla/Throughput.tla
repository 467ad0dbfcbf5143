------------------------------- MODULE Throughput -------------------------------
(***************************************************************************)
(* The throughput tab of the usage page and its model (lib/throughput.ts): *)
(* from a scenario of a few published facts and two unverified assumptions *)
(* to a verdict, a projection of the backlog and a table of the four       *)
(* combinations of the assumptions.  Each figure is computed on its own.   *)
(* The arithmetic is exact: a figure is a numerator over Weight, where the *)
(* code has a double and rounds what it prints.                            *)
(***************************************************************************)
EXTENDS Integers, FiniteSets

CONSTANTS Rpm, BusinessDays,              \* 10 and 22 in the code
          Shares, Hours, Monthly, Backlogs, \* stops of the four sliders; the
                                          \* last two in slider steps of Step
          Step,                           \* 2500 documents
          ProjectedDays                   \* 30 in the code

ASSUME ThroughputAssumption ==
    /\ Rpm \in Nat \ {0} /\ BusinessDays \in Nat \ {0} /\ Step \in Nat \ {0}
    /\ (Rpm * 60 * 100) % Step = 0
    /\ Shares \subseteq 0..100 /\ Hours \subseteq 1..24 /\ Monthly \subseteq Nat
    /\ Backlogs \subseteq Nat
    /\ ProjectedDays \in Nat

VARIABLES tab,     \* "throughput" or "consumption"
          scenario

throughputVars == <<tab, scenario>>

-----------------------------------------------------------------------------
(* Calls for one document: a submit, the polls, the results; and for a     *)
(* digitised one a language model's read, which draws on no quota.         *)
ExtractPolls == 10
DigitisePolls(backedOff) == IF backedOff THEN 10 ELSE 37

extractQuota(s) == IF s.pollsCount THEN 1 + ExtractPolls + 1 ELSE 2
digitiseQuota(s) == IF s.pollsCount THEN 1 + DigitisePolls(s.backedOff) + 1 ELSE 2

(* A hundred documents of the mix.                                         *)
quotaCallsPerHundred(s) == extractQuota(s) * (100 - s.share) + digitiseQuota(s) * s.share

(* computeThroughput: steps of documents for a business day, over Weight.  *)
Weight(s) == quotaCallsPerHundred(s) * BusinessDays
documentsPerBusinessDay(s) == ((Rpm * 60 * 100) \div Step) * s.hours * BusinessDays
demandPerBusinessDay(s) == s.monthly * quotaCallsPerHundred(s)

spareDocuments(s) == documentsPerBusinessDay(s) - demandPerBusinessDay(s)

monthlyCapacity(s) == documentsPerBusinessDay(s) * BusinessDays
monthlyDemand(s) == s.monthly * Weight(s)
OverCapacity(s) == monthlyDemand(s) > monthlyCapacity(s)

Never == -1

(* Whole business days until the backlog is gone.                          *)
DaysOf(backlog, perDay) == (backlog + perDay - 1) \div perDay
backlogDrainDays(s) ==
    IF spareDocuments(s) > 0 THEN DaysOf(s.backlog * Weight(s), spareDocuments(s)) ELSE Never
backlogDrainDaysIdle(s) == DaysOf(s.backlog * Weight(s), documentsPerBusinessDay(s))

NotBelowZero(n) == IF n < 0 THEN 0 ELSE n

(* Mutant: the backlog is worked off as if nothing new arrived. *)
backlogSeries_Idle(s) ==
    LET remaining[day \in 0..ProjectedDays] ==
            IF day = 0 THEN s.backlog * Weight(s)
            ELSE NotBelowZero(remaining[day - 1] - documentsPerBusinessDay(s))
    IN  remaining

(* backlogSeries: what remains, day by day.                                *)
backlogSeries(s) ==
    LET remaining[day \in 0..ProjectedDays] ==
            IF day = 0 THEN s.backlog * Weight(s)
            ELSE NotBelowZero(remaining[day - 1] - spareDocuments(s))
    IN  remaining

scenarioMatrix(s) ==
    {[s EXCEPT !.pollsCount = polls, !.backedOff = backOff] : polls, backOff \in BOOLEAN}

(* describeScenario, the panel of the projection, and the table's rows.    *)
Verdict(s) == IF OverCapacity(s) THEN "over" ELSE "within"
Panel(s) == IF backlogDrainDays(s) = Never THEN "grows" ELSE "clears"
IsCurrent(row) == row.pollsCount = scenario.pollsCount /\ row.backedOff = scenario.backedOff

-----------------------------------------------------------------------------
Default ==
    [pollsCount |-> TRUE, backedOff |-> TRUE, share |-> 20, hours |-> 10, monthly |-> 35, backlog |-> 10]

(* The scenario is edited on its tab, and kept while the other is open.    *)
OpensUsageTab == tab' \in {"throughput", "consumption"} \ {tab} /\ UNCHANGED scenario

Toggles(field) == scenario' = [scenario EXCEPT ![field] = ~@]
Slides(field, stops) == \E stop \in stops : scenario' = [scenario EXCEPT ![field] = stop]
ResetToDefaults == scenario' = Default

ThroughputInit == tab = "throughput" /\ scenario = Default

EditsScenario ==
    \/ Toggles("pollsCount") \/ Toggles("backedOff")
    \/ Slides("share", Shares) \/ Slides("hours", Hours)
    \/ Slides("monthly", Monthly) \/ Slides("backlog", Backlogs)
    \/ ResetToDefaults

ThroughputNext ==
    \/ OpensUsageTab
    \/ tab = "throughput" /\ EditsScenario /\ UNCHANGED tab

-----------------------------------------------------------------------------
(* The figures tell one story: a strained scenario never drains, and its   *)
(* projection never falls; one that drains is within capacity, its curve   *)
(* touches zero on the day that is named and not before, and no sooner     *)
(* than with nothing new arriving; exactly one row of the table is current *)
(* and is the scenario; and to count the polls or to poll flat never makes *)
(* a scenario fit that did not (usage/page.tsx:130, :555 and :609, lib/    *)
(* throughput.ts:4).                                                       *)
TheFiguresAgree ==
    tab = "throughput" =>
        LET series == backlogSeries(scenario)
            drains == backlogDrainDays(scenario)
            matrix == scenarioMatrix(scenario)
        IN  /\ Verdict(scenario) = "over" => Panel(scenario) = "grows"
            /\ Panel(scenario) = "grows" =>
                   \A day \in 1..ProjectedDays : series[day] >= series[day - 1]
            /\ Panel(scenario) = "clears" =>
                   /\ Verdict(scenario) = "within" /\ drains >= backlogDrainDaysIdle(scenario)
                   /\ \A day \in 0..ProjectedDays : series[day] = 0 <=> day >= drains
            /\ {row \in matrix : IsCurrent(row)} = {scenario}
            /\ \A row, other \in matrix :
                   (row.pollsCount => other.pollsCount) /\ (other.backedOff => row.backedOff)
                       => (Verdict(other) = "within" => Verdict(row) = "within")
=============================================================================
