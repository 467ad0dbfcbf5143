------------------------------ MODULE MCConsole ------------------------------
(***************************************************************************)
(* The pages of the site and of the console outside its workspaces: the    *)
(* reading pages, the audit explorer, the frame round them with its        *)
(* settings, the MCP page, the throughput model, the drawing on a card,    *)
(* and of the public site the header and the two explainers; one of these  *)
(* for a whole visit, over a few rows that can be told apart.              *)
(***************************************************************************)
EXTENDS ConsolePages, AuditPage, ConsoleShell, McpDesk, SiteHeader, Explainers,
        Throughput, FlowThumbnail

CONSTANT Screen
VARIABLE screen

figureVars == <<throughputVars, thumbnailVars>>
vars == <<screen, pageVars, auditVars, shellVars, mcpVars, siteHeaderVars, explainerVars, figureVars>>

Run(id, agent, status, escalated, application) ==
    [id |-> id, agent |-> agent, status |-> status, escalated |-> escalated,
     application |-> application]

MCOwnRuns ==
    {Run(1, "kyc", "succeeded", TRUE, "app"), Run(2, "kyc", "failed", FALSE, "gravai")}

(* One token's tenant has more on record than a page holds, or just as     *)
(* much as one; another's less, or nothing.                                *)
First == CHOOSE t \in Token : TRUE

MCRuns(t) ==
    IF t = First
    THEN {MCOwnRuns, MCOwnRuns \cup {Run(3, "bre", "escalated", TRUE, "gravai")}}
    ELSE {{Run(2, "bre", "running", FALSE, "other")}, {}}

MCBook(t) ==
    IF t = First
    THEN {{[id |-> 1, status |-> "open"], [id |-> 2, status |-> "open"], [id |-> 3, status |-> "closed"]}}
    ELSE {{[id |-> 1, status |-> "closed"]}, {}}

Usage(day, product, agent, tenant, cost) ==
    [day |-> day, product |-> product, agent |-> agent, tenant |-> tenant, cost |-> cost]

MCUsage ==
    {{Usage(1, "docai", "kyc", "t", 15000), Usage(1, "llm", "bre", "t", 0),
      Usage(2, "docai", "bre", "u", 26000)},
     {Usage(1, "llm", "kyc", "t", 0)}, {}}

(* The case that is open is in the first tenant's book: for the other it   *)
(* is not found, and has no runs.                                          *)
MCAnswers ==
    [n \in {"runs", "applications", "case", "eligibility", "case-runs", "trail", "usage",
            "governor", "tenants", "surface", "connectors"} \cup Panels |->
        [t \in Token |->
            CASE t # First /\ n \in {"case", "eligibility"} -> {}
              [] t # First /\ n = "case-runs" -> {{}}
              [] n = "runs" -> MCRuns(t)
              [] n = "case-runs" -> {MCOwnRuns, {}}
              [] n = "applications" -> MCBook(t)
              [] n = "usage" -> MCUsage
              [] n = "governor" -> {{"docai"}, {"llm"}}
              [] n \in Panels \cup {"case", "eligibility", "surface"} -> {{"some"}}
              [] n = "trail" -> {{}}
              [] OTHER -> {{"some"}, {}}]]

MCHits == [needle \in {"", "12"} |-> IF needle = "" THEN {} ELSE {1, 2}]

(* A run goes on while its page is open; on a case, with as many readings   *)
(* beside it, it is as it was.                                             *)
MCMaxSteps == [page \in {"run", "case"} |-> IF page = "run" THEN 2 ELSE 1]

MCRunOf == [t \in Token |-> IF t = First THEN {1, 2} ELSE {2}]

(* One tenant's chain was altered, the other's was not.                    *)
MCBroken == [t \in Tenant |-> IF t = CHOOSE u \in Tenant : TRUE THEN MaxEntries - 1 ELSE 0]

MCActionOf == [i \in 1..MaxEntries |-> IF i = MaxEntries - 2 THEN "other" ELSE "decided"]

MCPlaces ==
    [q \in {"", "s", "zzz"} |->
        CASE q = "" -> <<"admin", "settings">>
          [] q = "s" -> <<"settings">>
          [] OTHER -> <<>>]

(* Three tools: one is offered, can destroy and has a required field, one  *)
(* is offered and runs an agent only the list names, one is not offered.   *)
MCOffered ==
    [tool \in {"assess", "read"} |->
        [family |-> "agent", permitted |-> TRUE, runnable |-> TRUE, destructive |-> tool = "assess",
         required |-> tool = "assess"]]

MCListed == [tool \in {"assess", "read"} |-> tool]
MCCompiled == [tool \in {"assess", "read"} |-> IF tool = "assess" THEN "assess" ELSE None]

MCEntry ==
    {[models |-> 0, codes |-> 0, escalates |-> "never"],
     [models |-> 1, codes |-> 1, escalates |-> "sometimes"],
     [models |-> 1, codes |-> 2, escalates |-> "always"]}

MCSteps == <<"read", "branch", "decide">>
MCConnections == {<<"read", "branch">>, <<"branch", "decide">>}

(* Each screen that is not the one visited waits as it starts.             *)
PagesStart == IF screen = "pages" THEN PagesInit ELSE PagesInit /\ at = "admin" /\ token = Null
AuditStart == AuditPageInit /\ (screen # "audit" => bearer = CHOOSE t \in Tenant : TRUE)
ShellStart == ShellInit /\ (screen # "shell" => pathname = "admin")

McpStart == McpInit /\ (screen # "mcp" => requested = None)
HeaderStart == SiteHeaderInit /\ (screen # "header" => hand = "slow" /\ sitePath = "/")
PipelineStart == PipelineInit /\ (screen # "pipeline" => entry = CHOOSE e \in Entry : TRUE)
RevealStart == RevealInit /\ (screen # "flow" => observer = "absent" /\ ~calm)
ThroughputStart ==
    IF screen = "scenario" THEN ThroughputInit ELSE tab = "consumption" /\ scenario = Default
ThumbnailStart == FlowThumbnailInit /\ (screen # "thumbnail" => density = "card")

Init ==
    /\ screen \in Screen
    /\ PagesStart /\ AuditStart /\ ShellStart
    /\ McpStart /\ HeaderStart /\ PipelineStart /\ RevealStart
    /\ ThroughputStart /\ ThumbnailStart

Site ==
    \/ screen = "header" /\ SiteHeaderNext /\ UNCHANGED explainerVars
    \/ screen = "pipeline" /\ PipelineNext /\ UNCHANGED <<siteHeaderVars, revealVars>>
    \/ screen = "flow" /\ RevealNext /\ UNCHANGED <<siteHeaderVars, pipelineVars>>

Figures ==
    \/ screen = "scenario" /\ ThroughputNext /\ UNCHANGED thumbnailVars
    \/ screen = "thumbnail" /\ FlowThumbnailNext /\ UNCHANGED throughputVars

siteVars == <<siteHeaderVars, explainerVars>>

Next ==
    /\ \/ /\ screen = "pages" /\ PagesNext
          /\ UNCHANGED <<auditVars, shellVars, mcpVars, siteVars, figureVars>>
       \/ /\ screen = "audit" /\ AuditPageNext
          /\ UNCHANGED <<pageVars, shellVars, mcpVars, siteVars, figureVars>>
       \/ /\ screen = "shell" /\ ShellNext
          /\ UNCHANGED <<pageVars, auditVars, mcpVars, siteVars, figureVars>>
       \/ /\ screen = "mcp" /\ McpNext
          /\ UNCHANGED <<pageVars, auditVars, shellVars, siteVars, figureVars>>
       \/ Site /\ UNCHANGED <<pageVars, auditVars, shellVars, mcpVars, figureVars>>
       \/ Figures /\ UNCHANGED <<pageVars, auditVars, shellVars, mcpVars, siteVars>>
    /\ UNCHANGED screen

Spec == Init /\ [][Next]_vars

(* What is drawn of a scenario and of a flow is what they are: the figures  *)
(* of the throughput panel agree, and the picture on a card is whole.      *)
PicturesAreTrue == TheFiguresAgree /\ ThumbnailIsWhole
=============================================================================
