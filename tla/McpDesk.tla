-------------------------------- MODULE McpDesk --------------------------------
(***************************************************************************)
(* The MCP page (console/mcp/page.tsx): the catalogue a model host would   *)
(* be offered, the tool its address names, and the workspace that runs it  *)
(* (ToolWorkspace.tsx), which is made anew for each tool.  Catalogue and   *)
(* list of agents are two requests; a run outlives the workspace that made *)
(* it; and the token may change in another tab.                            *)
(***************************************************************************)
EXTENDS Integers, Sequences, FiniteSets

CONSTANTS ToolName,
          Offered,      \* [tools of the catalogue ->
                        \*      [family, permitted, runnable, destructive, required]]
          ListedAgent,  \* [tool names -> the agent the API's list names]
          CompiledAgent,\* [tool names -> the agent the compiled catalogue names]
          Value,        \* what may be typed: "" is blank
          Wrong,        \* what a field objects to, once something is typed
          MaxHistory,   \* 12 in the code
          MaxRuns,      \* bound on the runs on their way
          Bearers,      \* bearer tokens
          None          \* no tool, no agent, no token

(* What the workspace of a tool can be, and the rows of its history.       *)
HistoryRows == [args : SUBSET Value, draft : Value, ok : BOOLEAN, of : ToolName]

Desks ==
    [tool : ToolName, draft : Value, problem : BOOLEAN,
     state : {"idle", "running", "done", "failed"}, result : ToolName \cup {None},
     card : (SUBSET Value) \cup {None}, history : Seq(HistoryRows)]

ASSUME McpAssumption ==
    /\ DOMAIN Offered \subseteq ToolName
    /\ None \notin ToolName \cup Bearers /\ None \notin Desks
    /\ "" \in Value
    /\ MaxHistory \in Nat \ {0} /\ MaxRuns \in Nat

Resource == INSTANCE PageResource WITH NoData <- {}, NoKey <- None

VARIABLES deskToken,
          surface, agentList, \* the page's two resources
          requested,          \* the tool the address names, or None
          desk,               \* the workspace, or None
          underWay            \* runs that are on their way

mcpPage == <<surface, agentList, requested>>
mcpVars == <<deskToken, mcpPage, desk, underWay>>

-----------------------------------------------------------------------------
(* The page.                                                               *)

Runnable(tool) == Offered[tool].family = "agent" /\ Offered[tool].permitted

(* The first tool of the catalogue that can be called, else the first.     *)
Preferred(tools) ==
    IF \E t \in tools : Runnable(t) THEN CHOOSE t \in tools : Runnable(t)
    ELSE CHOOSE t \in tools : TRUE

Selected(catalogue, address) ==
    IF catalogue.mode = "loading" \/ catalogue.data = {} THEN None
    ELSE IF address \in catalogue.data THEN address ELSE Preferred(catalogue.data)

RequestedMissing ==
    surface.mode # "loading" /\ requested # None /\ surface.data # {} /\ requested \notin surface.data

AgentOf(tool) == IF agentList.mode = "live" THEN ListedAgent[tool] ELSE CompiledAgent[tool]

gateCan(tool) ==
    /\ deskToken # None
    /\ Runnable(tool) /\ Offered[tool].runnable
    /\ AgentOf(tool) # None

(* The workspace is keyed by the name of its tool.                         *)
NewDesk(tool) ==
    [tool |-> tool, draft |-> "", problem |-> FALSE, state |-> "idle", result |-> None,
     card |-> None, history |-> <<>>]

Renders ==
    LET tool == Selected(surface', requested')
        stays == desk # None /\ desk.tool = tool
    IN  /\ desk' = IF tool = None THEN None ELSE IF stays THEN desk ELSE NewDesk(tool)
        /\ underWay' = {[r EXCEPT !.heard = @ /\ stays] : r \in underWay}

DeskEffectDue(r) == Resource!EffectDue(r, <<"mcp", deskToken>>)

DeskAsks ==
    /\ DeskEffectDue(surface) \/ DeskEffectDue(agentList)
    /\ surface' = IF DeskEffectDue(surface)
                  THEN Resource!RunEffect(surface, <<"mcp", deskToken>>, deskToken) ELSE surface
    /\ agentList' = IF DeskEffectDue(agentList)
                    THEN Resource!RunEffect(agentList, <<"mcp", deskToken>>, deskToken) ELSE agentList
    /\ UNCHANGED <<deskToken, requested>>
    /\ Renders

CatalogueAnswered ==
    /\ surface.asking
    /\ \/ surface.token # None /\ \E tools \in {DOMAIN Offered, {}} : surface' = Resource!Succeeds(surface, tools)
       \/ surface' = Resource!Fails(surface, IF surface.token = None THEN "no-token" ELSE "server")
    /\ UNCHANGED <<deskToken, agentList, requested>>
    /\ Renders

AgentsAnswered ==
    /\ agentList.asking
    /\ \/ agentList.token # None /\ agentList' = Resource!Succeeds(agentList, {"agents"})
       \/ agentList' = Resource!Fails(agentList, IF agentList.token = None THEN "no-token" ELSE "server")
    /\ UNCHANGED <<deskToken, surface, requested, desk, underWay>>

CatalogueRetry ==
    /\ surface.failure \notin {"none", "no-token"} /\ surface.mode # "loading"
    /\ surface' = Resource!Reload(surface)
    /\ UNCHANGED <<deskToken, agentList, requested, desk, underWay>>

(* A row of the catalogue, or a link from the palette.                     *)
SelectTool(tool) ==
    /\ requested' = tool
    /\ UNCHANGED <<deskToken, surface, agentList>>
    /\ Renders

DeskTokenChanges ==
    /\ deskToken' \in (Bearers \cup {None}) \ {deskToken}
    /\ UNCHANGED <<mcpPage, desk, underWay>>

-----------------------------------------------------------------------------
(* The workspace.                                                          *)

(* Blank fields are left out of what is sent.                              *)
payloadOf(draft) == {draft} \ {""}
problemsOf(tool, draft) == IF draft = "" THEN Offered[tool].required ELSE draft \in Wrong

(* Behind an open card nothing else can be reached.                        *)
AtDesk == desk # None /\ desk.card = None

OnDesk(d) == desk' = d /\ UNCHANGED <<deskToken, mcpPage>>

setField(value) ==
    /\ AtDesk /\ gateCan(desk.tool) /\ desk.state # "running"
    /\ OnDesk([desk EXCEPT !.draft = value, !.problem = FALSE]) /\ UNCHANGED underWay

execute ==
    /\ gateCan(desk.tool) /\ Cardinality(underWay) < MaxRuns
    /\ OnDesk([desk EXCEPT !.card = None, !.state = "running", !.result = None, !.problem = FALSE])
    /\ underWay' = underWay \cup
          {[tool |-> desk.tool, agent |-> AgentOf(desk.tool), token |-> deskToken,
            args |-> payloadOf(desk.draft), draft |-> desk.draft, read |-> desk.card,
            heard |-> TRUE]}

(* Run: what cannot be undone shows a card first, with what would be sent. *)
start ==
    /\ AtDesk /\ gateCan(desk.tool) /\ desk.state # "running"
    /\ IF problemsOf(desk.tool, desk.draft) THEN OnDesk([desk EXCEPT !.problem = TRUE]) /\ UNCHANGED underWay
       ELSE IF Offered[desk.tool].destructive
       THEN OnDesk([desk EXCEPT !.problem = FALSE, !.card = payloadOf(desk.draft)]) /\ UNCHANGED underWay
       ELSE execute

confirmRun == desk # None /\ desk.card # None /\ execute

backFromCard ==
    /\ desk # None /\ desk.card # None
    /\ OnDesk([desk EXCEPT !.card = None]) /\ UNCHANGED underWay

(* Mutant: a row of the history takes the form as it is now. *)
HistoryRow_OfTheForm(run, ok) == [args |-> run.args, draft |-> desk.draft, ok |-> ok, of |-> run.tool]
HistoryRow(run, ok) == [args |-> run.args, draft |-> run.draft, ok |-> ok, of |-> run.tool]

AtMostRows(rows) == SubSeq(rows, 1, IF Len(rows) > MaxHistory THEN MaxHistory ELSE Len(rows))

(* A workspace that has gone hears nothing of its run.                     *)
runAnswered(run, ok) ==
    /\ underWay' = underWay \ {run}
    /\ OnDesk(IF ~run.heard THEN desk
              ELSE [desk EXCEPT !.state = IF ok THEN "done" ELSE "failed",
                                !.result = IF ok THEN run.tool ELSE None,
                                !.history = AtMostRows(<<HistoryRow(run, ok)>> \o @)])

(* A row of the history restores its arguments, even while a run waits.    *)
restoreRow(row) ==
    /\ AtDesk
    /\ OnDesk([desk EXCEPT !.draft = row.draft]) /\ UNCHANGED underWay

-----------------------------------------------------------------------------
McpInit ==
    /\ deskToken \in Bearers
    /\ surface = Resource!Mounted /\ agentList = Resource!Mounted
    /\ requested \in ToolName \cup {None}
    /\ desk = None /\ underWay = {}

Catalogue ==
    CatalogueAnswered \/ AgentsAnswered \/ CatalogueRetry \/ \E tool \in ToolName : SelectTool(tool)

Workspace ==
    \/ \E value \in Value : setField(value)
    \/ start \/ confirmRun \/ backFromCard
    \/ \E run \in underWay, ok \in BOOLEAN : runAnswered(run, ok)
    \/ desk # None /\ \E i \in DOMAIN desk.history : restoreRow(desk.history[i])

McpNext ==
    \/ DeskAsks
    \/ /\ ~DeskEffectDue(surface) /\ ~DeskEffectDue(agentList)
       /\ Catalogue \/ Workspace \/ DeskTokenChanges

-----------------------------------------------------------------------------
(* What ran is what was read: a run that cannot be undone sends what its   *)
(* card showed, nothing the form objects to is sent, and the history is of *)
(* this tool, each row with the arguments that were sent and the draft     *)
(* that gives them back; the workspace is of the tool the address names,   *)
(* or the page says that it offers no such tool (ToolWorkspace.tsx:263,    *)
(* :290, :492; mcp/page.tsx:108, :223).                                    *)
DeskTellsWhatRan ==
    /\ \A run \in underWay :
           /\ Offered[run.tool].destructive => run.read = run.args
           /\ ~problemsOf(run.tool, run.draft)
    /\ desk # None =>
           /\ \A i \in DOMAIN desk.history :
                  desk.history[i].of = desk.tool /\ desk.history[i].args = payloadOf(desk.history[i].draft)
           /\ desk.tool = requested \/ requested = None \/ RequestedMissing
           /\ desk.state = "done" => desk.result = desk.tool
           /\ desk.state = "running" <=> \E run \in underWay : run.heard
=============================================================================
