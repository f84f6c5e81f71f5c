------------------------------- MODULE MCChat -------------------------------
(***************************************************************************)
(* How requests of the backend run and stream, and how a story is set up,  *)
(* for TLC: the MCP manager under its fairness, the gateway to the models, *)
(* the setup agent, which loops over a model of its own, what it is shown  *)
(* of its discussion, and the workspace it fills.                          *)
(*                                                                         *)
(* A behaviour is one of any one part, the others stay as they are.        *)
(***************************************************************************)
EXTENDS ModelGateway, SetupContext, SetupAgent, SetupWorkspace, TLC

CONSTANTS
    servers, requests, ids, boot, stop, none,   \* of the MCP manager
    world, plot, foundation                     \* setup: stages and a step

VARIABLES
    part,    \* the part that runs
    server, task, todo, phase

Mcp == INSTANCE McpManager WITH
    Servers <- servers, Requests <- requests, Boot <- boot, Stop <- stop,
    Ids <- ids, None <- none

\* Two stages of one legacy step.
SomeStages == <<world, plot>>
SomeLegacyStep == world :> foundation @@ plot :> foundation

\* What clients may send, of two stages: a history that is cut, continued,
\* edited at its start with an empty message behind it, or repeats a message.
Discussion(stage, texts) == [stage |-> stage, texts |-> texts]
SomeDiscussions ==
    {Discussion(world, <<1, 1, 2>>), Discussion(world, <<3, 0, 1, 2>>),
     Discussion(world, <<1, 1, 2, 3>>), Discussion(plot, <<1, 1, 2>>)}
SomeWindow == [standard |-> 2, compact |-> 1]

mcpVars == <<server, task, todo, phase>>

vars == <<part, mcpVars, agentVars, setupVars, contextVars, gatewayVars>>

NoMcp == server = 0 /\ task = 0 /\ todo = 0 /\ phase = "none"

\* Commits without an asset's job beside it, or fewer of them.
NoAssets == \A s \in AssetSteps : ~unit[s].parsed

\* A request that waits for its first chunk.
NoGateway ==
    /\ GatewayInit
    /\ request = [mode |-> "direct", tools |-> FALSE, native |-> FALSE,
                  fallback |-> FALSE]

Init ==
    /\ part \in {"mcp", "agent", "setup", "assets", "context", "gateway"}
    /\ SetupAgentInit /\ SetupInit /\ SetupContextInit
    /\ IF part = "mcp" THEN Mcp!Init ELSE NoMcp
    /\ IF part = "gateway" THEN GatewayInit ELSE NoGateway

Next ==
    /\ part' = part
    /\ \/ /\ part = "mcp" /\ Mcp!Next
          /\ UNCHANGED <<agentVars, setupVars, contextVars, gatewayVars>>
       \/ /\ part = "agent" /\ SetupAgentNext
          /\ UNCHANGED <<mcpVars, setupVars, contextVars, gatewayVars>>
       \/ /\ part \in {"setup", "assets"} /\ SetupNext
          /\ IF part = "setup" THEN NoAssets' ELSE Len(commit') <= 1
          /\ UNCHANGED <<mcpVars, agentVars, contextVars, gatewayVars>>
       \/ /\ part = "context" /\ SetupContextNext
          /\ UNCHANGED <<mcpVars, agentVars, setupVars, gatewayVars>>
       \/ /\ part = "gateway" /\ GatewayNext
          /\ UNCHANGED <<mcpVars, agentVars, setupVars, contextVars>>

\* The fairness of the two parts that have any.
Fairness ==
    /\ \A t \in requests \cup {boot, stop} :
         WF_mcpVars(part = "mcp" /\ Mcp!Proceed(t))
    /\ WF_mcpVars(part = "mcp" /\ Mcp!BootNext)
    /\ WF_mcpVars(part = "mcp" /\ Mcp!Finish)
    /\ WF_gatewayVars(part = "gateway" /\ Forward)
    /\ WF_gatewayVars(part = "gateway" /\ StreamEnds)
    /\ WF_gatewayVars(part = "gateway" /\ IdleTimeout)

Spec == Init /\ [][Next]_vars /\ Fairness

-----------------------------------------------------------------------------
(* The properties of the parts.                                           *)

\* The variables of every part keep their types.
TypeOK ==
    /\ part = "mcp" => Mcp!TypeOK
    /\ part = "agent" => SetupAgentTypeOK
    /\ part \in {"setup", "assets"} => SetupTypeOK
    /\ part = "context" => SetupContextTypeOK
    /\ part = "gateway" => GatewayTypeOK

\* Every request to connect, disconnect or delete is answered, even if no
\* server ever answers, and the shutdown ends, whatever the startup task does
\* with its cancellation (connect, shutdown_event).
AnsweredAndStopped ==
    /\ \A r \in requests :
         (part = "mcp" /\ ~Mcp!IsIdle(r)) ~> (part = "mcp" /\ Mcp!IsIdle(r))
    /\ (phase = "draining") ~> (phase = "stopped")
=============================================================================
