--------------------------- MODULE AgentPrograms ---------------------------
(***************************************************************************)
(* The programs around the SDK: the MCP server, the demo agent and the     *)
(* stress test, the React hooks, the views of the registry, and payments   *)
(* from a Nulth account.  They share the SDK and no state, so one          *)
(* behaviour runs one of them, chosen by tools.                            *)
(***************************************************************************)
EXTENDS McpServer, DemoAgent, ReactHooks, LiveFeeds, NulthVault

ASSUME ToolsAssumption == Tools \subseteq {"pay", "sessions", "agent", "hooks", "feeds", "vault"}

mcpVars == <<cacheVars, serverVars>>
programVars == <<vars, agentVars, hookVars, feedVars, vaultVars>>

\* What does not run starts in one way only.
ProgramsInit ==
  /\ Init /\ AgentInit /\ HookInit /\ FeedInit /\ VaultInit
  /\ tools # "pay" => Manifest(1) = CHOOSE m \in Manifests : TRUE
  /\ tools # "agent" => program = CHOOSE p \in Programs : TRUE
  /\ tools # "feeds" => view = (CHOOSE v \in Views : TRUE) /\ rows = 0 /\ shown = <<>>
  /\ tools # "vault" => custody = "client" /\ network = "testnet"

ProgramsNext ==
  \/ tools \in {"pay", "sessions"} /\ Next /\ UNCHANGED <<agentVars, hookVars, feedVars, vaultVars>>
  \/ tools = "agent" /\ AgentStep /\ UNCHANGED <<tools, mcpVars, hookVars, feedVars, vaultVars>>
  \/ tools = "hooks" /\ HookStep /\ UNCHANGED <<tools, mcpVars, agentVars, feedVars, vaultVars>>
  \/ tools = "feeds" /\ FeedStep /\ UNCHANGED <<tools, mcpVars, agentVars, hookVars, vaultVars>>
  \/ tools = "vault" /\ VaultStep /\ UNCHANGED <<tools, mcpVars, agentVars, hookVars, feedVars>>

\* The timeout of a shutdown of the MCP server fires.
ProgramsSpec ==
  ProgramsInit /\ [][ProgramsNext]_programVars
    /\ WF_programVars(Exit /\ UNCHANGED <<agentVars, hookVars, feedVars, vaultVars>>)
=============================================================================
