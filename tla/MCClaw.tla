------------------------------- MODULE MCClaw -------------------------------
(***************************************************************************)
(* The parts of claw on one instance each: worker boot, the sessions of one*)
(* process and of two that share a directory, a tool call, the MCP servers,*)
(* a request to a provider, plan mode, the plugins of a process and those  *)
(* on disk.  They share no state here: part says which of them runs, so the*)
(* states explored are the sum and not the product of theirs.              *)
(***************************************************************************)
EXTENDS WorkerBoot, ClawSession, ToolCall, Mcp, ApiStream, PlanMode, PluginRuntime,
        PluginStore, TLC

VARIABLE part
mcVars == <<vars, sessionVars, toolVars, mcpVars, apiVars, planVars, pluginVars, storeVars,
            part>>

Rest(p) ==
  /\ p # "worker" => UNCHANGED vars
  /\ p \notin {"session", "sessions"} => UNCHANGED sessionVars
  /\ p # "tool" => UNCHANGED toolVars
  /\ p # "mcp" => UNCHANGED mcpVars
  /\ p # "api" => UNCHANGED apiVars
  /\ p # "plan" => UNCHANGED planVars
  /\ p # "plugins" => UNCHANGED pluginVars
  /\ p # "store" => UNCHANGED storeVars

\* The first process alone, with every command and fault; or two processes,
\* which give fewer commands.
Alone == \A q \in Procs : q # (CHOOSE p \in Procs : TRUE) => cli'[q].pc = "off"
Together ==
  /\ commands' <= 1 /\ faults' = 0 /\ rotations' <= 1 /\ Cardinality(used') <= 2
  /\ \A q \in Procs : Cardinality(cli'[q].todo) <= 1

\* The other parts start in one of their states.
ClawInit ==
  /\ part \in {"worker", "session", "sessions", "tool", "mcp", "api", "plan", "plugins",
               "store"}
  /\ Init /\ SessionInit /\ McpInit
  /\ ToolInit /\ (part # "tool" => policy = [policy EXCEPT !.mode = ReadOnly, !.required = ReadOnly,
       !.deny = {}, !.ask = {}, !.allow = {}, !.prompter = FALSE] /\ call.hooks + call.post = 0)
  /\ ApiInit /\ (part # "api" => ask.reader = "cli" /\ ask.anthropic /\ ask.postTool)
  /\ PlanInit /\ (part # "plan" => settings = Unset)
  /\ StoreInit
  /\ PluginInit /\ (part # "plugins" => enabled = {})
ClawNext ==
  /\ UNCHANGED part /\ Rest(part)
  /\ \/ part = "worker" /\ Next
     \/ part = "session" /\ SessionNext /\ Alone
     \/ part = "sessions" /\ SessionNext /\ Together
     \/ part = "tool" /\ ToolNext
     \/ part = "mcp" /\ McpNext
     \/ part = "api" /\ ApiNext
     \/ part = "plan" /\ PlanNext
     \/ part = "plugins" /\ PluginNext
     \/ part = "store" /\ StoreNext
ClawSpec == ClawInit /\ [][ClawNext]_mcVars

\* A plugin that comes with claw and one that is installed, of the same name.
OneName == [id \in PluginIds |-> "name"]

\* No property of WorkerBoot tells workers or prompts apart.
Symmetry == Permutations(Workers) \cup Permutations(Prompts)

\* Every variable stays in its type.
ClawTypeOK ==
  /\ TypeOK /\ SessionTypeOK /\ ToolTypeOK /\ McpTypeOK /\ ApiTypeOK /\ PlanTypeOK
  /\ PluginTypeOK /\ StoreTypeOK
=============================================================================
