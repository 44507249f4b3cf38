---------------------------- MODULE PluginRuntime ----------------------------
(***************************************************************************)
(* The runtimes a claw process builds.  Every turn, and every command that *)
(* changes the session, the model, the permissions or the plugins, builds a*)
(* new runtime: it starts the MCP servers and runs the Init commands of the*)
(* enabled plugins while the old runtime is still there.  The old one is   *)
(* given up only afterwards, so a plugin is started by the new runtime and *)
(* then stopped by the old one.  A build that fails, at whatever point, and*)
(* a plugin that fails to stop end the program, which drops the runtimes it*)
(* has; what a failed build had started belongs to none of them.           *)
(***************************************************************************)
EXTENDS Integers, FiniteSets

CONSTANTS Plugins,     \* numbers, in the order of their ids
          MaxBuilds    \* bound: runtimes built
ASSUME PluginAssumption == Plugins \subseteq Nat /\ MaxBuilds \in Nat

VARIABLES
  enabled,   \* plugins enabled in the settings
  current,   \* LiveCli.runtime
  next,      \* the runtime being built or used by a turn
  pc,        \* what the program does
  todo,      \* plugins whose command is still to be run
  up,        \* plugins whose last command was an Init that succeeded
  serving,   \* MCP states of runtimes that were not shut down
  builds,
  lost       \* history: the plugins and the servers nobody is left to stop, as the
             \* build that started them failed, or stopping them did at the end
pluginVars == <<enabled, current, next, pc, todo, up, serving, builds, lost>>

\* BuiltRuntime; id 0 is no runtime.  The registry keeps what was enabled.
NoRuntime == [id |-> 0, plugins |-> {}, active |-> FALSE]

PluginInit ==
  /\ enabled \in SUBSET Plugins /\ current = NoRuntime /\ next = NoRuntime
  /\ pc = "prompt" /\ todo = {} /\ up = {} /\ serving = {} /\ builds = 0
  /\ lost = [plugins |-> {}, servers |-> {}]

First(ps) == CHOOSE p \in ps : \A q \in ps : p <= q
Final(ps) == CHOOSE p \in ps : \A q \in ps : p >= q

\* build_runtime_plugin_state: the settings are read, the servers started.
\* for: "turn" or "swap", what the runtime is built for.
Toward(for) == IF for = "turn" THEN "initTurn" ELSE "initSwap"
\* Faulty variant: plugins that run already are not started again.
BuildSparing(for) ==
  /\ pc = "prompt" /\ builds < MaxBuilds /\ (for = "turn" => current # NoRuntime)
  /\ builds' = builds + 1
  /\ next' = [id |-> builds', plugins |-> enabled, active |-> FALSE]
  /\ serving' = serving \cup {builds'}
  /\ todo' = enabled \ current.plugins /\ pc' = Toward(for)
  /\ UNCHANGED <<enabled, current, up, lost>>
Build(for) ==
  /\ pc = "prompt" /\ builds < MaxBuilds /\ (for = "turn" => current # NoRuntime)
  /\ builds' = builds + 1
  /\ next' = [id |-> builds', plugins |-> enabled, active |-> FALSE]
  /\ serving' = serving \cup {builds'}
  /\ todo' = enabled /\ pc' = Toward(for)
  /\ UNCHANGED <<enabled, current, up, lost>>

\* The settings or a plugin cannot be loaded: nothing was started.
BuildRefused(for) ==
  /\ pc = "prompt" /\ builds < MaxBuilds /\ (for = "turn" => current # NoRuntime)
  /\ builds' = builds + 1 /\ pc' = "drop"
  /\ UNCHANGED <<enabled, current, next, todo, up, serving, lost>>

\* PluginRegistry::initialize, in the order of the ids.
StartingUp == pc \in {"initTurn", "initSwap"}
StartsPlugin ==
  /\ StartingUp /\ todo # {}
  /\ up' = up \cup {First(todo)} /\ todo' = todo \ {First(todo)}
  /\ UNCHANGED <<enabled, current, next, pc, serving, builds, lost>>
\* The tools clash, an Init command fails, or all are up and the policy or the
\* provider's client cannot be made: the error drops what was built, and its
\* servers and the plugins it started are left to themselves.
BuildFails ==
  /\ StartingUp /\ next' = NoRuntime /\ todo' = {} /\ pc' = "drop"
  /\ lost' = [plugins |-> lost.plugins \cup (next.plugins \ todo),
              servers |-> lost.servers \cup {next.id}]
  /\ UNCHANGED <<enabled, current, up, serving, builds>>
\* BuiltRuntime::new; LiveCli::new has no runtime to replace.
Built ==
  /\ StartingUp /\ todo = {}
  /\ next' = [next EXCEPT !.active = TRUE]
  /\ IF pc = "initTurn" THEN pc' = "turn" /\ UNCHANGED todo
     ELSE pc' = "stopOld" /\ todo' = current.plugins
  /\ UNCHANGED <<enabled, current, up, serving, builds, lost>>

\* run_turn of the new runtime ends.
TurnEnds ==
  /\ pc = "turn" /\ pc' = "stopOld" /\ todo' = current.plugins
  /\ UNCHANGED <<enabled, current, next, up, serving, builds, lost>>
\* runtime.shutdown_plugins, and the error is passed on.
TurnFails ==
  /\ pc = "turn" /\ pc' = "stopNext" /\ todo' = next.plugins
  /\ UNCHANGED <<enabled, current, next, up, serving, builds, lost>>

\* PluginRegistry::shutdown, in the reverse order.
Stopping == pc \in {"stopOld", "stopNext", "dropNext", "dropCurrent"}
StopsPlugin ==
  /\ Stopping /\ todo # {}
  /\ up' = up \ {Final(todo)} /\ todo' = todo \ {Final(todo)}
  /\ UNCHANGED <<enabled, current, next, pc, serving, builds, lost>>
\* The first command that fails ends it, and plugins_active stays true, so that
\* the drop tries again; the failure of a drop is ignored.
AfterDrop(which) == IF which = "dropNext" THEN "drop" ELSE "over"
StopFails ==
  /\ Stopping /\ todo # {}
  /\ todo' = {}
  /\ IF pc \in {"stopOld", "stopNext"} THEN pc' = "drop" /\ UNCHANGED <<current, next, lost>>
     ELSE /\ pc' = AfterDrop(pc) /\ lost' = [lost EXCEPT !.plugins = @ \cup todo]
          /\ IF pc = "dropNext" THEN next' = NoRuntime /\ UNCHANGED current
             ELSE current' = NoRuntime /\ UNCHANGED next
  /\ UNCHANGED <<enabled, up, serving, builds>>

\* Faulty variant: the servers of the old runtime are kept.
ReplacedOnly ==
  /\ pc = "stopOld" /\ todo = {}
  /\ current' = next /\ next' = NoRuntime /\ pc' = "prompt"
  /\ UNCHANGED <<enabled, todo, up, serving, builds, lost>>
\* replace_runtime: the old runtime is dropped, which shuts its servers down.
Replaced ==
  /\ pc = "stopOld" /\ todo = {}
  /\ current' = next /\ next' = NoRuntime /\ serving' = serving \ {current.id}
  /\ pc' = "prompt"
  /\ UNCHANGED <<enabled, todo, up, builds, lost>>
GivenUp ==
  /\ pc = "stopNext" /\ todo = {}
  /\ next' = [next EXCEPT !.active = FALSE] /\ pc' = "drop"
  /\ UNCHANGED <<enabled, current, todo, up, serving, builds, lost>>

\* The program ends: at the prompt, or with an error.
ProgramExits ==
  /\ pc = "prompt" /\ current # NoRuntime /\ pc' = "drop"
  /\ UNCHANGED <<enabled, current, next, todo, up, serving, builds, lost>>
\* Drop for BuiltRuntime: the turn's runtime goes before the program's.
Drop(runtime, step) ==
  /\ serving' = serving \ {runtime.id}
  /\ todo' = IF runtime.active THEN runtime.plugins ELSE {}
  /\ pc' = step
DropNext == pc = "drop" /\ next # NoRuntime /\ Drop(next, "dropNext")
DropCurrent == pc = "drop" /\ next = NoRuntime /\ Drop(current, "dropCurrent")
Drops ==
  /\ DropNext \/ DropCurrent
  /\ UNCHANGED <<enabled, current, next, up, builds, lost>>
Dropped ==
  /\ pc \in {"dropNext", "dropCurrent"} /\ todo = {} /\ pc' = AfterDrop(pc)
  /\ IF pc = "dropNext" THEN next' = NoRuntime /\ UNCHANGED current
     ELSE current' = NoRuntime /\ UNCHANGED next
  /\ UNCHANGED <<enabled, todo, up, serving, builds, lost>>

\* /plugins enable, disable, install, uninstall, here or in another claw.
Changes(plugin) ==
  /\ pc # "over"
  /\ enabled' = IF plugin \in enabled THEN enabled \ {plugin} ELSE enabled \cup {plugin}
  /\ UNCHANGED <<current, next, pc, todo, up, serving, builds, lost>>

PluginNext ==
  \/ \E for \in {"turn", "swap"} : Build(for) \/ BuildRefused(for)
  \/ StartsPlugin \/ BuildFails \/ Built \/ TurnEnds \/ TurnFails \/ StopsPlugin \/ StopFails
  \/ Replaced \/ GivenUp \/ ProgramExits \/ Drops \/ Dropped
  \/ \E plugin \in Plugins : Changes(plugin)
PluginSpec == PluginInit /\ [][PluginNext]_pluginVars

(***************************************************************************)
(* Properties                                                              *)
(***************************************************************************)
\* Every variable stays in its type.
PluginTypeOK ==
  /\ enabled \subseteq Plugins /\ todo \subseteq Plugins /\ up \subseteq Plugins
  /\ lost.plugins \subseteq Plugins
  /\ current.id \in 0..builds /\ next.id \in 0..builds
  /\ pc \in {"prompt", "initTurn", "initSwap", "turn", "stopOld", "stopNext", "drop",
             "dropNext", "dropCurrent", "over"}

\* While a turn runs, every plugin whose hooks and tools it uses is started,
\* although the runtime of the turn before stopped it when it was replaced, and
\* whatever was enabled or disabled since.
PluginsAreUpInTurn == pc = "turn" => next.plugins \subseteq up

\* When the program has ended, whatever of its runtimes still runs was lost to a
\* failure: a plugin whose last command was its start had been started by a build
\* that failed, or the command that stops it, or one before it, failed in the last
\* drop; MCP servers that run are those of a build that failed.
LeftByFailureOnly == pc = "over" => up \subseteq lost.plugins /\ serving \subseteq lost.servers
=============================================================================
