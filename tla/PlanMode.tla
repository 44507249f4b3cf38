------------------------------ MODULE PlanMode ------------------------------
(***************************************************************************)
(* Plan mode of a worktree: EnterPlanMode writes "plan" as the default     *)
(* permission mode into .claw/settings.local.json and keeps the mode it    *)
(* replaced in tool-state/plan-mode.json; ExitPlanMode puts it back.  The  *)
(* Config tool and the user change the mode too.  An operation reads the   *)
(* whole document, changes it and writes it back in place: nothing locks   *)
(* it, and a write that is cut short leaves an empty or a broken file.     *)
(***************************************************************************)
EXTENDS Integers, FiniteSets

CONSTANTS Claws,      \* claws, and the threads of their sub-agents
          LocalModes, \* modes but plan: default, acceptEdits, ...
          Plan, Unset, Broken,
          MaxOps, MaxCuts   \* bounds: operations; processes killed
ASSUME PlanAssumption ==
  /\ LocalModes \cap {Plan, Unset, Broken} = {} /\ Cardinality({Plan, Unset, Broken}) = 3
  /\ MaxOps \in Nat /\ MaxCuts \in Nat

VARIABLES
  settings,   \* permissions.defaultMode of the settings file
  saved,      \* plan-mode.json: the mode to restore, within a set; or Broken
  op,         \* the operation of each claw
  chosen,     \* the mode last chosen by Config or by hand
  overlapped, \* two operations ran at once
  torn,       \* a write of the settings was cut short
  ops, cuts
planVars == <<settings, saved, op, chosen, overlapped, torn, ops, cuts>>

\* pc: "look" is to read the saved state, "save" to write it, "write" to write
\* the settings, "clear" to remove the saved state.
NoOp == [pc |-> "idle", kind |-> "none", read |-> Unset, value |-> Unset]
PlanInit ==
  /\ settings \in LocalModes \cup {Unset} /\ chosen = settings
  /\ saved = {} /\ op = [c \in Claws |-> NoOp]
  /\ overlapped = FALSE /\ torn = FALSE /\ ops = 0 /\ cuts = 0

AtRest(c) == op[c].pc = "idle"
Others(c) == \E d \in Claws \ {c} : ~AtRest(d)
Goes(c, pc) == op' = [op EXCEPT ![c].pc = pc]
Done(c) == op' = [op EXCEPT ![c] = NoOp]
Count == <<overlapped, torn, ops, cuts>>

\* read_json_object; a broken document ends every operation with an error.
Start(c, kind, value) ==
  /\ AtRest(c) /\ ops < MaxOps /\ ops' = ops + 1
  /\ settings # Broken
  /\ op' = [op EXCEPT ![c] = [pc |-> IF kind = "config" THEN "write" ELSE "look",
                              kind |-> kind, read |-> settings, value |-> value]]
  /\ overlapped' = (overlapped \/ Others(c))
  /\ UNCHANGED <<settings, saved, chosen, torn, cuts>>

\* Faulty variant: state that is there is taken to be this operation's own.
LooksToEnterAgain(c) ==
  /\ op[c].pc = "look" /\ op[c].kind = "enter"
  /\ IF saved = Broken \/ op[c].read = Plan THEN Done(c)
     ELSE IF saved # {} THEN op' = [op EXCEPT ![c].pc = "write", ![c].value = Plan]
     ELSE Goes(c, "save")
  /\ UNCHANGED <<saved, settings, chosen, Count>>
\* execute_enter_plan_mode, from read_plan_mode_state on.
LooksToEnter(c) ==
  /\ op[c].pc = "look" /\ op[c].kind = "enter"
  /\ IF saved = Broken \/ op[c].read = Plan THEN Done(c) /\ UNCHANGED saved
     ELSE Goes(c, "save") /\ saved' = {}
  /\ UNCHANGED <<settings, chosen, Count>>
SavesMode(c) ==
  /\ op[c].pc = "save"
  /\ saved' = {op[c].read}
  /\ op' = [op EXCEPT ![c].pc = "write", ![c].value = Plan]
  /\ UNCHANGED <<settings, chosen, Count>>

\* execute_exit_plan_mode: the state is stale when the mode is not plan.
LooksToExit(c) ==
  /\ op[c].pc = "look" /\ op[c].kind = "exit"
  /\ IF saved \in {Broken, {}} THEN Done(c) /\ UNCHANGED saved
     ELSE IF op[c].read # Plan THEN Done(c) /\ saved' = {}
     ELSE /\ \E mode \in saved : op' = [op EXCEPT ![c].pc = "write", ![c].value = mode]
          /\ UNCHANGED saved
  /\ UNCHANGED <<settings, chosen, Count>>

\* write_json_object, of execute_config too.
Writes(c) ==
  /\ op[c].pc = "write"
  /\ settings' = op[c].value
  /\ IF op[c].kind = "exit" THEN Goes(c, "clear") ELSE Done(c)
  /\ chosen' = IF op[c].kind = "config" THEN op[c].value ELSE chosen
  /\ UNCHANGED <<saved, Count>>
ClearsMode(c) ==
  /\ op[c].pc = "clear"
  /\ saved' = {} /\ Done(c)
  /\ UNCHANGED <<settings, chosen, Count>>

\* The claw is killed between two steps, or in the middle of one of its writes.
Killed(c) ==
  /\ ~AtRest(c) /\ cuts < MaxCuts /\ cuts' = cuts + 1
  /\ Done(c)
  /\ UNCHANGED <<settings, saved, chosen, overlapped, torn, ops>>
TearsSettings(c, left) ==
  /\ op[c].pc = "write" /\ cuts < MaxCuts /\ cuts' = cuts + 1
  /\ settings' = left /\ torn' = TRUE /\ Done(c)
  /\ UNCHANGED <<saved, chosen, overlapped, ops>>
TearsState(c, left) ==
  /\ op[c].pc = "save" /\ cuts < MaxCuts /\ cuts' = cuts + 1
  /\ saved' = left /\ Done(c)
  /\ UNCHANGED <<settings, chosen, overlapped, torn, ops>>

\* The user edits the file.
Edits(mode) ==
  /\ ops < MaxOps /\ ops' = ops + 1
  /\ settings' = mode /\ chosen' = mode
  /\ overlapped' = (overlapped \/ \E c \in Claws : ~AtRest(c))
  /\ UNCHANGED <<saved, op, torn, cuts>>

PlanNext ==
  \/ \E c \in Claws :
       \/ \E kind \in {"enter", "exit"} : Start(c, kind, Unset)
       \/ \E mode \in LocalModes \cup {Plan} : Start(c, "config", mode)
       \/ LooksToEnter(c) \/ SavesMode(c) \/ LooksToExit(c) \/ Writes(c) \/ ClearsMode(c)
       \/ Killed(c)
       \/ \E left \in {Unset, Broken} : TearsSettings(c, left)
       \/ \E left \in {{}, Broken} : TearsState(c, left)
  \/ \E mode \in LocalModes \cup {Plan, Unset} : Edits(mode)
PlanSpec == PlanInit /\ [][PlanNext]_planVars

(***************************************************************************)
(* Properties                                                              *)
(***************************************************************************)
\* Every variable stays in its type.
PlanTypeOK ==
  /\ settings \in LocalModes \cup {Plan, Unset, Broken}
  /\ chosen \in LocalModes \cup {Plan, Unset}
  /\ \A c \in Claws : op[c].pc \in {"idle", "look", "save", "write", "clear"}

\* Plan mode can always be undone: the mode the user chose is in force, or plan
\* mode is and that mode is the one ExitPlanMode will put back.  It is so at
\* every point at which a claw may be killed, and after any sequence of enters,
\* exits and choices, with state that a killed operation left behind.  (Not so
\* when operations overlap or a write of the settings is cut short.)
PlanModeIsUndone ==
  ~overlapped /\ ~torn /\ chosen # Plan
    => \/ settings = chosen
       \/ settings = Plan /\ saved = {chosen}
=============================================================================
