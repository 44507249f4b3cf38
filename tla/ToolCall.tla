------------------------------ MODULE ToolCall ------------------------------
(***************************************************************************)
(* One tool call of a claw turn: the PreToolUse hooks run one after the    *)
(* other, the policy decides on the input they leave, the user may be      *)
(* asked, the tool runs, the PostToolUse or PostToolUseFailure hooks run,  *)
(* and a result is pushed.  Ctrl-C raises the abort signal at any moment;  *)
(* only the hooks look at it.                                              *)
(***************************************************************************)
EXTENDS Integers, Sequences, FiniteSets

CONSTANTS Inputs,     \* tool inputs that the permission rules tell apart
          PreHooks, PostHooks,   \* bounds: commands configured for an event
          Nil         \* nothing said, nothing run
ASSUME ToolCallAssumption ==
  Inputs # {} /\ Nil \notin Inputs /\ PreHooks \in Nat /\ PostHooks \in Nat

VARIABLES
  policy,     \* the mode, the mode the tool requires, the three rule lists, the prompter
  aborted,    \* HookAbortSignal
  call        \* the call
toolVars == <<policy, aborted, call>>

\* PermissionMode in its order; prompt and allow are not modes claw starts in.
Modes == 1..3
ReadOnly == 1
WorkspaceWrite == 2
DangerFullAccess == 3
Overrides == {"allow", "deny", "ask"}

(***************************************************************************)
(* authorize_with_context                                                  *)
(***************************************************************************)
Grants(input) == input \in policy.allow \/ policy.mode >= policy.required
Escalates == policy.mode = WorkspaceWrite /\ policy.required = DangerFullAccess
\* "allow", "deny", or "prompt" when the user decides.
Forbids(input, override) == input \in policy.deny \/ override = "deny"
\* Faulty variant: a hook that says allow silences the ask rules.
AsksUnlessAllowed(input, override) ==
  override = "ask" \/ (input \in policy.ask /\ override # "allow")
Asks(input, override) == override = "ask" \/ input \in policy.ask
Authorize(input, override) ==
  IF Forbids(input, override) THEN "deny"
  ELSE IF Asks(input, override) THEN "prompt"
  ELSE IF Grants(input) THEN "allow"
  ELSE IF Escalates THEN "prompt" ELSE "deny"

(***************************************************************************)
(* run_commands.  How a hook command ends, with what its output says.      *)
(***************************************************************************)
HookEnds == {"allow", "deny", "failed", "cancelled"}
\* parse_hook_output: an override, another input, both or neither; a command
\* that was cancelled says nothing.
Outputs == [override : Overrides \cup {Nil}, input : Inputs \cup {Nil}]
Silent == [override |-> Nil, input |-> Nil]
\* merge_parsed_hook_output: what a later command says replaces what an
\* earlier one said.
Merged(c, out) ==
  [c EXCEPT !.override = IF out.override = Nil THEN @ ELSE out.override,
            !.updated = IF out.input = Nil THEN @ ELSE out.input]
Effective(c) == IF c.updated = Nil THEN c.input ELSE c.updated

ToolInit ==
  /\ policy \in [mode : Modes, required : Modes, deny : {{}} \cup {{i} : i \in Inputs},
                 ask : {{}} \cup {{i} : i \in Inputs}, allow : {{}} \cup {{i} : i \in Inputs},
                 prompter : BOOLEAN]
  /\ aborted = FALSE
  /\ call \in [pc : {"pre"}, hook : {0}, hooks : {0, PreHooks}, post : {0, PostHooks},
               input : {CHOOSE i \in Inputs : TRUE}, override : {Nil}, updated : {Nil},
               approved : {Nil}, ran : {Nil}, output : {Nil}, denials : {0},
               objections : {0}, error : {FALSE}]

\* HookAbortMonitor: Ctrl-C.
CtrlC == ~aborted /\ aborted' = TRUE /\ UNCHANGED <<policy, call>>

Refused(c) == [c EXCEPT !.pc = "done", !.error = TRUE]
\* No hook command is left: the policy is asked.
PreDone ==
  /\ call.pc = "pre" /\ call.hook = call.hooks
  /\ LET verdict == Authorize(Effective(call), call.override)
     IN call' = CASE verdict = "deny" -> Refused(call)
                  [] verdict = "prompt" /\ ~policy.prompter -> Refused(call)
                  [] verdict = "prompt" /\ policy.prompter -> [call EXCEPT !.pc = "prompt"]
                  [] verdict = "allow" -> [call EXCEPT !.pc = "run"]
  /\ UNCHANGED <<policy, aborted>>

\* The next command ends.  The signal is looked at before the first command
\* and while one runs, so an aborted call may still see a command finish.
PreHook(end, out) ==
  /\ call.pc = "pre" /\ call.hook < call.hooks
  /\ end = "cancelled" => aborted
  /\ aborted /\ call.hook = 0 => end = "cancelled"
  /\ end \in {"cancelled", "failed"} => out = Silent
  /\ LET c == [Merged(call, out) EXCEPT !.hook = @ + 1]
     IN call' = IF end = "allow" THEN c ELSE Refused([c EXCEPT !.denials = @ + 1])
  /\ UNCHANGED <<policy, aborted>>

\* CliPermissionPrompter::decide shows the input that would run.
Decide(yes) ==
  /\ call.pc = "prompt"
  /\ call' = IF yes THEN [call EXCEPT !.pc = "run", !.approved = Effective(call)]
             ELSE Refused(call)
  /\ UNCHANGED <<policy, aborted>>

\* ToolExecutor::execute; a tool outside --allowedTools answers an error too.
Execute(ok) ==
  /\ call.pc = "run"
  /\ call' = [call EXCEPT !.pc = "post", !.hook = 0, !.ran = Effective(call),
                          !.output = IF ok THEN "ok" ELSE "error", !.error = ~ok]
  /\ UNCHANGED <<policy, aborted>>

\* Faulty variant: a hook objects, and the result stays a success.
PostHookUnheard(end) ==
  /\ call.pc = "post" /\ call.hook < call.post
  /\ end = "cancelled" => aborted
  /\ aborted /\ call.hook = 0 => end = "cancelled"
  /\ call' = [call EXCEPT !.hook = IF end = "allow" THEN @ + 1 ELSE call.post,
                          !.objections = IF end = "allow" THEN @ ELSE @ + 1]
  /\ UNCHANGED <<policy, aborted>>
\* The hooks of the outcome; an objection turns the result into an error.
PostHook(end) ==
  /\ call.pc = "post" /\ call.hook < call.post
  /\ end = "cancelled" => aborted
  /\ aborted /\ call.hook = 0 => end = "cancelled"
  /\ call' = [call EXCEPT !.hook = IF end = "allow" THEN @ + 1 ELSE call.post,
                          !.objections = IF end = "allow" THEN @ ELSE @ + 1,
                          !.error = IF end = "allow" THEN @ ELSE TRUE]
  /\ UNCHANGED <<policy, aborted>>
PostDone ==
  /\ call.pc = "post" /\ call.hook = call.post
  /\ call' = [call EXCEPT !.pc = "done"]
  /\ UNCHANGED <<policy, aborted>>

ToolNext ==
  \/ CtrlC \/ PreDone \/ PostDone
  \/ \E end \in HookEnds, out \in Outputs : PreHook(end, out)
  \/ \E end \in HookEnds : PostHook(end)
  \/ \E b \in BOOLEAN : Decide(b) \/ Execute(b)
ToolSpec == ToolInit /\ [][ToolNext]_toolVars

(***************************************************************************)
(* Properties                                                              *)
(***************************************************************************)
\* The call stays in its type.
ToolTypeOK ==
  /\ call.pc \in {"pre", "prompt", "run", "post", "done"}
  /\ call.override \in Overrides \cup {Nil} /\ call.updated \in Inputs \cup {Nil}
  /\ call.ran \in Inputs \cup {Nil} /\ call.approved \in Inputs \cup {Nil}
  /\ aborted \in BOOLEAN

\* What the policy lets through without asking and without hooks.
PolicyAllows(input) == input \notin policy.deny \cup policy.ask /\ Grants(input)
\* Hooks narrow what may run and never widen it: whatever they answered, and
\* whichever input they put in place of the model's, the input that ran is not
\* under a deny rule, and either the policy allows that very input by itself
\* or the user approved that very input.
NoToolWithoutConsent ==
  call.ran # Nil =>
    /\ call.ran \notin policy.deny
    /\ PolicyAllows(call.ran) \/ call.approved = call.ran

\* A tool never runs after a hook objected, by the way it ended (denials) or by its last
\* word on the permission.  A result that is not an error is of a tool that ran to its end
\* with no hook objecting, before or after (objections); one that is an error is of a tool
\* that did not run, failed, or was objected to (run_turn, the tool loop).
SuccessIsWitnessed ==
  /\ call.ran # Nil => call.denials = 0 /\ call.override # "deny"
  /\ call.pc = "done" =>
       /\ ~call.error => call.output = "ok" /\ call.denials = 0 /\ call.objections = 0
       /\ call.error => call.ran = Nil \/ call.output = "error" \/ call.objections > 0
       /\ call.ran = Nil => call.error
=============================================================================
