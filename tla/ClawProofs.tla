----------------------------- MODULE ClawProofs -----------------------------
(***************************************************************************)
(* Proofs about the parts of claw-code, for any rules and hooks, servers,  *)
(* processes, plugins and claws.                                           *)
(***************************************************************************)
EXTENDS MCClaw, WorkerBootProofs, ClawDiskProofs, FiniteSetTheorems, SequenceTheorems,
        WellFoundedInduction, TLAPS

\* A set of numbers has a least one.
LEMMA HasLeast ==
  ASSUME NEW T, T \subseteq Nat, T # {}
  PROVE  \E m \in T : \A k \in T : ~(k < m)
<1>1. PICK m \in T : \A k \in T : ~(<<k, m>> \in OpToRel(<, Nat))
  BY WFMin, NatLessThanWellFounded, Zenon
<1>2. QED BY <1>1 DEF OpToRel

(***************************************************************************)
(* ToolCall                                                                *)
(***************************************************************************)
ToolCalls == [pc : {"pre", "prompt", "run", "post", "done"}, hook : Nat, hooks : Nat, post : Nat,
          input : Inputs, override : Overrides \cup {Nil}, updated : Inputs \cup {Nil},
          approved : Inputs \cup {Nil}, ran : Inputs \cup {Nil},
          output : {"ok", "error", Nil}, denials : Nat, objections : Nat, error : BOOLEAN]
Untouched ==
  call.ran = Nil /\ call.denials = 0 /\ call.objections = 0 /\ call.error = FALSE
\* What each step of a call may take as decided by the steps before it.
ToolInv ==
  /\ call \in ToolCalls
  /\ call.pc \in {"pre", "prompt", "run"} => Untouched
  /\ call.pc \in {"prompt", "run"} => call.override # "deny"
  /\ call.pc = "prompt" => Effective(call) \notin policy.deny
  /\ call.pc = "run" =>
       /\ Effective(call) \notin policy.deny
       /\ PolicyAllows(Effective(call)) \/ call.approved = Effective(call)
  /\ call.pc = "post" =>
       /\ call.ran # Nil
       /\ call.error = FALSE => call.output = "ok" /\ call.objections = 0
       /\ call.error = TRUE => call.output = "error" \/ call.objections > 0
  /\ NoToolWithoutConsent
  /\ SuccessIsWitnessed

LEMMA ToolInitInv == ToolInit => ToolInv
<1> SUFFICES ASSUME ToolInit PROVE ToolInv
  OBVIOUS
<1> DEFINE first == CHOOSE i \in Inputs : TRUE
<1>1. first \in Inputs
  BY ToolCallAssumption
<1>a. call \in [pc : {"pre"}, hook : {0}, hooks : {0, PreHooks}, post : {0, PostHooks},
               input : {first}, override : {Nil}, updated : {Nil},
               approved : {Nil}, ran : {Nil}, output : {Nil}, denials : {0}, objections : {0},
               error : {FALSE}]
  BY DEF ToolInit
<1> HIDE DEF first
<1>2. call \in ToolCalls /\ call.pc = "pre" /\ Untouched
  <2>1. PICK hooks \in Nat, post \in Nat :
          call = [pc |-> "pre", hook |-> 0, hooks |-> hooks, post |-> post, input |-> first,
                  override |-> Nil, updated |-> Nil, approved |-> Nil, ran |-> Nil,
                  output |-> Nil, denials |-> 0, objections |-> 0, error |-> FALSE]
    <3>1. call.hooks \in Nat /\ call.post \in Nat
      BY <1>a, ToolCallAssumption
    <3>2. call = [pc |-> "pre", hook |-> 0, hooks |-> call.hooks, post |-> call.post,
                  input |-> first, override |-> Nil, updated |-> Nil, approved |-> Nil,
                  ran |-> Nil, output |-> Nil, denials |-> 0, objections |-> 0, error |-> FALSE]
      BY <1>a
    <3>3. QED BY <3>1, <3>2
  <2>2. QED BY <1>1, <2>1 DEF ToolCalls, Untouched
<1>3. QED
  BY <1>2 DEF ToolInv, Untouched, NoToolWithoutConsent, SuccessIsWitnessed

LEMMA EffectiveIsInput == ASSUME call \in ToolCalls PROVE Effective(call) \in Inputs
BY DEF ToolCalls, Effective

LEMMA ToolNextInv == ToolInv /\ [ToolNext]_toolVars => ToolInv'
<1> SUFFICES ASSUME ToolInv, [ToolNext]_toolVars PROVE ToolInv'
  OBVIOUS
<1>0. call \in ToolCalls /\ Effective(call) \in Inputs /\ Nil \notin Inputs
  BY EffectiveIsInput, ToolCallAssumption DEF ToolInv
<1>1. CASE CtrlC \/ UNCHANGED toolVars
  BY <1>1 DEF CtrlC, toolVars, ToolInv, Untouched, Effective, PolicyAllows, Grants,
     NoToolWithoutConsent, SuccessIsWitnessed
<1>2. CASE PreDone
  <2>1. call.pc = "pre" /\ Untouched /\ policy' = policy
    BY <1>2 DEF PreDone, ToolInv
  <2>2. CASE call' = Refused(call)
    BY <1>0, <2>1, <2>2 DEF Refused, ToolInv, Untouched, ToolCalls, NoToolWithoutConsent,
       SuccessIsWitnessed
  <2>3. CASE call' = [call EXCEPT !.pc = "prompt"]
               /\ Authorize(Effective(call), call.override) = "prompt"
    <3>1. Effective(call) \notin policy.deny /\ call.override # "deny"
      BY <2>3 DEF Authorize, Forbids
    <3>2. QED
      BY <1>0, <2>1, <2>3, <3>1 DEF ToolInv, Untouched, ToolCalls, Effective, NoToolWithoutConsent,
         SuccessIsWitnessed
  <2>4. CASE call' = [call EXCEPT !.pc = "run"]
               /\ Authorize(Effective(call), call.override) = "allow"
    <3>1. /\ Effective(call) \notin policy.deny /\ PolicyAllows(Effective(call))
          /\ call.override # "deny"
      BY <2>4 DEF Authorize, Forbids, Asks, PolicyAllows
    <3>2. QED
      BY <1>0, <2>1, <2>4, <3>1 DEF ToolInv, Untouched, ToolCalls, Effective, PolicyAllows, Grants,
         NoToolWithoutConsent, SuccessIsWitnessed
  <2>5. Authorize(Effective(call), call.override) \in {"deny", "prompt", "allow"}
    BY DEF Authorize
  <2>6. QED BY <1>2, <2>2, <2>3, <2>4, <2>5 DEF PreDone
<1>3. ASSUME NEW end \in HookEnds, NEW out \in Outputs, PreHook(end, out) PROVE ToolInv'
  <2> DEFINE c == [Merged(call, out) EXCEPT !.hook = @ + 1]
  <2>1. call.pc = "pre" /\ Untouched /\ policy' = policy
    BY <1>3 DEF PreHook, ToolInv
  <2>2. /\ c \in ToolCalls /\ c.pc = "pre" /\ c.ran = Nil /\ c.denials = 0 /\ c.error = FALSE
        /\ c.objections = 0
    <3>1. /\ Merged(call, out) \in ToolCalls /\ Merged(call, out).pc = call.pc
          /\ Merged(call, out).ran = call.ran /\ Merged(call, out).denials = call.denials
          /\ Merged(call, out).error = call.error
          /\ Merged(call, out).objections = call.objections
      <4>1. out.override \in Overrides \cup {Nil} /\ out.input \in Inputs \cup {Nil}
        BY <1>3 DEF Outputs
      <4>2. QED BY <1>0, <4>1 DEF Merged, ToolCalls
    <3>2. QED BY <2>1, <3>1 DEF ToolCalls, Untouched
  <2>3. call' = IF end = "allow" THEN c ELSE Refused([c EXCEPT !.denials = @ + 1])
    BY <1>3 DEF PreHook
  <2> HIDE DEF c
  <2>4. CASE end = "allow"
    <3>1. call' = c
      BY <2>3, <2>4
    <3>2. QED
      BY <1>0, <2>2, <3>1 DEF ToolInv, Untouched, NoToolWithoutConsent, SuccessIsWitnessed
  <2>5. CASE end # "allow"
    <3>1. call' = Refused([c EXCEPT !.denials = @ + 1])
      BY <2>3, <2>5
    <3>2. /\ call' \in ToolCalls /\ call'.pc = "done" /\ call'.ran = Nil /\ call'.error = TRUE
      <4> DEFINE d == [c EXCEPT !.denials = @ + 1]
      <4>1. d \in ToolCalls /\ d.ran = Nil
        BY <2>2 DEF ToolCalls
      <4>2. call' = [d EXCEPT !.pc = "done", !.error = TRUE]
        BY <3>1 DEF Refused
      <4> HIDE DEF d
      <4>3. QED BY <4>1, <4>2 DEF ToolCalls
    <3>3. QED BY <3>2 DEF ToolInv, NoToolWithoutConsent, SuccessIsWitnessed
  <2>6. QED BY <2>4, <2>5
<1>4. ASSUME NEW yes \in BOOLEAN, Decide(yes) PROVE ToolInv'
  <2>1. /\ call.pc = "prompt" /\ Untouched /\ policy' = policy
        /\ Effective(call) \notin policy.deny /\ call.override # "deny"
    BY <1>4 DEF Decide, ToolInv
  <2>2. CASE call' = Refused(call)
    BY <1>0, <2>1, <2>2 DEF Refused, ToolInv, Untouched, ToolCalls, NoToolWithoutConsent,
       SuccessIsWitnessed
  <2>3. CASE call' = [call EXCEPT !.pc = "run", !.approved = Effective(call)]
    <3>1. Effective(call') = Effective(call) /\ call'.approved = Effective(call)
      BY <1>0, <2>3 DEF Effective, ToolCalls
    <3>2. QED
      BY <1>0, <2>1, <2>3, <3>1 DEF ToolInv, Untouched, ToolCalls, NoToolWithoutConsent,
         SuccessIsWitnessed
  <2>4. QED BY <1>4, <2>2, <2>3 DEF Decide
<1>5. ASSUME NEW ok \in BOOLEAN, Execute(ok) PROVE ToolInv'
  <2>1. /\ call.pc = "run" /\ Untouched /\ policy' = policy /\ Effective(call) \notin policy.deny
        /\ PolicyAllows(Effective(call)) \/ call.approved = Effective(call)
        /\ call.override # "deny"
    BY <1>5 DEF Execute, ToolInv
  <2>2. /\ call' \in ToolCalls /\ call'.pc = "post" /\ call'.ran = Effective(call)
        /\ call'.approved = call.approved /\ call'.denials = 0
        /\ call'.objections = 0 /\ call'.override # "deny"
        /\ call'.error = (~ok) /\ call'.output = IF ok THEN "ok" ELSE "error"
    BY <1>0, <1>5, <2>1 DEF Execute, ToolCalls, Untouched
  <2>3. NoToolWithoutConsent'
    BY <2>1, <2>2 DEF NoToolWithoutConsent, PolicyAllows, Grants
  <2>4. CASE ok
    BY <1>0, <2>2, <2>3, <2>4 DEF ToolInv, SuccessIsWitnessed
  <2>5. CASE ~ok
    BY <1>0, <2>2, <2>3, <2>5 DEF ToolInv, SuccessIsWitnessed
  <2>6. QED BY <2>4, <2>5
<1>6. ASSUME NEW end \in HookEnds, PostHook(end) PROVE ToolInv'
  <2>1. /\ call.pc = "post" /\ call.ran # Nil /\ policy' = policy
        /\ call.denials = 0 /\ call.override # "deny"
        /\ call.error = FALSE => call.output = "ok" /\ call.objections = 0
        /\ call.error = TRUE => call.output = "error" \/ call.objections > 0
    BY <1>6 DEF PostHook, ToolInv, SuccessIsWitnessed
  <2>2. /\ call' \in ToolCalls /\ call'.pc = "post" /\ call'.ran = call.ran
        /\ call'.approved = call.approved /\ call'.output = call.output
        /\ call'.denials = call.denials /\ call'.override = call.override
        /\ end = "allow" => call'.objections = call.objections
        /\ end # "allow" => call'.objections = call.objections + 1
        /\ end = "allow" => call'.error = call.error
        /\ end # "allow" => call'.error = TRUE
    <3>1. CASE end = "allow"
      <4>1. call' = [call EXCEPT !.hook = call.hook + 1, !.objections = call.objections, !.error = call.error]
        BY <1>6, <3>1 DEF PostHook
      <4>2. call.hook + 1 \in Nat
        BY <1>0 DEF ToolCalls
      <4>3. QED BY <1>0, <2>1, <3>1, <4>1, <4>2 DEF ToolCalls
    <3>2. CASE end # "allow"
      <4>1. call' = [call EXCEPT !.hook = call.post, !.objections = call.objections + 1, !.error = TRUE]
        BY <1>6, <3>2 DEF PostHook
      <4>2. call.objections + 1 \in Nat
        BY <1>0 DEF ToolCalls
      <4>3. QED BY <1>0, <2>1, <3>2, <4>1, <4>2 DEF ToolCalls
    <3>3. QED BY <3>1, <3>2
  <2>3. NoToolWithoutConsent'
    BY <2>1, <2>2 DEF ToolInv, NoToolWithoutConsent, PolicyAllows, Grants
  <2>4. CASE end = "allow"
    BY <1>0, <2>1, <2>2, <2>3, <2>4 DEF ToolInv, SuccessIsWitnessed, ToolCalls
  <2>5. CASE end # "allow"
    BY <1>0, <2>1, <2>2, <2>3, <2>5 DEF ToolInv, SuccessIsWitnessed, ToolCalls
  <2>6. QED BY <2>4, <2>5
<1>7. CASE PostDone
  BY <1>0, <1>7 DEF PostDone, ToolInv, Untouched, ToolCalls, PolicyAllows, Grants,
     NoToolWithoutConsent, SuccessIsWitnessed
<1>8. QED BY <1>1, <1>2, <1>3, <1>4, <1>5, <1>6, <1>7 DEF ToolNext

\* conversation.rs with permissions.rs: whatever the hooks answered, in any
\* number and order, the input that ran was allowed or approved.
THEOREM ToolsHaveConsent == ToolSpec => []NoToolWithoutConsent
<1>1. ToolInv => NoToolWithoutConsent
  BY DEF ToolInv
<1>2. QED BY ToolInitInv, ToolNextInv, <1>1, PTL DEF ToolSpec

\* conversation.rs, the tool loop: a result without an error is of a tool that
\* ran, and no hook objected.
THEOREM SuccessHasWitness == ToolSpec => []SuccessIsWitnessed
<1>1. ToolInv => SuccessIsWitnessed
  BY DEF ToolInv
<1>2. QED BY ToolInitInv, ToolNextInv, <1>1, PTL DEF ToolSpec

(***************************************************************************)
(* PlanMode                                                                *)
(***************************************************************************)
Values == LocalModes \cup {Plan, Unset, Broken}
Ops == [pc : {"idle", "look", "save", "write", "clear"},
        kind : {"none", "enter", "exit", "config"}, read : Values, value : Values]
\* What an operation that nothing overlaps still knows when it goes on.
OpFits(c) ==
  /\ op[c].pc = "look" => op[c].read = settings
  /\ op[c].pc = "save" => op[c].read = settings /\ settings # Plan /\ op[c].kind = "enter"
  /\ op[c].pc = "write" =>
       /\ op[c].kind \in {"enter", "exit", "config"}
       /\ op[c].kind = "enter" =>
            op[c].value = Plan /\ settings # Plan /\ saved = {settings}
       /\ op[c].kind = "exit" => settings = Plan /\ saved = {op[c].value}
  /\ op[c].pc = "clear" => saved = {settings}
PlanTyped ==
  /\ settings \in Values /\ chosen \in Values
  /\ saved = Broken \/ saved = {} \/ \E mode \in Values : saved = {mode}
  /\ op \in [Claws -> Ops] /\ overlapped \in BOOLEAN /\ torn \in BOOLEAN
OneAtATime == \A c, d \in Claws : ~AtRest(c) /\ ~AtRest(d) => c = d
PlanInv ==
  /\ PlanTyped /\ PlanModeIsUndone
  /\ overlapped = FALSE => OneAtATime /\ \A c \in Claws : OpFits(c)

LEMMA PlanInitInv == PlanInit => PlanInv
<1> SUFFICES ASSUME PlanInit PROVE PlanInv
  OBVIOUS
<1>1. PlanTyped
  BY DEF PlanInit, PlanTyped, Values, Ops, NoOp
<1>2. \A c \in Claws : op[c].pc = "idle"
  BY DEF PlanInit, NoOp
<1>3. QED
  BY <1>1, <1>2 DEF PlanInit, PlanInv, PlanModeIsUndone, OneAtATime, AtRest, OpFits

\* After a step of one claw that nothing overlaps, the others are at rest.
LEMMA AloneSuffices ==
  ASSUME PlanInv, NEW c \in Claws, PlanTyped', PlanModeIsUndone',
         \A d \in Claws : d # c => op'[d] = op[d],
         overlapped' = FALSE => overlapped = FALSE /\ OpFits(c)' /\ \A d \in Claws \ {c} : AtRest(d)
  PROVE  PlanInv'
<1>1. ASSUME overlapped' = FALSE, NEW d \in Claws, d # c PROVE op'[d].pc = "idle"
  BY <1>1 DEF AtRest
<1>2. ASSUME overlapped' = FALSE PROVE OneAtATime'
  BY <1>1, <1>2 DEF OneAtATime, AtRest
<1>3. ASSUME overlapped' = FALSE, NEW d \in Claws PROVE OpFits(d)'
  <2>1. CASE d = c
    BY <1>3, <2>1
  <2>2. CASE d # c
    BY <1>1, <1>3, <2>2 DEF OpFits
  <2>3. QED BY <2>1, <2>2
<1>4. QED BY <1>2, <1>3 DEF PlanInv

\* An operation that is under way is alone unless something overlapped it.
LEMMA BusyIsAlone ==
  ASSUME PlanInv, NEW c \in Claws, ~AtRest(c), overlapped = FALSE
  PROVE  OpFits(c) /\ \A d \in Claws \ {c} : AtRest(d)
BY DEF PlanInv, OneAtATime

\* A step that ends an operation.
LEMMA OpEnds ==
  ASSUME PlanInv, NEW c \in Claws, ~AtRest(c), op' = [op EXCEPT ![c] = NoOp],
         UNCHANGED <<chosen, overlapped>>, settings' \in Values, torn' \in BOOLEAN,
         saved' = saved \/ saved' = {} \/ saved' = Broken, PlanModeIsUndone'
  PROVE  PlanInv'
<1>1. NoOp \in Ops /\ PlanTyped
  BY DEF NoOp, Ops, Values, PlanInv
<1>2. op' \in [Claws -> Ops] /\ op'[c].pc = "idle" /\ \A d \in Claws : d # c => op'[d] = op[d]
  BY <1>1 DEF PlanTyped, NoOp
<1>3. PlanTyped'
  BY <1>1, <1>2 DEF PlanTyped
<1>4. OpFits(c)'
  BY <1>2 DEF OpFits
<1>5. QED BY <1>2, <1>3, <1>4, BusyIsAlone, AloneSuffices

LEMMA PlanNextInv == PlanInv /\ [PlanNext]_planVars => PlanInv'
<1> SUFFICES ASSUME PlanInv, [PlanNext]_planVars PROVE PlanInv'
  OBVIOUS
<1>0. PlanTyped /\ PlanModeIsUndone
  BY DEF PlanInv
<1> USE DEF Count
<1>1. ASSUME NEW c \in Claws, NEW kind \in {"enter", "exit", "config"}, NEW value \in Values,
             Start(c, kind, value)
      PROVE  PlanInv'
  <2>1. op' = [op EXCEPT ![c] = [pc |-> IF kind = "config" THEN "write" ELSE "look",
                                 kind |-> kind, read |-> settings, value |-> value]]
        /\ UNCHANGED <<settings, saved, chosen, torn>>
        /\ overlapped' = (overlapped \/ Others(c))
    BY <1>1 DEF Start
  <2>2. /\ op' \in [Claws -> Ops] /\ \A d \in Claws : d # c => op'[d] = op[d]
        /\ op'[c].pc = IF kind = "config" THEN "write" ELSE "look"
        /\ op'[c].kind = kind /\ op'[c].read = settings
    BY <1>0, <2>1 DEF PlanTyped, Ops
  <2>3. overlapped' \in BOOLEAN
    BY <2>1
  <2>4. PlanTyped'
    BY <1>0, <2>1, <2>2, <2>3 DEF PlanTyped
  <2>5. ASSUME overlapped' = FALSE PROVE overlapped = FALSE /\ ~Others(c)
    BY <1>0, <2>1, <2>5 DEF PlanTyped
  <2>6. PlanModeIsUndone'
    BY <1>0, <2>1, <2>3, <2>5 DEF PlanModeIsUndone, PlanTyped
  <2>7. ASSUME overlapped' = FALSE PROVE OpFits(c)'
    BY <2>1, <2>2 DEF OpFits
  <2>8. QED BY <2>2, <2>4, <2>5, <2>6, <2>7, AloneSuffices DEF Others
<1>2. ASSUME NEW c \in Claws, LooksToEnter(c) PROVE PlanInv'
  <2>1. /\ ~AtRest(c) /\ op[c].pc = "look" /\ op[c].kind = "enter"
        /\ UNCHANGED <<settings, chosen, overlapped, torn>>
    BY <1>2 DEF LooksToEnter, AtRest
  <2>2. CASE op' = [op EXCEPT ![c] = NoOp] /\ saved' = saved
    <3>1. PlanModeIsUndone'
      BY <1>0, <2>1, <2>2 DEF PlanModeIsUndone
    <3>2. QED BY <1>0, <2>1, <2>2, <3>1, OpEnds DEF PlanTyped
  <2>3. CASE op' = [op EXCEPT ![c].pc = "save"] /\ saved' = {} /\ op[c].read # Plan
    <3>1. /\ PlanTyped' /\ \A d \in Claws : d # c => op'[d] = op[d]
          /\ op'[c].pc = "save" /\ op'[c].kind = "enter" /\ op'[c].read = op[c].read
      BY <1>0, <2>1, <2>3 DEF PlanTyped, Ops
    <3>2. overlapped = FALSE => OpFits(c)' /\ settings # Plan
      BY <2>1, <2>3, <3>1, BusyIsAlone DEF OpFits
    <3>3. PlanModeIsUndone'
      BY <1>0, <2>1, <2>3, <3>2 DEF PlanModeIsUndone, PlanTyped
    <3>4. QED BY <2>1, <3>1, <3>2, <3>3, BusyIsAlone, AloneSuffices
  <2>4. QED BY <1>2, <2>2, <2>3 DEF LooksToEnter, Done, Goes
<1>3. ASSUME NEW c \in Claws, SavesMode(c) PROVE PlanInv'
  <2>1. /\ ~AtRest(c) /\ op[c].pc = "save" /\ saved' = {op[c].read}
        /\ op' = [op EXCEPT ![c].pc = "write", ![c].value = Plan]
        /\ UNCHANGED <<settings, chosen, overlapped, torn>>
    BY <1>3 DEF SavesMode, AtRest
  <2>2. /\ PlanTyped' /\ \A d \in Claws : d # c => op'[d] = op[d]
        /\ op'[c].pc = "write" /\ op'[c].kind = op[c].kind /\ op'[c].value = Plan
    BY <1>0, <2>1 DEF PlanTyped, Ops, Values
  <2>3. overlapped = FALSE => OpFits(c)' /\ settings # Plan /\ saved' = {settings}
    BY <2>1, <2>2, BusyIsAlone DEF OpFits
  <2>4. PlanModeIsUndone'
    BY <1>0, <2>1, <2>3 DEF PlanModeIsUndone, PlanTyped
  <2>5. QED BY <2>1, <2>2, <2>3, <2>4, BusyIsAlone, AloneSuffices
<1>4. ASSUME NEW c \in Claws, LooksToExit(c) PROVE PlanInv'
  <2>1. /\ ~AtRest(c) /\ op[c].pc = "look" /\ op[c].kind = "exit"
        /\ UNCHANGED <<settings, chosen, overlapped, torn>>
    BY <1>4 DEF LooksToExit, AtRest
  <2>2. CASE op' = [op EXCEPT ![c] = NoOp] /\ saved' = saved
    <3>1. PlanModeIsUndone'
      BY <1>0, <2>1, <2>2 DEF PlanModeIsUndone
    <3>2. QED BY <1>0, <2>1, <2>2, <3>1, OpEnds DEF PlanTyped
  <2>3. CASE op' = [op EXCEPT ![c] = NoOp] /\ saved' = {} /\ op[c].read # Plan
    <3>1. /\ PlanTyped' /\ OpFits(c)' /\ \A d \in Claws : d # c => op'[d] = op[d]
      BY <1>0, <2>1, <2>3 DEF PlanTyped, NoOp, Ops, Values, OpFits
    <3>2. overlapped = FALSE => settings # Plan
      BY <2>1, <2>3, BusyIsAlone DEF OpFits
    <3>3. PlanModeIsUndone'
      BY <1>0, <2>1, <2>3, <3>2 DEF PlanModeIsUndone, PlanTyped
    <3>4. QED BY <2>1, <3>1, <3>3, BusyIsAlone, AloneSuffices
  <2>4. ASSUME NEW mode \in saved, op' = [op EXCEPT ![c].pc = "write", ![c].value = mode],
               saved' = saved, saved # Broken, op[c].read = Plan
        PROVE  PlanInv'
    <3>1. mode \in Values /\ saved = {mode}
      BY <1>0, <2>4 DEF PlanTyped
    <3>2. /\ PlanTyped' /\ \A d \in Claws : d # c => op'[d] = op[d]
          /\ op'[c].pc = "write" /\ op'[c].kind = "exit" /\ op'[c].value = mode
      BY <1>0, <2>1, <2>4, <3>1 DEF PlanTyped, Ops
    <3>3. overlapped = FALSE => OpFits(c)'
      BY <2>1, <2>4, <3>1, <3>2, BusyIsAlone DEF OpFits
    <3>4. PlanModeIsUndone'
      BY <1>0, <2>1, <2>4 DEF PlanModeIsUndone
    <3>5. QED BY <2>1, <3>2, <3>3, <3>4, BusyIsAlone, AloneSuffices
  <2>5. QED BY <1>4, <2>2, <2>3, <2>4 DEF LooksToExit, Done
<1>5. ASSUME NEW c \in Claws, Writes(c) PROVE PlanInv'
  <2>1. /\ ~AtRest(c) /\ op[c].pc = "write" /\ settings' = op[c].value
        /\ chosen' = IF op[c].kind = "config" THEN op[c].value ELSE chosen
        /\ UNCHANGED <<saved, overlapped, torn>>
    BY <1>5 DEF Writes, AtRest
  <2>2. \/ op' = [op EXCEPT ![c].pc = "clear"] /\ op[c].kind = "exit"
        \/ op' = [op EXCEPT ![c] = NoOp] /\ op[c].kind # "exit"
    BY <1>5 DEF Writes, Goes, Done
  <2>3. /\ PlanTyped' /\ \A d \in Claws : d # c => op'[d] = op[d]
        /\ op'[c].pc = IF op[c].kind = "exit" THEN "clear" ELSE "idle"
    BY <1>0, <2>1, <2>2 DEF PlanTyped, Ops, Values, NoOp
  <2>4. overlapped = FALSE => OpFits(c)'
    BY <2>1, <2>3, BusyIsAlone DEF OpFits
  <2>5. PlanModeIsUndone'
    BY <1>0, <2>1, BusyIsAlone DEF PlanModeIsUndone, OpFits, PlanTyped
  <2>6. QED BY <2>1, <2>3, <2>4, <2>5, BusyIsAlone, AloneSuffices
<1>6. ASSUME NEW c \in Claws, ClearsMode(c) PROVE PlanInv'
  <2>1. /\ ~AtRest(c) /\ op[c].pc = "clear" /\ saved' = {} /\ op' = [op EXCEPT ![c] = NoOp]
        /\ UNCHANGED <<settings, chosen, overlapped, torn>>
    BY <1>6 DEF ClearsMode, AtRest, Done
  <2>2. /\ PlanTyped' /\ OpFits(c)' /\ \A d \in Claws : d # c => op'[d] = op[d]
    BY <1>0, <2>1 DEF PlanTyped, NoOp, Ops, Values, OpFits
  <2>3. overlapped = FALSE => saved = {settings}
    BY <2>1, BusyIsAlone DEF OpFits
  <2>4. PlanModeIsUndone'
    BY <1>0, <2>1, <2>3 DEF PlanModeIsUndone, PlanTyped
  <2>5. QED BY <2>1, <2>2, <2>4, BusyIsAlone, AloneSuffices
<1>7. ASSUME NEW c \in Claws, Killed(c) PROVE PlanInv'
  <2>1. /\ ~AtRest(c) /\ op' = [op EXCEPT ![c] = NoOp]
        /\ UNCHANGED <<settings, saved, chosen, overlapped, torn>>
    BY <1>7 DEF Killed, Done
  <2>2. PlanModeIsUndone'
    BY <1>0, <2>1 DEF PlanModeIsUndone
  <2>3. QED BY <1>0, <2>1, <2>2, OpEnds DEF PlanTyped
<1>8. ASSUME NEW c \in Claws, NEW left \in {Unset, Broken}, TearsSettings(c, left) PROVE PlanInv'
  <2>1. /\ ~AtRest(c) /\ op' = [op EXCEPT ![c] = NoOp] /\ settings' = left /\ torn' = TRUE
        /\ UNCHANGED <<saved, chosen, overlapped>>
    BY <1>8 DEF TearsSettings, Done, AtRest
  <2>2. PlanModeIsUndone' /\ settings' \in Values /\ torn' \in BOOLEAN
    BY <2>1 DEF PlanModeIsUndone, Values
  <2>3. QED BY <2>1, <2>2, OpEnds
<1>9. ASSUME NEW c \in Claws, NEW left \in {{}, Broken}, TearsState(c, left) PROVE PlanInv'
  <2>1. /\ ~AtRest(c) /\ op[c].pc = "save" /\ op' = [op EXCEPT ![c] = NoOp] /\ saved' = left
        /\ UNCHANGED <<settings, chosen, overlapped, torn>>
    BY <1>9 DEF TearsState, Done, AtRest
  <2>2. /\ PlanTyped' /\ OpFits(c)' /\ \A d \in Claws : d # c => op'[d] = op[d]
    BY <1>0, <2>1 DEF PlanTyped, NoOp, Ops, Values, OpFits
  <2>3. overlapped = FALSE => settings # Plan
    BY <2>1, BusyIsAlone DEF OpFits
  <2>4. PlanModeIsUndone'
    BY <1>0, <2>1, <2>3 DEF PlanModeIsUndone, PlanTyped
  <2>5. QED BY <2>1, <2>2, <2>4, BusyIsAlone, AloneSuffices
<1>10. ASSUME NEW mode \in Values, Edits(mode) PROVE PlanInv'
  <2>1. /\ settings' = mode /\ chosen' = mode /\ UNCHANGED <<saved, op, torn>>
        /\ overlapped' = (overlapped \/ \E c \in Claws : ~AtRest(c))
    BY <1>10 DEF Edits
  <2>2. PlanTyped'
    BY <1>0, <2>1 DEF PlanTyped
  <2>3. ASSUME overlapped' = FALSE, NEW c \in Claws PROVE op'[c].pc = "idle"
    BY <2>1, <2>3 DEF AtRest
  <2>4. QED BY <2>1, <2>2, <2>3 DEF PlanInv, PlanModeIsUndone, OneAtATime, AtRest, OpFits
<1>11. CASE UNCHANGED planVars
  BY <1>11 DEF planVars, PlanInv, PlanTyped, PlanModeIsUndone, OneAtATime, AtRest, OpFits
<1>12. QED
  BY <1>1, <1>2, <1>3, <1>4, <1>5, <1>6, <1>7, <1>8, <1>9, <1>10, <1>11 DEF PlanNext, Values

\* EnterPlanMode and ExitPlanMode of tools/src/lib.rs: wherever a claw is killed,
\* and whatever state it left, the mode the user chose is in force or will be
\* put back.
THEOREM PlanModeCanBeUndone == PlanSpec => []PlanModeIsUndone
<1>1. PlanInv => PlanModeIsUndone
  BY DEF PlanInv
<1>2. QED BY PlanInitInv, PlanNextInv, <1>1, PTL DEF PlanSpec

(***************************************************************************)
(* Mcp                                                                     *)
(***************************************************************************)
Operations == [kind : {"idle", "discover", "call", "resources", "read"},
               todo : SUBSET Servers, pc : {"idle", "enter", "ready", "wait", "over"},
               tries : Nat, inits : Nat, req : Nat, runs : Nat,
               said : {"none", "ok", "error"}]
\* The servers and their processes: none is forgotten, no two servers have the
\* same process, and a server is taken to be initialized when its process said so.
ServersOK ==
  /\ servers \in [Servers -> [pid : {0} \cup Pids, initialized : BOOLEAN]]
  /\ alive \subseteq Pids /\ NoOrphanServer /\ AskedAfterInitialize
  /\ \A s, t \in Servers : s # t /\ servers[s].pid = servers[t].pid => servers[s].pid = 0
  /\ \A s \in Servers :
       servers[s].initialized = TRUE => servers[s].pid # 0 /\ servers[s].pid \in greeted
OperationOK ==
  /\ operation \in Operations /\ ids \in Nat
  /\ operation.pc \in {"enter", "ready", "wait"} => operation.todo # {}
McpInv == ServersOK /\ OperationOK /\ (operation.pc = "wait" => process # 0)

LEMMA LowestIsLowest ==
  ASSUME NEW T, T \subseteq Nat, T # {}
  PROVE  Lowest(T) \in T
<1>a. PICK n \in T : \A m \in T : ~(m < n)
  BY HasLeast, Zenon
<1>b. \A m \in T : n <= m
  BY <1>a
<1>2. QED BY <1>b DEF Lowest

LEMMA ServerIsServer ==
  ASSUME OperationOK, operation.pc \in {"enter", "ready", "wait"}
  PROVE  server \in Servers
BY LowestIsLowest, McpAssumption DEF OperationOK, Operations, server

LEMMA ResetKeeps == ASSUME ServersOK, NEW s \in Servers, Reset(s) PROVE ServersOK'
<1>1. /\ servers' \in [Servers -> [pid : {0} \cup Pids, initialized : BOOLEAN]]
      /\ servers'[s].pid = 0 /\ servers'[s].initialized = FALSE
      /\ \A t \in Servers : t # s => servers'[t] = servers[t]
  BY DEF Reset, Gone, ServersOK
<1>2. /\ alive' = alive \ {servers[s].pid} /\ greeted' = greeted \ {servers[s].pid}
      /\ sent' = sent \ {servers[s].pid}
  BY DEF Reset
<1>3. QED BY <1>1, <1>2 DEF ServersOK, NoOrphanServer, AskedAfterInitialize

LEMMA KeptKeeps == ASSUME ServersOK, UNCHANGED <<servers, alive, greeted, sent>> PROVE ServersOK'
BY DEF ServersOK, NoOrphanServer, AskedAfterInitialize

\* Whatever goes on after a server, the next one or nothing, is an operation.
LEMMA OnwardIsOperation ==
  ASSUME NEW o \in Operations
  PROVE  /\ Onward(o) \in Operations /\ Onward(o).pc \in {"idle", "enter"}
         /\ Onward(o).pc = "enter" => Onward(o).todo # {}
BY DEF Onward, Begun, NoOperation, Operations

LEMMA EndKeepsServers ==
  ASSUME OperationOK, UNCHANGED ids,
         OperationFails \/ \E said \in {"ok", "error"} : Succeeds(said)
  PROVE  OperationOK' /\ operation'.pc # "wait"
<1>1. PICK said \in {"ok", "error"} : operation' = Onward([operation EXCEPT !.said = said])
  BY DEF OperationFails, Succeeds
<1>2. [operation EXCEPT !.said = said] \in Operations
  BY DEF OperationOK, Operations
<1>3. QED BY <1>1, <1>2, OnwardIsOperation DEF OperationOK

LEMMA MeetsKeeps ==
  ASSUME McpInv, operation.pc \in {"ready", "wait"}, NEW error, Meets(error), UNCHANGED ids
  PROVE  McpInv'
<1>1. ServersOK'
  BY ServerIsServer, ResetKeeps, KeptKeeps DEF Meets, McpInv, Kept, Heard
<1>2. \/ operation' = [operation EXCEPT !.inits = 1, !.pc = "ready"]
      \/ operation' = [operation EXCEPT !.tries = 1, !.inits = 0, !.pc = "enter"]
      \/ OperationFails
  BY DEF Meets
<1>3. CASE operation' = [operation EXCEPT !.inits = 1, !.pc = "ready"]
  BY <1>1, <1>3 DEF McpInv, OperationOK, Operations
<1>4. CASE operation' = [operation EXCEPT !.tries = 1, !.inits = 0, !.pc = "enter"]
  BY <1>1, <1>4 DEF McpInv, OperationOK, Operations
<1>5. CASE OperationFails
  BY <1>1, <1>5, EndKeepsServers DEF McpInv
<1>6. QED BY <1>2, <1>3, <1>4, <1>5

LEMMA McpInitInv == McpInit => McpInv
<1> SUFFICES ASSUME McpInit PROVE McpInv
  OBVIOUS
<1>1. ServersOK
  BY DEF McpInit, ServersOK, NoOrphanServer, AskedAfterInitialize, Gone
<1>2. operation \in Operations /\ operation.pc = "enter" /\ operation.todo = Servers /\ ids = 0
  BY DEF McpInit, Begun, NoOperation, Operations
<1>3. QED BY <1>1, <1>2, McpAssumption DEF McpInv, OperationOK

LEMMA McpNextInv == McpInv /\ [McpNext]_mcpVars => McpInv'
<1> SUFFICES ASSUME McpInv, [McpNext]_mcpVars PROVE McpInv'
  OBVIOUS
<1>0. ServersOK /\ OperationOK /\ (operation.pc = "wait" => process # 0)
  BY DEF McpInv
<1> USE DEF Wire, Heard, Record
<1>1. ASSUME NEW kind \in {"call", "read", "resources"}, NEW left \in SUBSET Servers, left # {},
             Begin(kind, left)
      PROVE  McpInv'
  <2>1. operation' \in Operations /\ operation'.pc = "enter" /\ operation'.todo = left
    BY <1>1 DEF Begin, Begun, NoOperation, Operations
  <2>2. QED BY <1>0, <1>1, <2>1, KeptKeeps DEF Begin, McpInv, OperationOK
<1>2. CASE Enter
  <2>1. ServersOK'
    BY <1>0, <1>2, ServerIsServer, ResetKeeps, KeptKeeps DEF Enter, Kept
  <2>2. operation' = [operation EXCEPT !.pc = "ready", !.inits = 0] /\ UNCHANGED ids
        /\ operation.pc = "enter"
    BY <1>2 DEF Enter
  <2>3. QED BY <1>0, <2>1, <2>2 DEF McpInv, OperationOK, Operations
<1>3. CASE Spawn
  <2> DEFINE new == Lowest(Free)
  <2>1. new \in Free /\ server \in Servers /\ process = 0
    BY <1>0, <1>3, LowestIsLowest, ServerIsServer, McpAssumption DEF Spawn, Free
  <2>2. new \in Pids /\ new # 0 /\ new \notin alive /\ \A s \in Servers : servers[s].pid # new
    BY <2>1, McpAssumption DEF Free
  <2>3. /\ servers' = [servers EXCEPT ![server] = [pid |-> new, initialized |-> FALSE]]
        /\ alive' = alive \cup {new} /\ UNCHANGED <<greeted, sent, operation, ids>>
        /\ operation.pc = "ready"
    BY <1>3 DEF Spawn, Spawned
  <2> HIDE DEF new
  <2>4. /\ servers' \in [Servers -> [pid : {0} \cup Pids, initialized : BOOLEAN]]
        /\ servers'[server].pid = new /\ servers'[server].initialized = FALSE
        /\ \A s \in Servers : s # server => servers'[s] = servers[s]
    BY <1>0, <2>1, <2>2, <2>3 DEF ServersOK
  <2>5. 0 \notin alive
    BY <1>0, McpAssumption DEF ServersOK
  <2>6. NoOrphanServer'
    <3>1. ASSUME NEW p \in alive PROVE \E s \in Servers : servers'[s].pid = p
      <4>1. PICK s \in Servers : servers[s].pid = p
        BY <1>0, <3>1 DEF ServersOK, NoOrphanServer
      <4>2. s # server
        BY <2>1, <2>5, <3>1, <4>1 DEF process
      <4>3. QED BY <2>4, <4>1, <4>2
    <3>2. QED BY <2>1, <2>3, <2>4, <3>1 DEF NoOrphanServer
  <2>7. ServersOK'
    <3> DEFINE srv == server
    <3>1. srv \in Servers /\ servers'[srv].pid = new /\ servers'[srv].initialized = FALSE
          /\ \A s \in Servers : s # srv => servers'[s] = servers[s]
      BY <2>1, <2>4
    <3> HIDE DEF srv
    <3>2. QED
      BY <1>0, <2>2, <2>3, <2>4, <2>6, <3>1 DEF ServersOK, AskedAfterInitialize
  <2>8. QED BY <1>0, <2>3, <2>7 DEF McpInv, OperationOK
<1>4. CASE SpawnFails
  BY <1>4, MeetsKeeps DEF SpawnFails
<1>5. CASE Ask
  <2>1. /\ operation.pc = "ready" /\ process # 0 /\ ids' = ids + 1
        /\ operation' = [operation EXCEPT !.pc = "wait", !.req = ids'] /\ UNCHANGED <<servers, alive, greeted>>
        /\ sent' = IF Initializing THEN sent ELSE sent \cup {process}
    BY <1>5 DEF Ask
  <2>2. server \in Servers
    BY <1>0, <2>1, ServerIsServer
  <2>3. OperationOK' /\ operation'.todo = operation.todo
    <3>1. ids' \in Nat
      BY <1>0, <2>1 DEF OperationOK
    <3>2. QED BY <1>0, <2>1, <3>1 DEF OperationOK, Operations
  <2>4. AskedAfterInitialize'
    <3>1. ~Initializing => process \in greeted
      BY <1>0, <2>2 DEF Initializing, process, ServersOK
    <3>2. QED BY <1>0, <2>1, <3>1 DEF ServersOK, AskedAfterInitialize
  <2>5. ServersOK'
    BY <1>0, <2>1, <2>4 DEF ServersOK, NoOrphanServer
  <2>6. QED BY <2>1, <2>3, <2>5 DEF McpInv, process, server
<1>6. CASE Read
  <2>1. operation.pc = "wait" /\ UNCHANGED ids /\ server \in Servers
    BY <1>0, <1>6, ServerIsServer DEF Read
  <2>2. CASE Meets("invalid")
    BY <2>1, <2>2, MeetsKeeps
  <2>3. CASE /\ UNCHANGED <<servers, alive, greeted, sent>>
             /\ OperationFails \/ \E said \in {"ok", "error"} : Succeeds(said)
    BY <1>0, <2>1, <2>3, EndKeepsServers, KeptKeeps DEF McpInv
  <2>4. CASE /\ operation' = [operation EXCEPT !.pc = "ready"]
             /\ UNCHANGED <<servers, alive, greeted, sent>>
    BY <1>0, <2>1, <2>4, KeptKeeps DEF McpInv, OperationOK, Operations
  <2>5. CASE /\ operation' = [operation EXCEPT !.pc = "ready"]
             /\ servers' = [servers EXCEPT ![server].initialized = TRUE]
             /\ greeted' = greeted \cup {process} /\ UNCHANGED <<alive, sent>>
    <3> DEFINE srv == server
    <3>1. srv \in Servers /\ process = servers[srv].pid /\ process # 0
      BY <1>0, <2>1 DEF process
    <3>2. servers' = [servers EXCEPT ![srv].initialized = TRUE]
      BY <2>5
    <3> HIDE DEF srv
    <3>3. /\ servers' \in [Servers -> [pid : {0} \cup Pids, initialized : BOOLEAN]]
          /\ \A s \in Servers : servers'[s].pid = servers[s].pid
          /\ \A s \in Servers : s # srv => servers'[s] = servers[s]
      BY <1>0, <3>1, <3>2 DEF ServersOK
    <3>4. ServersOK'
      BY <1>0, <2>5, <3>1, <3>3 DEF ServersOK, NoOrphanServer, AskedAfterInitialize
    <3>5. QED BY <1>0, <2>1, <2>5, <3>4 DEF McpInv, OperationOK, Operations
  <2>6. QED BY <1>6, <2>2, <2>3, <2>4, <2>5 DEF Read
<1>7. CASE Lost
  BY <1>7, MeetsKeeps DEF Lost
<1>8. CASE Shutdown
  <2>1. /\ servers' = [s \in Servers |-> Gone] /\ alive' = alive \ {servers[s].pid : s \in Servers}
        /\ greeted' = {} /\ sent' = {} /\ operation' = [operation EXCEPT !.pc = "over"]
        /\ UNCHANGED ids
    BY <1>8 DEF Shutdown
  <2>2. alive' = {}
    BY <1>0, <2>1 DEF ServersOK, NoOrphanServer
  <2>3. ServersOK'
    BY <2>1, <2>2 DEF ServersOK, NoOrphanServer, AskedAfterInitialize, Gone
  <2>4. QED BY <1>0, <2>1, <2>3 DEF McpInv, OperationOK, Operations
<1>9. ASSUME NEW p \in Pids, NEW body \in Bodies, Answer(p, body) PROVE McpInv'
  <2>1. /\ operation' = [operation EXCEPT !.runs = @ + 1] \/ operation' = operation
        /\ UNCHANGED <<servers, alive, greeted, sent, ids>>
    BY <1>9 DEF Answer
  <2>2. OperationOK' /\ operation'.todo = operation.todo /\ operation'.pc = operation.pc
    BY <1>0, <2>1 DEF OperationOK, Operations
  <2>3. QED BY <1>0, <2>1, <2>2, KeptKeeps DEF McpInv, process, server
<1>10. ASSUME NEW p \in Pids, NEW id, Stray(p, id) PROVE McpInv'
  BY <1>0, <1>10, KeptKeeps DEF Stray, McpInv, OperationOK, process, server
<1>11. ASSUME NEW p \in Pids, Dies(p) PROVE McpInv'
  BY <1>0, <1>11 DEF Dies, McpInv, OperationOK, ServersOK, NoOrphanServer,
     AskedAfterInitialize, process, server
<1>12. CASE UNCHANGED mcpVars
  BY <1>0, <1>12, KeptKeeps DEF mcpVars, McpInv, OperationOK, process, server
<1>13. ASSUME NEW s \in Servers, NEW kind \in {"call", "read"}, Begin(kind, {s}) PROVE McpInv'
  BY <1>1, <1>13
<1>14. CASE Begin("resources", Servers)
  BY <1>1, <1>14, McpAssumption
<1>15. QED
  BY <1>2, <1>3, <1>4, <1>5, <1>6, <1>7, <1>8, <1>9, <1>10, <1>11, <1>12, <1>13, <1>14
     DEF McpNext

\* mcp_stdio.rs: through every reset and nested retry no process is forgotten.
THEOREM NoServerIsOrphan == McpSpec => []NoOrphanServer
<1>1. McpInv => NoOrphanServer
  BY DEF McpInv, ServersOK
<1>2. QED BY McpInitInv, McpNextInv, <1>1, PTL DEF McpSpec

\* mcp_stdio.rs, ensure_server_ready: a process, also one that took the place of
\* another, is asked for nothing before it answered initialize.
THEOREM InitializeComesFirst == McpSpec => []AskedAfterInitialize
<1>1. McpInv => AskedAfterInitialize
  BY DEF McpInv, ServersOK
<1>2. QED BY McpInitInv, McpNextInv, <1>1, PTL DEF McpSpec

\* What the tool calls rest on.  Who answered initialize is held for a server
\* that is taken to be initialized; a process has at most the request that is
\* waited for, and no message of an earlier id or of a stray answers it.
Letters == [id : Nat, body : Bodies]
GreetedHeld ==
  \A p \in greeted :
    p # 0 /\ \E s \in Servers : servers[s].pid = p /\ servers[s].initialized = TRUE
WireTyped == inbox \in [Pids -> Nat] /\ outbox \in [Pids -> Seq(Letters)]
Outstanding(p) ==
  operation.pc = "wait" /\ p = process /\ p \in alive /\ inbox[p] = operation.req
WireFits ==
  /\ \A p \in Pids : \A i \in DOMAIN outbox[p] :
       outbox[p][i].id <= ids /\ (inbox[p] # 0 => outbox[p][i].id # inbox[p])
  /\ \A p \in Pids : inbox[p] # 0 => Outstanding(p)
  /\ operation.pc = "wait" => operation.req = ids /\ ids # 0
\* A call is of one server, and its tool has run exactly when the request that
\* is waited for has been taken.
Taken == \/ \E i \in DOMAIN outbox[process] : outbox[process][i].id = operation.req
         \/ process \in alive /\ inbox[process] = 0
CallFits ==
  /\ operation.kind # "call" => operation.runs = 0
  /\ operation.kind = "call" =>
       /\ operation.pc \in {"enter", "ready", "wait"} => \E s \in Servers : operation.todo = {s}
       /\ operation.pc \in {"enter", "ready"} => operation.runs = 0
       /\ operation.pc = "wait" /\ Initializing => operation.runs = 0
       /\ operation.pc = "wait" /\ ~Initializing =>
            (inbox[process] # 0 => operation.runs = 0) /\ (Taken => operation.runs = 1)
  /\ CallRunsOnce
CallsInv == GreetedHeld /\ WireTyped /\ WireFits /\ CallFits

LEMMA CallsInitInv == McpInit => CallsInv
<1> SUFFICES ASSUME McpInit PROVE CallsInv
  OBVIOUS
<1>1. operation.pc = "enter" /\ operation.kind = "discover" /\ operation.runs = 0
  BY DEF McpInit, Begun, NoOperation
<1>2. /\ inbox = [p \in Pids |-> 0] /\ outbox = [p \in Pids |-> <<>>] /\ greeted = {} /\ ids = 0
  BY DEF McpInit
<1>3. WireTyped /\ WireFits
  BY <1>1, <1>2 DEF WireTyped, WireFits
<1>4. QED
  BY <1>1, <1>2, <1>3 DEF CallsInv, GreetedHeld, CallFits, CallRunsOnce

\* Where nothing is waited for, no process has a request.
LEMMA QuietWire ==
  ASSUME WireFits, NEW p \in Pids, operation.pc # "wait"
  PROVE  inbox[p] = 0
BY DEF WireFits, Outstanding

\* A step after which nothing is waited for, and no request is left.
LEMMA WireIsQuiet ==
  ASSUME WireTyped, WireFits, operation'.pc # "wait", ids' = ids,
         inbox' \in [Pids -> Nat], \A p \in Pids : inbox'[p] = 0,
         outbox' \in [Pids -> Seq(Letters)],
         \A p \in Pids : \A i \in DOMAIN outbox'[p] : outbox'[p][i].id <= ids
  PROVE  WireTyped' /\ WireFits'
BY DEF WireTyped, WireFits

\* The wires after a process is killed: all that is left there was there.
LEMMA ResetWire ==
  ASSUME WireTyped, WireFits, NEW s \in Servers, Reset(s), ids' = ids, operation'.pc # "wait",
         operation.pc = "wait" => s = server
  PROVE  WireTyped' /\ WireFits'
<1>1. /\ inbox' = [p \in Pids |-> IF p = servers[s].pid THEN 0 ELSE inbox[p]]
      /\ outbox' = [p \in Pids |-> IF p = servers[s].pid THEN <<>> ELSE outbox[p]]
  BY DEF Reset
<1>2. \A p \in Pids : inbox'[p] = 0
  BY <1>1 DEF WireFits, Outstanding, process
<1>3. inbox' \in [Pids -> Nat] /\ outbox' \in [Pids -> Seq(Letters)]
  BY <1>1 DEF WireTyped
<1>4. \A p \in Pids : \A i \in DOMAIN outbox'[p] : outbox'[p][i].id <= ids
  BY <1>1 DEF WireFits
<1>5. QED BY <1>2, <1>3, <1>4, WireIsQuiet

LEMMA ResetGreeted ==
  ASSUME ServersOK, GreetedHeld, NEW s \in Servers, Reset(s)
  PROVE  GreetedHeld'
<1>1. /\ greeted' = greeted \ {servers[s].pid}
      /\ \A t \in Servers : t # s => servers'[t] = servers[t]
  BY DEF Reset, ServersOK
<1>2. QED BY <1>1 DEF GreetedHeld

\* A call that ends, on its only server, ends the operation.
LEMMA OnwardOfCall ==
  ASSUME NEW o \in Operations, NEW s \in Servers, operation.todo = {s}, o.todo = {s}
  PROVE  Onward(o) = [o EXCEPT !.todo = {}, !.pc = "idle", !.req = 0]
<1>1. server = s
  BY LowestIsLowest, McpAssumption DEF server
<1>2. QED BY <1>1 DEF Onward

LEMMA EndFits ==
  ASSUME McpInv, CallFits, operation.pc \in {"ready", "wait"},
         NEW said \in {"ok", "error"}, operation' = Onward([operation EXCEPT !.said = said]),
         said = "ok" /\ operation.kind = "call" => operation.runs = 1
  PROVE  CallFits' /\ operation'.pc # "wait"
<1> DEFINE o == [operation EXCEPT !.said = said]
<1>1. /\ o \in Operations /\ o.todo = operation.todo /\ o.runs = operation.runs
      /\ o.kind = operation.kind /\ o.said = said
  BY DEF McpInv, OperationOK, Operations
<1> HIDE DEF o
<1>2. operation' = Onward(o)
  BY DEF o
<1>3. operation'.pc \in {"idle", "enter"}
  BY <1>1, <1>2, OnwardIsOperation
<1>4. CASE operation.kind = "call"
  <2>1. PICK s \in Servers : operation.todo = {s}
    BY <1>4 DEF CallFits
  <2>2. operation' = [o EXCEPT !.todo = {}, !.pc = "idle", !.req = 0]
    BY <1>1, <1>2, <2>1, OnwardOfCall
  <2>3. /\ operation'.pc = "idle" /\ operation'.kind = "call" /\ operation'.said = said
        /\ operation'.runs = operation.runs
    BY <1>1, <1>4, <2>2 DEF Operations
  <2>4. QED BY <1>4, <2>3 DEF CallFits, CallRunsOnce
<1>5. CASE operation.kind # "call"
  <2>1. operation'.kind = operation.kind /\ operation'.runs = 0
    BY <1>1, <1>2, <1>5 DEF Onward, Begun, NoOperation, Operations, CallFits
  <2>2. QED BY <1>3, <1>5, <2>1 DEF CallFits, CallRunsOnce
<1>6. QED BY <1>3, <1>4, <1>5

LEMMA MeetsFits ==
  ASSUME McpInv, CallsInv, operation.pc \in {"ready", "wait"}, NEW error, Meets(error),
         ids' = ids, operation.pc = "wait" => ShouldReset(error)
  PROVE  CallsInv'
<1>0. server \in Servers
  BY ServerIsServer DEF McpInv
<1>1. operation'.pc # "wait" /\ CallFits'
  <2>1. CASE /\ RetriesInitialize(error)
             /\ operation' = [operation EXCEPT !.inits = 1, !.pc = "ready"]
    <3>1. /\ operation'.pc = "ready" /\ operation'.kind = operation.kind
          /\ operation'.runs = operation.runs /\ operation'.todo = operation.todo
      BY <2>1 DEF McpInv, OperationOK, Operations
    <3>2. operation.kind = "call" => operation.runs = 0
      BY <2>1 DEF RetriesInitialize, CallsInv, CallFits
    <3>3. QED BY <3>1, <3>2 DEF CallsInv, CallFits, CallRunsOnce
  <2>2. CASE /\ RetriesOperation(error)
             /\ operation' = [operation EXCEPT !.tries = 1, !.inits = 0, !.pc = "enter"]
    <3>1. operation'.pc = "enter" /\ operation'.kind # "call" /\ operation'.runs = 0
      BY <2>2 DEF RetriesOperation, McpInv, OperationOK, Operations, CallsInv, CallFits
    <3>2. QED BY <3>1 DEF CallFits, CallRunsOnce
  <2>3. CASE OperationFails
    BY <2>3, EndFits DEF OperationFails, CallsInv
  <2>4. QED BY <2>1, <2>2, <2>3 DEF Meets
<1>2. CASE Reset(server)
  <2>1. WireTyped' /\ WireFits'
    BY <1>0, <1>1, <1>2, ResetWire DEF CallsInv
  <2>2. GreetedHeld'
    BY <1>0, <1>2, ResetGreeted DEF CallsInv, McpInv
  <2>3. QED BY <1>1, <2>1, <2>2 DEF CallsInv
<1>3. CASE Kept /\ operation.pc # "wait"
  <2>1. UNCHANGED <<servers, inbox, outbox, greeted>>
    BY <1>3 DEF Kept, Wire, Heard
  <2>2. WireTyped' /\ WireFits'
    BY <1>1, <1>3, <2>1, QuietWire, WireIsQuiet DEF CallsInv, WireTyped, WireFits
  <2>3. GreetedHeld'
    BY <2>1 DEF CallsInv, GreetedHeld
  <2>4. QED BY <1>1, <2>2, <2>3 DEF CallsInv
<1>4. QED BY <1>2, <1>3 DEF Meets

\* The answer that is read was written by a process that has no request any more.
LEMMA AnsweredIsQuiet ==
  ASSUME McpInv, CallsInv, operation.pc = "wait", outbox[process] # <<>>,
         IsAnswer(Head(outbox[process]))
  PROVE  /\ \A p \in Pids : inbox[p] = 0
         /\ process \in Pids /\ Taken
<1>1. process \in Pids
  <2>1. server \in Servers
    BY ServerIsServer DEF McpInv
  <2>2. QED BY <2>1 DEF McpInv, ServersOK, process
<1>2. 1 \in DOMAIN outbox[process] /\ outbox[process][1].id = operation.req
  BY <1>1 DEF IsAnswer, CallsInv, WireTyped
<1>3. QED BY <1>1, <1>2 DEF CallsInv, WireFits, Outstanding, Taken

LEMMA TookKeepsWire ==
  ASSUME WireTyped, WireFits, process \in Pids, outbox[process] # <<>>, ids' = ids, inbox' = inbox,
         \A p \in Pids : inbox[p] = 0, operation'.pc # "wait",
         outbox' = [outbox EXCEPT ![process] = Tail(@)]
  PROVE  WireTyped' /\ WireFits'
<1> DEFINE o == outbox[process]
<1>1. o \in Seq(Letters) /\ o # <<>>
  BY DEF WireTyped
<1>2. /\ Tail(o) \in Seq(Letters)
      /\ \A i \in DOMAIN Tail(o) : i + 1 \in DOMAIN o /\ Tail(o)[i] = o[i + 1]
  BY <1>1
<1>3. \A i \in DOMAIN Tail(o) : Tail(o)[i].id <= ids
  BY <1>2 DEF WireFits
<1>4. /\ outbox' \in [Pids -> Seq(Letters)] /\ outbox'[process] = Tail(o)
      /\ \A p \in Pids : p # process => outbox'[p] = outbox[p]
  BY <1>2 DEF WireTyped
<1>5. \A p \in Pids : \A i \in DOMAIN outbox'[p] : outbox'[p][i].id <= ids
  BY <1>3, <1>4 DEF WireFits
<1>6. QED BY <1>4, <1>5, WireIsQuiet DEF WireTyped

LEMMA CallsNextInv == McpInv /\ CallsInv /\ [McpNext]_mcpVars => CallsInv'
<1> SUFFICES ASSUME McpInv, CallsInv, [McpNext]_mcpVars PROVE CallsInv'
  OBVIOUS
<1>0. /\ ServersOK /\ OperationOK /\ GreetedHeld /\ WireTyped /\ WireFits /\ CallFits
      /\ operation.pc = "wait" => process # 0
  BY DEF McpInv, CallsInv
<1>a. operation.pc \in {"enter", "ready", "wait"} => server \in Servers /\ process \in {0} \cup Pids
  BY <1>0, ServerIsServer DEF ServersOK, process
<1> USE DEF Wire, Heard, Record
<1>1. ASSUME NEW kind \in {"call", "read", "resources"}, NEW left \in SUBSET Servers,
             kind = "call" => \E s \in Servers : left = {s}, Begin(kind, left)
      PROVE  CallsInv'
  <2>1. /\ operation.pc = "idle" /\ operation'.pc = "enter" /\ operation'.kind = kind
        /\ operation'.runs = 0 /\ operation'.todo = left
        /\ UNCHANGED <<greeted, servers, inbox, outbox, ids>>
    BY <1>1 DEF Begin, Begun, NoOperation
  <2>2. CallFits'
    BY <1>1, <2>1 DEF CallFits, CallRunsOnce
  <2>3. WireTyped' /\ WireFits'
    BY <1>0, <2>1, QuietWire, WireIsQuiet DEF WireTyped, WireFits
  <2>4. QED BY <1>0, <2>1, <2>2, <2>3 DEF CallsInv, GreetedHeld
<1>2. CASE Enter
  <2>1. /\ operation.pc = "enter" /\ operation'.pc = "ready" /\ operation'.kind = operation.kind
        /\ operation'.runs = operation.runs /\ operation'.todo = operation.todo /\ ids' = ids
    BY <1>0, <1>2 DEF Enter, OperationOK, Operations
  <2>2. CallFits'
    BY <1>0, <2>1 DEF CallFits, CallRunsOnce
  <2>3. CASE Reset(server)
    BY <1>0, <1>a, <2>1, <2>2, <2>3, ResetWire, ResetGreeted DEF CallsInv
  <2>4. CASE Kept
    <3>1. UNCHANGED <<servers, inbox, outbox, greeted>>
      BY <2>4 DEF Kept
    <3>2. WireTyped' /\ WireFits'
      BY <1>0, <2>1, <3>1, QuietWire, WireIsQuiet DEF WireTyped, WireFits
    <3>3. QED BY <1>0, <2>2, <3>1, <3>2 DEF CallsInv, GreetedHeld
  <2>5. QED BY <1>2, <2>3, <2>4 DEF Enter
<1>3. CASE Spawn
  <2> DEFINE new == Lowest(Free)
  <2>1. /\ operation.pc = "ready" /\ process = 0 /\ servers' = [servers EXCEPT ![server] = Spawned(new)]
        /\ UNCHANGED <<inbox, outbox, ids, operation, greeted>>
    BY <1>3 DEF Spawn
  <2> HIDE DEF new
  <2>2. CallFits'
    BY <1>0, <2>1 DEF CallFits, CallRunsOnce
  <2>3. WireTyped' /\ WireFits'
    BY <1>0, <2>1, QuietWire, WireIsQuiet DEF WireTyped, WireFits
  <2>4. \A t \in Servers : servers[t].pid # 0 => servers'[t] = servers[t]
    BY <1>0, <1>a, <2>1 DEF ServersOK, process
  <2>5. GreetedHeld'
    BY <1>0, <2>1, <2>4 DEF GreetedHeld
  <2>6. QED BY <2>2, <2>3, <2>5 DEF CallsInv
<1>4. CASE SpawnFails
  BY <1>4, MeetsFits DEF SpawnFails
<1>5. CASE Ask
  <2>1. /\ operation.pc = "ready" /\ process \in Pids /\ ids' = ids + 1 /\ ids \in Nat
        /\ operation' = [operation EXCEPT !.pc = "wait", !.req = ids']
        /\ inbox' = [inbox EXCEPT ![process] = IF process \in alive THEN ids' ELSE 0]
        /\ UNCHANGED <<servers, alive, outbox, greeted>>
    BY <1>0, <1>a, <1>5 DEF Ask, OperationOK
  <2>2. /\ operation'.pc = "wait" /\ operation'.req = ids' /\ operation'.kind = operation.kind
        /\ operation'.runs = operation.runs /\ operation'.todo = operation.todo
        /\ operation'.said = operation.said
    BY <1>0, <2>1 DEF OperationOK, Operations
  <2>3. process' = process /\ Initializing' = Initializing
    BY <2>1, <2>2 DEF process, server, Initializing
  <2>4. /\ inbox' \in [Pids -> Nat] /\ inbox'[process] = IF process \in alive THEN ids' ELSE 0
        /\ \A p \in Pids : p # process => inbox'[p] = 0
    BY <1>0, <2>1, QuietWire DEF WireTyped
  <2>5. \A p \in Pids : \A i \in DOMAIN outbox[p] :
          outbox[p][i].id \in Nat /\ outbox[p][i].id <= ids
    <3> SUFFICES ASSUME NEW p \in Pids, NEW i \in DOMAIN outbox[p]
                 PROVE  outbox[p][i].id \in Nat /\ outbox[p][i].id <= ids
      OBVIOUS
    <3>1. outbox[p] \in Seq(Letters)
      BY <1>0 DEF WireTyped
    <3>2. outbox[p][i] \in Letters
      BY <3>1
    <3>3. QED BY <1>0, <3>2 DEF WireFits, Letters
  <2>6. WireTyped' /\ WireFits'
    <3>1. WireTyped'
      BY <1>0, <2>1, <2>4 DEF WireTyped
    <3>2. \A p \in Pids : inbox'[p] # 0 => Outstanding(p)'
      BY <2>1, <2>2, <2>3, <2>4 DEF Outstanding
    <3>3. \A p \in Pids : \A i \in DOMAIN outbox'[p] :
            outbox'[p][i].id <= ids' /\ (inbox'[p] # 0 => outbox'[p][i].id # inbox'[p])
      BY <2>1, <2>4, <2>5
    <3>4. QED BY <2>1, <2>2, <3>1, <3>2, <3>3 DEF WireFits
  <2>7. ~Taken'
    BY <2>1, <2>2, <2>3, <2>4, <2>5 DEF Taken
  <2>8. CallFits'
    BY <1>0, <2>1, <2>2, <2>3, <2>7 DEF CallFits, CallRunsOnce
  <2>9. QED BY <1>0, <2>1, <2>6, <2>8 DEF CallsInv, GreetedHeld
<1>6. CASE Read
  <2> DEFINE m == Head(outbox[process])
             took == outbox' = [outbox EXCEPT ![process] = Tail(@)]
  <2>1. operation.pc = "wait" /\ outbox[process] # <<>> /\ UNCHANGED ids /\ server \in Servers
    BY <1>a, <1>6 DEF Read
  <2>2. CASE Meets("invalid")
    BY <2>1, <2>2, MeetsFits DEF ShouldReset
  <2>3. ASSUME IsAnswer(m)
        PROVE  (\A p \in Pids : inbox[p] = 0) /\ process \in Pids /\ Taken
    BY <2>1, <2>3, AnsweredIsQuiet
  <2>4. ASSUME IsAnswer(m), took, UNCHANGED <<servers, inbox, greeted>>, CallFits',
               operation'.pc # "wait"
        PROVE  CallsInv'
    <3>1. WireTyped' /\ WireFits'
      BY <1>0, <2>1, <2>3, <2>4, TookKeepsWire
    <3>2. QED BY <1>0, <2>4, <3>1 DEF CallsInv, GreetedHeld
  <2>5. CASE IsAnswer(m) /\ OperationFails /\ took /\ UNCHANGED <<servers, alive, inbox, Heard>>
    <3>1. CallFits' /\ operation'.pc # "wait"
      BY <1>0, <2>1, <2>5, EndFits DEF OperationFails
    <3>2. QED BY <2>4, <2>5, <3>1
  <2>6. CASE /\ IsAnswer(m) /\ Initializing
             /\ servers' = [servers EXCEPT ![server].initialized = TRUE]
             /\ greeted' = greeted \cup {process}
             /\ operation' = [operation EXCEPT !.pc = "ready"]
             /\ took /\ UNCHANGED <<alive, inbox, routes, sent>>
    <3> DEFINE srv == server
    <3>1. /\ operation'.pc = "ready" /\ operation'.kind = operation.kind
          /\ operation'.runs = operation.runs /\ operation'.todo = operation.todo
      BY <1>0, <2>6 DEF OperationOK, Operations
    <3>2. CallFits'
      BY <1>0, <2>1, <2>6, <3>1 DEF CallFits, CallRunsOnce
    <3>3. WireTyped' /\ WireFits'
      BY <1>0, <2>1, <2>3, <2>6, <3>1, TookKeepsWire
    <3>4. srv \in Servers /\ servers[srv].pid = process /\ process # 0
      BY <1>0, <2>1 DEF process
    <3>5. servers' = [servers EXCEPT ![srv].initialized = TRUE]
      BY <2>6
    <3> HIDE DEF srv
    <3>6. /\ \A t \in Servers : servers'[t].pid = servers[t].pid
          /\ \A t \in Servers : t # srv => servers'[t] = servers[t]
          /\ servers'[srv].initialized = TRUE
      BY <1>0, <3>4, <3>5 DEF ServersOK
    <3>7. GreetedHeld'
      BY <1>0, <2>6, <3>4, <3>6 DEF GreetedHeld
    <3>8. QED BY <3>2, <3>3, <3>7 DEF CallsInv
  <2>7. CASE /\ IsAnswer(m) /\ Listing
             /\ operation' = [operation EXCEPT !.pc = "ready"]
             /\ took /\ UNCHANGED <<servers, alive, inbox, routes, Heard>>
    <3>1. operation'.pc = "ready" /\ operation'.kind # "call" /\ operation'.runs = 0
      BY <1>0, <2>7 DEF Listing, OperationOK, Operations, CallFits
    <3>2. CallFits'
      BY <3>1 DEF CallFits, CallRunsOnce
    <3>3. QED BY <2>4, <2>7, <3>1, <3>2
  <2>8. CASE /\ IsAnswer(m) /\ ~Initializing
             /\ Succeeds(IF m.body = "error" THEN "error" ELSE "ok")
             /\ took /\ UNCHANGED <<servers, alive, inbox, Heard>>
    <3>1. operation.kind = "call" => operation.runs = 1
      BY <1>0, <2>1, <2>3, <2>8 DEF CallFits
    <3>2. PICK said \in {"ok", "error"} : operation' = Onward([operation EXCEPT !.said = said])
      BY <2>8 DEF Succeeds
    <3>3. CallFits' /\ operation'.pc # "wait"
      BY <1>0, <2>1, <3>1, <3>2, EndFits
    <3>4. QED BY <2>4, <2>8, <3>3
  <2>9. QED BY <1>6, <2>2, <2>5, <2>6, <2>7, <2>8 DEF Read
<1>7. CASE Lost
  BY <1>7, MeetsFits DEF Lost, ShouldReset
<1>8. CASE Shutdown
  <2>1. /\ operation.pc = "idle" /\ greeted' = {} /\ ids' = ids
        /\ operation' = [operation EXCEPT !.pc = "over"]
        /\ inbox' = [p \in Pids |-> 0] /\ outbox' = [p \in Pids |-> <<>>]
    BY <1>8 DEF Shutdown
  <2>2. /\ operation'.pc = "over" /\ operation'.kind = operation.kind
        /\ operation'.runs = operation.runs
    BY <1>0, <2>1 DEF OperationOK, Operations
  <2>3. WireTyped' /\ WireFits'
    BY <1>0, <2>1, <2>2, WireIsQuiet
  <2>4. CallFits' /\ GreetedHeld'
    BY <1>0, <2>1, <2>2 DEF CallFits, CallRunsOnce, GreetedHeld
  <2>5. QED BY <2>3, <2>4 DEF CallsInv
<1>9. ASSUME NEW p \in Pids, NEW body \in Bodies, Answer(p, body) PROVE CallsInv'
  <2> DEFINE answer == [id |-> inbox[p], body |-> body]
  <2>1. /\ inbox[p] # 0 /\ inbox' = [inbox EXCEPT ![p] = 0]
        /\ outbox' = [outbox EXCEPT ![p] = Append(@, answer)]
        /\ operation' = IF Runs(p) THEN [operation EXCEPT !.runs = @ + 1] ELSE operation
        /\ UNCHANGED <<servers, alive, ids, routes, greeted>>
    BY <1>9 DEF Answer
  <2>2. /\ operation.pc = "wait" /\ p = process /\ p \in alive /\ inbox[p] = operation.req
        /\ operation.req = ids
    BY <1>0, <2>1 DEF WireFits, Outstanding
  <2>3. p \in greeted <=> ~Initializing
    <3> DEFINE srv == server
    <3>1. srv \in Servers /\ servers[srv].pid = p /\ p # 0
      BY <1>0, <1>a, <2>2 DEF process
    <3>2. Initializing <=> ~servers[srv].initialized
      BY DEF Initializing
    <3> HIDE DEF srv
    <3>3. QED BY <1>0, <3>1, <3>2 DEF GreetedHeld, ServersOK
  <2>4. operation.runs \in Nat
    BY <1>0 DEF OperationOK, Operations
  <2>5. /\ operation'.pc = "wait" /\ operation'.req = operation.req /\ operation'.kind = operation.kind
        /\ operation'.todo = operation.todo /\ operation'.said = operation.said
        /\ operation'.runs = IF operation.kind = "call" /\ ~Initializing
                             THEN operation.runs + 1 ELSE operation.runs
    BY <1>0, <2>1, <2>2, <2>3 DEF Runs, OperationOK, Operations
  <2>6. process' = process /\ Initializing' = Initializing
    BY <2>1, <2>5 DEF process, server, Initializing
  <2>7. answer \in Letters /\ answer.id = ids
    BY <1>0, <2>2 DEF WireTyped, Letters, OperationOK
  <2>8. /\ outbox' \in [Pids -> Seq(Letters)] /\ inbox' \in [Pids -> Nat] /\ inbox'[p] = 0
        /\ \A q \in Pids : q # p => inbox'[q] = inbox[q] /\ outbox'[q] = outbox[q]
        /\ outbox'[p] = Append(outbox[p], answer)
    BY <1>0, <2>1, <2>7 DEF WireTyped
  <2>9. \A i \in DOMAIN outbox'[p] : outbox'[p][i].id <= ids
    <3> DEFINE o == outbox[p]
    <3>1. o \in Seq(Letters) /\ \A i \in DOMAIN o : o[i].id <= ids
      BY <1>0 DEF WireTyped, WireFits
    <3>2. ids \in Nat
      BY <1>0 DEF OperationOK
    <3> HIDE DEF o, answer
    <3>3. \A i \in DOMAIN Append(o, answer) : Append(o, answer)[i].id <= ids
      BY <2>7, <3>1, <3>2
    <3>4. QED BY <2>8, <3>3 DEF o
  <2>10. WireTyped' /\ WireFits'
    <3>1. \A q \in Pids : inbox'[q] = 0
      BY <1>0, <2>2, <2>8 DEF WireFits, Outstanding
    <3>2. \A q \in Pids : \A i \in DOMAIN outbox'[q] : outbox'[q][i].id <= ids'
      BY <1>0, <2>1, <2>8, <2>9 DEF WireFits
    <3>3. QED BY <1>0, <2>1, <2>2, <2>5, <2>8, <3>1, <3>2 DEF WireTyped, WireFits
  <2>11. CallFits'
    <3>1. CASE operation.kind = "call" /\ ~Initializing
      <4>1. operation.runs = 0
        BY <1>0, <2>1, <2>2, <3>1 DEF CallFits
      <4>2. operation'.runs = 1
        BY <2>5, <3>1, <4>1
      <4>3. QED BY <1>0, <2>1, <2>2, <2>5, <2>6, <2>8, <3>1, <4>2 DEF CallFits, CallRunsOnce
    <3>2. CASE operation.kind # "call" \/ Initializing
      BY <1>0, <2>2, <2>5, <2>6, <3>2 DEF CallFits, CallRunsOnce
    <3>3. QED BY <3>1, <3>2
  <2>12. QED BY <1>0, <2>1, <2>10, <2>11 DEF CallsInv, GreetedHeld
<1>10. ASSUME NEW p \in Pids, NEW id \in {0} \cup 1..ids, Stray(p, id) PROVE CallsInv'
  <2> DEFINE stray == [id |-> id, body |-> "result"]
  <2>1. /\ p \in alive /\ (id = 0 \/ id < inbox[p] \/ inbox[p] = 0)
        /\ outbox' = [outbox EXCEPT ![p] = Append(@, stray)]
        /\ UNCHANGED <<servers, alive, inbox, ids, operation, greeted>>
    BY <1>10 DEF Stray
  <2>2. stray \in Letters /\ ids \in Nat /\ id \in Nat /\ id <= ids /\ stray.id = id
    BY <1>0 DEF Letters, Bodies, OperationOK
  <2>3. process' = process /\ Initializing' = Initializing
    BY <2>1 DEF process, server, Initializing
  <2>4. /\ outbox' \in [Pids -> Seq(Letters)]
        /\ \A q \in Pids : q # p => outbox'[q] = outbox[q]
        /\ outbox'[p] = Append(outbox[p], stray)
    BY <1>0, <2>1, <2>2 DEF WireTyped
  <2> HIDE DEF stray
  <2>5. \A i \in DOMAIN outbox'[p] : \/ i \in DOMAIN outbox[p] /\ outbox'[p][i] = outbox[p][i]
                                     \/ outbox'[p][i] = stray
    <3>1. outbox[p] \in Seq(Letters)
      BY <1>0 DEF WireTyped
    <3>2. QED BY <2>2, <2>4, <3>1
  <2>6. inbox[p] \in Nat
    BY <1>0 DEF WireTyped
  <2>7. \A i \in DOMAIN outbox'[p] :
          outbox'[p][i].id <= ids /\ (inbox[p] # 0 => outbox'[p][i].id # inbox[p])
    BY <1>0, <2>1, <2>2, <2>5, <2>6 DEF WireFits
  <2>8. WireTyped' /\ WireFits'
    <3>1. \A q \in Pids : Outstanding(q)' <=> Outstanding(q)
      BY <2>1, <2>3 DEF Outstanding
    <3>2. \A q \in Pids : \A i \in DOMAIN outbox'[q] :
            outbox'[q][i].id <= ids' /\ (inbox'[q] # 0 => outbox'[q][i].id # inbox'[q])
      BY <1>0, <2>1, <2>4, <2>7 DEF WireFits
    <3>3. QED BY <1>0, <2>1, <2>4, <3>1, <3>2 DEF WireTyped, WireFits
  <2>9. operation.pc = "wait" /\ Taken' => Taken
    <3> SUFFICES ASSUME operation.pc = "wait", NEW i \in DOMAIN outbox'[process],
                        outbox'[process][i].id = operation.req
                 PROVE  Taken
      BY <2>1, <2>3 DEF Taken
    <3>1. CASE process # p
      BY <1>0, <1>a, <2>4, <3>1 DEF Taken
    <3>2. CASE process = p /\ inbox[p] = 0
      BY <2>1, <3>2 DEF Taken
    <3>3. CASE process = p /\ inbox[p] # 0
      BY <1>0, <2>7, <3>3 DEF WireFits, Outstanding
    <3>4. QED BY <3>1, <3>2, <3>3
  <2>10. CallFits'
    BY <1>0, <2>1, <2>3, <2>9 DEF CallFits, CallRunsOnce
  <2>11. QED BY <1>0, <2>1, <2>8, <2>10 DEF CallsInv, GreetedHeld
<1>11. ASSUME NEW p \in Pids, Dies(p) PROVE CallsInv'
  <2>1. /\ alive' = alive \ {p} /\ inbox' = [inbox EXCEPT ![p] = 0]
        /\ UNCHANGED <<servers, outbox, ids, operation, greeted>>
    BY <1>11 DEF Dies
  <2>2. process' = process /\ Initializing' = Initializing
    BY <2>1 DEF process, server, Initializing
  <2>3. /\ inbox' \in [Pids -> Nat] /\ inbox'[p] = 0
        /\ \A q \in Pids : q # p => inbox'[q] = inbox[q]
    BY <1>0, <2>1 DEF WireTyped
  <2>4. \A q \in Pids : inbox'[q] # 0 => Outstanding(q)'
    BY <1>0, <2>1, <2>2, <2>3 DEF WireFits, Outstanding
  <2>5. WireTyped' /\ WireFits'
    BY <1>0, <2>1, <2>3, <2>4 DEF WireTyped, WireFits
  <2>6. operation.pc = "wait" => (Taken' => Taken) /\ (inbox'[process] # 0 => inbox[process] # 0)
    BY <1>0, <1>a, <2>1, <2>2, <2>3 DEF Taken
  <2>7. CallFits'
    BY <1>0, <2>1, <2>2, <2>6 DEF CallFits, CallRunsOnce
  <2>8. QED BY <1>0, <2>1, <2>5, <2>7 DEF CallsInv, GreetedHeld
<1>12. CASE UNCHANGED mcpVars
  <2>1. /\ UNCHANGED <<servers, alive, inbox, outbox, ids, operation, greeted>>
    BY <1>12 DEF mcpVars
  <2>2. process' = process /\ Initializing' = Initializing /\ Taken' = Taken
    BY <2>1 DEF process, server, Initializing, Taken
  <2>3. WireTyped' /\ WireFits'
    BY <1>0, <2>1, <2>2 DEF WireTyped, WireFits, Outstanding
  <2>4. CallFits'
    BY <1>0, <2>1, <2>2 DEF CallFits, CallRunsOnce
  <2>5. QED BY <1>0, <2>1, <2>3, <2>4 DEF CallsInv, GreetedHeld
<1>13. ASSUME NEW s \in Servers, NEW kind \in {"call", "read"}, Begin(kind, {s}) PROVE CallsInv'
  BY <1>1, <1>13
<1>14. CASE Begin("resources", Servers)
  BY <1>1, <1>14
<1>15. QED
  BY <1>2, <1>3, <1>4, <1>5, <1>6, <1>7, <1>8, <1>9, <1>10, <1>11, <1>12, <1>13, <1>14
     DEF McpNext

\* mcp_stdio.rs, call_tool: through retries, resets and messages nobody asked
\* for, a tool runs at most once for a call, and a call that succeeded ran it.
THEOREM CallsRunOnce == McpSpec => []CallRunsOnce
<1>1. CallsInv => CallRunsOnce
  BY DEF CallsInv, CallFits
<1>2. QED BY McpInitInv, McpNextInv, CallsInitInv, CallsNextInv, <1>1, PTL DEF McpSpec
(***************************************************************************)
(* PluginRuntime                                                           *)
(***************************************************************************)
Runtimes == [id : Nat, plugins : SUBSET Plugins, active : BOOLEAN]
PluginTyped ==
  /\ enabled \subseteq Plugins /\ up \subseteq Plugins /\ todo \subseteq Plugins
  /\ current \in Runtimes /\ next \in Runtimes /\ builds \in Nat /\ 0 \notin serving
  /\ lost \in [plugins : SUBSET Plugins, servers : SUBSET Nat]
\* A runtime that starts has started all but what is left to do.
StartsFit ==
  /\ StartingUp => next.plugins \ todo \subseteq up /\ todo \subseteq next.plugins
  /\ PluginsAreUpInTurn
\* Who still has to stop what is up and what serves, as far as it is not lost.
StopsFit ==
  /\ serving \subseteq {current.id, next.id} \cup lost.servers
  /\ current.active = TRUE \/ current.plugins = {}
  /\ pc = "prompt" => next = NoRuntime /\ up \subseteq current.plugins \cup lost.plugins
  /\ pc \in {"initTurn", "initSwap"} =>
       up \subseteq current.plugins \cup (next.plugins \ todo) \cup lost.plugins
  /\ pc = "turn" => up \subseteq current.plugins \cup next.plugins \cup lost.plugins
  /\ pc \in {"turn", "stopOld", "stopNext"} => next.active = TRUE
  /\ pc = "stopOld" => up \subseteq todo \cup next.plugins \cup lost.plugins
                       /\ todo \subseteq current.plugins
  /\ pc = "stopNext" => up \subseteq todo \cup current.plugins \cup lost.plugins
                        /\ todo \subseteq next.plugins
  /\ pc = "drop" => up \subseteq current.plugins \cup lost.plugins
                                 \cup (IF next.active = TRUE THEN next.plugins ELSE {})
  /\ pc = "dropNext" => up \subseteq current.plugins \cup lost.plugins \cup todo
                        /\ serving \subseteq {current.id} \cup lost.servers
  /\ pc = "dropCurrent" => up \subseteq todo \cup lost.plugins /\ serving \subseteq lost.servers
  /\ pc = "over" => up \subseteq lost.plugins /\ serving \subseteq lost.servers
PluginInv == PluginTyped /\ StartsFit /\ StopsFit

LEMMA NoRuntimeIsRuntime ==
  NoRuntime \in Runtimes /\ NoRuntime.id = 0 /\ NoRuntime.plugins = {} /\ NoRuntime.active = FALSE
BY DEF NoRuntime, Runtimes

LEMMA PluginInitInv == PluginInit => PluginInv
<1> SUFFICES ASSUME PluginInit PROVE PluginInv
  OBVIOUS
<1>1. PluginTyped
  BY NoRuntimeIsRuntime DEF PluginInit, PluginTyped
<1>2. StartsFit
  BY DEF PluginInit, StartsFit, StartingUp, PluginsAreUpInTurn
<1>3. StopsFit
  BY NoRuntimeIsRuntime DEF PluginInit, StopsFit
<1>4. QED BY <1>1, <1>2, <1>3 DEF PluginInv

LEMMA PluginNextInv == PluginInv /\ [PluginNext]_pluginVars => PluginInv'
<1> SUFFICES ASSUME PluginInv, [PluginNext]_pluginVars PROVE PluginInv'
  OBVIOUS
<1> USE DEF PluginInv, PluginTyped, StartsFit, StopsFit, StartingUp, PluginsAreUpInTurn
<1>1. ASSUME NEW for \in {"turn", "swap"}, Build(for) PROVE PluginInv'
  <2>1. /\ builds' = builds + 1 /\ next' = [id |-> builds', plugins |-> enabled, active |-> FALSE]
        /\ serving' = serving \cup {builds'} /\ todo' = enabled /\ pc = "prompt"
        /\ pc' \in {"initTurn", "initSwap"} /\ UNCHANGED <<enabled, current, up, lost>>
    BY <1>1 DEF Build, Toward
  <2>2. next' \in Runtimes /\ next'.plugins = enabled /\ next'.id = builds' /\ builds' \in Nat \ {0}
    BY <2>1 DEF Runtimes
  <2>3. serving \subseteq {current.id} \cup lost.servers
    BY <2>1 DEF NoRuntime
  <2>4. QED BY <2>1, <2>2, <2>3
<1>2. CASE StartsPlugin
  <2>1. First(todo) \in todo
    BY <1>2, LowestIsLowest, PluginAssumption DEF StartsPlugin, First, Lowest
  <2>2. QED BY <1>2, <2>1 DEF StartsPlugin
<1>3. CASE BuildFails
  <2>1. /\ next' = NoRuntime /\ todo' = {} /\ pc' = "drop" /\ pc \in {"initTurn", "initSwap"}
        /\ lost'.plugins = lost.plugins \cup (next.plugins \ todo)
        /\ lost'.servers = lost.servers \cup {next.id}
        /\ UNCHANGED <<enabled, current, up, serving, builds>>
    BY <1>3 DEF BuildFails
  <2>2. lost' \in [plugins : SUBSET Plugins, servers : SUBSET Nat]
    BY <1>3 DEF BuildFails, Runtimes
  <2>3. PluginTyped' /\ StartsFit'
    BY <2>1, <2>2, NoRuntimeIsRuntime
  <2>4. StopsFit'
    BY <2>1, NoRuntimeIsRuntime
  <2>5. QED BY <2>3, <2>4
<1>4. CASE Built
  <2>1. /\ next' \in Runtimes /\ next'.id = next.id /\ next'.plugins = next.plugins
        /\ next'.active = TRUE
    BY <1>4 DEF Built, Runtimes
  <2>2. QED BY <1>4, <2>1 DEF Built, Runtimes
<1>5. CASE TurnEnds
  BY <1>5 DEF TurnEnds, Runtimes
<1>6. CASE TurnFails
  BY <1>6 DEF TurnFails, Runtimes
<1>7. CASE StopsPlugin
  BY <1>7 DEF StopsPlugin, Stopping
<1>8. CASE StopFails
  <2>1. todo' = {} /\ UNCHANGED <<enabled, up, serving, builds>>
    BY <1>8 DEF StopFails
  <2>2. CASE pc \in {"stopOld", "stopNext"}
    <3>1. pc' = "drop" /\ UNCHANGED <<current, next, lost>>
      BY <1>8, <2>2 DEF StopFails
    <3>2. QED BY <2>1, <2>2, <3>1
  <2>3. CASE pc = "dropNext"
    <3>1. /\ pc' = "drop" /\ next' = NoRuntime /\ current' = current
          /\ lost'.plugins = lost.plugins \cup todo /\ lost'.servers = lost.servers
      BY <1>8, <2>3 DEF StopFails, AfterDrop
    <3>2. lost' \in [plugins : SUBSET Plugins, servers : SUBSET Nat]
      BY <1>8, <2>3 DEF StopFails
    <3>3. QED BY <2>1, <2>3, <3>1, <3>2, NoRuntimeIsRuntime
  <2>4. CASE pc = "dropCurrent"
    <3>1. /\ pc' = "over" /\ current' = NoRuntime /\ next' = next
          /\ lost'.plugins = lost.plugins \cup todo /\ lost'.servers = lost.servers
      BY <1>8, <2>4 DEF StopFails, AfterDrop
    <3>2. lost' \in [plugins : SUBSET Plugins, servers : SUBSET Nat]
      BY <1>8, <2>4 DEF StopFails
    <3>3. QED BY <2>1, <2>4, <3>1, <3>2, NoRuntimeIsRuntime
  <2>5. QED BY <1>8, <2>2, <2>3, <2>4 DEF StopFails, Stopping
<1>9. CASE Replaced
  BY <1>9 DEF Replaced, NoRuntime, Runtimes
<1>10. CASE GivenUp
  <2>1. next' \in Runtimes /\ next'.id = next.id
    BY <1>10 DEF GivenUp, Runtimes
  <2>2. QED BY <1>10, <2>1 DEF GivenUp
<1>11. CASE ProgramExits
  BY <1>11 DEF ProgramExits
<1>12. CASE Drops
  <2>0. UNCHANGED <<enabled, current, next, up, builds, lost>>
    BY <1>12 DEF Drops
  <2>a. current.plugins \subseteq Plugins /\ next.plugins \subseteq Plugins
    BY DEF Runtimes
  <2>1. CASE DropNext
    <3>1. /\ pc = "drop" /\ pc' = "dropNext" /\ serving' = serving \ {next.id}
          /\ todo' \in {next.plugins, {}}
      BY <2>1 DEF DropNext, Drop
    <3>2. PluginTyped' /\ StartsFit'
      BY <2>0, <2>a, <3>1
    <3>3. up \subseteq current.plugins \cup lost.plugins \cup todo'
      <4>1. CASE next.active = TRUE
        BY <2>1, <3>1, <4>1 DEF DropNext, Drop
      <4>2. CASE next.active # TRUE
        BY <3>1, <4>2
      <4>3. QED BY <4>1, <4>2
    <3>4. StopsFit'
      BY <2>0, <3>1, <3>3
    <3>5. QED BY <2>0, <3>2, <3>4
  <2>2. CASE DropCurrent
    <3>1. /\ pc = "drop" /\ pc' = "dropCurrent" /\ serving' = serving \ {current.id}
          /\ next.id = 0 /\ todo' \in {current.plugins, {}}
      BY <2>2, NoRuntimeIsRuntime DEF DropCurrent, Drop
    <3>2. PluginTyped' /\ StartsFit'
      BY <2>0, <2>a, <3>1
    <3>3. up \subseteq todo' \cup lost.plugins
      <4>1. CASE current.active = TRUE
        BY <2>2, <3>1, <4>1, NoRuntimeIsRuntime DEF DropCurrent, Drop
      <4>2. CASE current.plugins = {}
        BY <2>2, <3>1, <4>2, NoRuntimeIsRuntime DEF DropCurrent, Drop
      <4>3. QED BY <4>1, <4>2
    <3>4. StopsFit'
      BY <2>0, <3>1, <3>3
    <3>5. QED BY <2>0, <3>2, <3>4
  <2>3. QED BY <1>12, <2>1, <2>2 DEF Drops
<1>13. CASE Dropped
  <2>1. todo = {} /\ UNCHANGED <<enabled, todo, up, serving, builds, lost>>
    BY <1>13 DEF Dropped
  <2>2. CASE pc = "dropNext"
    <3>1. pc' = "drop" /\ next' = NoRuntime /\ current' = current
      BY <1>13, <2>2 DEF Dropped, AfterDrop
    <3>2. PluginTyped' /\ StartsFit'
      BY <2>1, <3>1, NoRuntimeIsRuntime
    <3>3. StopsFit'
      BY <2>1, <2>2, <3>1
    <3>4. QED BY <2>1, <3>2, <3>3
  <2>3. CASE pc = "dropCurrent"
    <3>1. pc' = "over" /\ current' = NoRuntime /\ next' = next
      BY <1>13, <2>3 DEF Dropped, AfterDrop
    <3>2. PluginTyped' /\ StartsFit'
      BY <2>1, <3>1, NoRuntimeIsRuntime
    <3>3. StopsFit'
      BY <2>1, <2>3, <3>1, NoRuntimeIsRuntime
    <3>4. QED BY <2>1, <3>2, <3>3
  <2>4. QED BY <1>13, <2>2, <2>3 DEF Dropped
<1>16. ASSUME NEW for \in {"turn", "swap"}, BuildRefused(for) PROVE PluginInv'
  BY <1>16, NoRuntimeIsRuntime DEF BuildRefused
<1>14. ASSUME NEW plugin \in Plugins, Changes(plugin) PROVE PluginInv'
  BY <1>14 DEF Changes
<1>15. CASE UNCHANGED pluginVars
  BY <1>15 DEF pluginVars
<1>17. QED
  BY <1>1, <1>2, <1>3, <1>4, <1>5, <1>6, <1>7, <1>8, <1>9, <1>10, <1>11, <1>12, <1>13,
     <1>14, <1>15, <1>16 DEF PluginNext

\* main.rs, prepare_turn_runtime and replace_runtime: the plugins of a turn's
\* runtime are up while it runs, although another runtime stopped them before.
THEOREM PluginsAreUp == PluginSpec => []PluginsAreUpInTurn
<1>1. PluginInv => PluginsAreUpInTurn
  BY DEF PluginInv, StartsFit
<1>2. QED BY PluginInitInv, PluginNextInv, <1>1, PTL DEF PluginSpec

\* main.rs, build_runtime and Drop for BuiltRuntime: whatever of its runtimes a
\* program leaves behind was started by a build that failed, or was not stopped
\* because a command failed in the last drop.
THEOREM LeftByFailure == PluginSpec => []LeftByFailureOnly
<1>1. PluginInv => LeftByFailureOnly
  BY DEF PluginInv, StopsFit, LeftByFailureOnly
<1>2. QED BY PluginInitInv, PluginNextInv, <1>1, PTL DEF PluginSpec

(***************************************************************************)
(* ApiStream                                                               *)
(***************************************************************************)
(* The reader's loop.                                                      *)

\* The recursion in HearAll, as the relation between its values.
Hearing(hearing, h, events, n) ==
  /\ hearing = [k \in 0..n |-> hearing[k]] /\ hearing[0] = h
  /\ \A k \in 1..n : hearing[k] = Hear(hearing[k - 1], events[k])

LEMMA HearingExists ==
  ASSUME NEW h, NEW events, NEW n \in Nat
  PROVE  \E hearing : Hearing(hearing, h, events, n)
<1> DEFINE T == {m \in Nat : ~\E hearing : Hearing(hearing, h, events, m)}
<1>1. SUFFICES ASSUME T # {} PROVE FALSE
  OBVIOUS
<1>2. PICK m \in T : \A k \in T : ~(k < m)
  <2> HIDE DEF T
  <2>1. T \subseteq Nat
    BY DEF T
  <2>2. QED BY <1>1, <2>1, HasLeast, Zenon
<1>3. m # 0
  <2>1. Hearing([k \in 0..0 |-> h], h, events, 0)
    BY DEF Hearing
  <2>2. QED BY <2>1
<1>4. PICK hearing : Hearing(hearing, h, events, m - 1)
  BY <1>2, <1>3
<1> DEFINE longer == [k \in 0..m |-> IF k < m THEN hearing[k] ELSE Hear(hearing[m - 1], events[m])]
<1>5. Hearing(longer, h, events, m)
  <2>1. m \in Nat /\ m - 1 \in Nat
    BY <1>3
  <2>2. longer[0] = h
    BY <1>3, <1>4, <2>1 DEF Hearing
  <2>3. ASSUME NEW k \in 1..m PROVE longer[k] = Hear(longer[k - 1], events[k])
    <3>1. longer[k - 1] = hearing[k - 1]
      BY <2>1
    <3>2. CASE k = m
      BY <2>1, <3>1, <3>2
    <3>3. CASE k # m
      <4>1. k \in 1..m - 1 /\ longer[k] = hearing[k]
        BY <2>1, <3>3
      <4>2. QED BY <1>4, <3>1, <4>1 DEF Hearing
    <3>4. QED BY <3>2, <3>3
  <2>4. longer = [k \in 0..m |-> longer[k]]
    OBVIOUS
  <2> HIDE DEF longer
  <2>5. QED BY <2>2, <2>3, <2>4 DEF Hearing
<1>6. QED BY <1>5

LEMMA HearAllIs ==
  ASSUME NEW h, NEW events, NEW n \in Nat, Len(events) = n
  PROVE  \E hearing : Hearing(hearing, h, events, n) /\ HearAll(h, events) = hearing[n]
<1> DEFINE Step(t) == [k \in 0..n |-> IF k = 0 THEN h ELSE Hear(t[k - 1], events[k])]
           all == CHOOSE t : t = Step(t)
<1>1. HearAll(h, events) = all[n]
  BY DEF HearAll
<1>2. ASSUME NEW t PROVE t = Step(t) <=> Hearing(t, h, events, n)
  <2>1. ASSUME t = Step(t) PROVE Hearing(t, h, events, n)
    <3>1. t = [k \in 0..n |-> t[k]] /\ t[0] = h
      BY <2>1
    <3>2. ASSUME NEW k \in 1..n PROVE t[k] = Hear(t[k - 1], events[k])
      <4>1. k \in 0..n /\ k # 0
        OBVIOUS
      <4>2. t[k] = Step(t)[k]
        BY <2>1
      <4>3. QED BY <4>1, <4>2
    <3>3. QED BY <3>1, <3>2 DEF Hearing
  <2>2. ASSUME Hearing(t, h, events, n) PROVE t = Step(t)
    <3>1. ASSUME NEW k \in 0..n PROVE t[k] = Step(t)[k]
      <4>1. CASE k = 0
        BY <2>2, <4>1 DEF Hearing
      <4>2. CASE k # 0
        <5>1. k \in 1..n
          BY <4>2
        <5>2. QED BY <2>2, <4>2, <5>1 DEF Hearing
      <4>3. QED BY <4>1, <4>2
    <3>2. t = [k \in 0..n |-> t[k]]
      BY <2>2 DEF Hearing
    <3>3. QED BY <3>1, <3>2
  <2>3. QED BY <2>1, <2>2
<1>3. \E t : t = Step(t)
  BY <1>2, HearingExists
<1> HIDE DEF Step
<1>4. all = Step(all)
  BY <1>3
<1> HIDE DEF all
<1>5. Hearing(all, h, events, n)
  BY <1>2, <1>4
<1>6. QED BY <1>1, <1>5

\* Of no event, of one, of two and of three.
LEMMA HearNone ==
  ASSUME NEW h
  PROVE  HearAll(h, <<>>) = h
<1>1. PICK f : Hearing(f, h, <<>>, 0) /\ HearAll(h, <<>>) = f[0]
  BY HearAllIs
<1>2. QED BY <1>1 DEF Hearing

LEMMA HearOne ==
  ASSUME NEW h, NEW a
  PROVE  HearAll(h, <<a>>) = Hear(h, a)
<1>1. PICK f : Hearing(f, h, <<a>>, 1) /\ HearAll(h, <<a>>) = f[1]
  BY HearAllIs
<1>2. QED BY <1>1 DEF Hearing

LEMMA HearTwo ==
  ASSUME NEW h, NEW a, NEW b
  PROVE  HearAll(h, <<a, b>>) = Hear(Hear(h, a), b)
<1>1. PICK f : Hearing(f, h, <<a, b>>, 2) /\ HearAll(h, <<a, b>>) = f[2]
  BY HearAllIs
<1>2. f[1] = Hear(h, a) /\ f[2] = Hear(f[1], b)
  BY <1>1 DEF Hearing
<1>3. QED BY <1>1, <1>2

LEMMA HearThree ==
  ASSUME NEW h, NEW a, NEW b, NEW c
  PROVE  HearAll(h, <<a, b, c>>) = Hear(Hear(Hear(h, a), b), c)
<1>1. PICK f : Hearing(f, h, <<a, b, c>>, 3) /\ HearAll(h, <<a, b, c>>) = f[3]
  BY HearAllIs
<1>2. f[1] = Hear(h, a) /\ f[2] = Hear(f[1], b) /\ f[3] = Hear(f[2], c)
  BY <1>1 DEF Hearing
<1>3. QED BY <1>1, <1>2

(* One event.                                                              *)

\* Call i is under way with this input; the reader after it has got so far.
Holds(h, i, input) == h.pending[Slot(i)] = [call |-> i, input |-> input]
Holding(h, i, input) ==
  [h EXCEPT !.pending = [h.pending EXCEPT ![Slot(i)] = [call |-> i, input |-> input]]]

LEMMA HoldingIs ==
  ASSUME MaxCalls \in Nat, NEW h \in HeardTypes, NEW i \in Calls, NEW input \in Seq(Nat)
  PROVE  /\ Holding(h, i, input) \in HeardTypes /\ Holding(h, i, input).calls = h.calls
         /\ Holding(h, i, input).pending =
              [h.pending EXCEPT ![Slot(i)] = [call |-> i, input |-> input]]
         /\ Holds(Holding(h, i, input), i, input)
         /\ \A x : Holding(Holding(h, i, input), i, x) = Holding(h, i, x)
<1>1. Slot(i) \in 0..MaxCalls /\ i \in 0..MaxCalls
  BY DEF Slot, Calls
<1>2. PICK tool \in Tools : tool = [call |-> i, input |-> input]
  BY <1>1 DEF Tools
<1>3. Holding(h, i, input) = [h EXCEPT !.pending = [h.pending EXCEPT ![Slot(i)] = tool]]
  BY <1>2 DEF Holding
<1>4. PICK p \in [0..MaxCalls -> Tools] : p = [h.pending EXCEPT ![Slot(i)] = tool]
  BY <1>1 DEF HeardTypes
<1>5. Holding(h, i, input) = [h EXCEPT !.pending = p]
  BY <1>3, <1>4
<1>6. /\ Holding(h, i, input) \in HeardTypes /\ Holding(h, i, input).calls = h.calls
      /\ Holding(h, i, input).pending = p
  BY <1>5 DEF HeardTypes
<1>7. p[Slot(i)] = tool
  BY <1>1, <1>4 DEF HeardTypes
<1>8. Holds(Holding(h, i, input), i, input)
  BY <1>2, <1>6, <1>7, Zenon DEF Holds
<1>9. ASSUME NEW x PROVE Holding(Holding(h, i, input), i, x) = Holding(h, i, x)
  <2>1. PICK y : y = [call |-> i, input |-> x]
    OBVIOUS
  <2>2. [p EXCEPT ![Slot(i)] = y] = [h.pending EXCEPT ![Slot(i)] = y]
    BY <1>1, <1>4 DEF HeardTypes
  <2>3. PICK q : q = [h.pending EXCEPT ![Slot(i)] = y]
    OBVIOUS
  <2>4. Holding(Holding(h, i, input), i, x) = [[h EXCEPT !.pending = p] EXCEPT !.pending = q]
    BY <1>5, <1>6, <2>1, <2>2, <2>3, Zenon DEF Holding
  <2>5. Holding(h, i, x) = [h EXCEPT !.pending = q]
    BY <2>1, <2>3, Zenon DEF Holding
  <2>6. [[h EXCEPT !.pending = p] EXCEPT !.pending = q] = [h EXCEPT !.pending = q]
    BY DEF HeardTypes
  <2>7. QED BY <2>4, <2>5, <2>6
<1>10. QED BY <1>2, <1>4, <1>6, <1>8, <1>9, Zenon

LEMMA HeldIs ==
  ASSUME MaxCalls \in Nat, NEW h \in HeardTypes, NEW i \in Calls, NEW input \in Seq(Nat),
         NEW g, g = Holding(h, i, input)
  PROVE  /\ g \in HeardTypes /\ g.calls = h.calls /\ Holds(g, i, input)
         /\ g.pending = [h.pending EXCEPT ![Slot(i)] = [call |-> i, input |-> input]]
BY HoldingIs, Zenon

LEMMA HearStart ==
  ASSUME NEW h, NEW i
  PROVE  Hear(h, Event("start", i)) = Holding(h, i, <<>>)
<1>1. Event("start", i).kind = "start" /\ Event("start", i).index = i
  BY DEF Event
<1>2. [NoTool EXCEPT !.call = i] = [call |-> i, input |-> <<>>]
  BY DEF NoTool
<1>3. QED BY <1>1, <1>2 DEF Hear, Holding

LEMMA HearInput ==
  ASSUME MaxCalls \in Nat, NEW h \in HeardTypes, NEW i \in Calls, NEW old, NEW input,
         Holds(h, i, old), NEW e, e.kind = "input", e.index = i, e.input = input
  PROVE  Hear(h, e) = Holding(h, i, old \o input)
<1>1. PICK was : was = [call |-> i, input |-> old]
  OBVIOUS
<1>2. was.call = i /\ was.input = old /\ h.pending[Slot(i)] = was
  BY <1>1 DEF Holds
<1>3. was # NoTool
  BY <1>2 DEF NoTool, Calls
<1>4. Hear(h, e) = [h EXCEPT !.pending[Slot(i)].input = @ \o input]
  BY <1>2, <1>3 DEF Hear
<1>5. PICK new : new = old \o input
  OBVIOUS
<1>6. [was EXCEPT !.input = new] = [call |-> i, input |-> new]
  BY <1>1
<1>7. Hear(h, e) = [h EXCEPT !.pending = [h.pending EXCEPT ![Slot(i)] = [was EXCEPT !.input = new]]]
  BY <1>2, <1>4, <1>5
<1>8. QED BY <1>5, <1>6, <1>7 DEF Holding

LEMMA HearStop ==
  ASSUME NEW h \in HeardTypes, NEW i \in 0..MaxCalls, MaxCalls \in Nat
  PROVE  /\ Hear(h, Event("stop", i)) \in HeardTypes
         /\ h.pending[Slot(i)] = NoTool => Hear(h, Event("stop", i)) = h
         /\ h.pending[Slot(i)] # NoTool =>
              /\ Hear(h, Event("stop", i)).calls = Append(h.calls, h.pending[Slot(i)])
              /\ Hear(h, Event("stop", i)).pending = [h.pending EXCEPT ![Slot(i)] = NoTool]
<1> DEFINE e == Event("stop", i)
           tool == h.pending[Slot(i)]
<1>1. /\ Slot(i) \in 0..MaxCalls /\ tool \in Tools /\ NoTool \in Tools
      /\ e.kind = "stop" /\ e.index = i
  <2>1. Slot(i) \in 0..MaxCalls /\ tool \in Tools
    BY DEF Slot, HeardTypes
  <2>2. NoTool \in Tools
    BY DEF NoTool, Tools
  <2>3. e.kind = "stop" /\ e.index = i
    BY DEF Event
  <2>4. QED BY <2>1, <2>2, <2>3
<1>2. CASE tool = NoTool
  BY <1>1, <1>2 DEF Hear
<1>3. CASE tool # NoTool
  <2>1. Hear(h, e) = [h EXCEPT !.pending[Slot(i)] = NoTool, !.calls = Append(@, tool)]
    BY <1>1, <1>3 DEF Hear
  <2>2. Append(h.calls, tool) \in Seq(Tools)
    BY <1>1 DEF HeardTypes
  <2> HIDE DEF e, tool
  <2>3. QED BY <1>1, <1>3, <2>1, <2>2 DEF HeardTypes, e, tool
<1>4. QED BY <1>2, <1>3

LEMMA HearRest ==
  ASSUME NEW h \in HeardTypes, NEW kind \in {"text", "end"}
  PROVE  /\ Hear(h, Event(kind, 0)) \in HeardTypes
         /\ Hear(h, Event(kind, 0)).calls = h.calls
         /\ Hear(h, Event(kind, 0)).pending = h.pending
<1>1. Hear(h, Event("text", 0)) = [h EXCEPT !.text = TRUE]
  BY DEF Hear, Event
<1>2. Hear(h, Event("end", 0)) = [h EXCEPT !.stop = TRUE]
  BY DEF Hear, Event
<1>3. QED BY <1>1, <1>2 DEF HeardTypes

(* The pieces of a call.                                                   *)

LEMMA InputIs ==
  ASSUME NEW from \in Nat, NEW to \in Nat, from <= to + 1
  PROVE  /\ Input(from, to) \in Seq(Nat) /\ Len(Input(from, to)) = to - from + 1
         /\ \A k \in 1..to - from + 1 : Input(from, to)[k] = from + k - 1
<1>1. to - from + 1 \in Nat
  OBVIOUS
<1>2. Input(from, to) \in [1..to - from + 1 -> Nat]
  BY DEF Input
<1>3. QED BY <1>1, <1>2 DEF Input

\* One more piece.
LEMMA InputGrows ==
  ASSUME NEW k \in Nat
  PROVE  /\ Input(1, k) \o <<k + 1>> = Input(1, k + 1)
         /\ Input(k + 1, k + 1) = <<k + 1>> /\ Input(1, 0) = <<>> /\ <<>> \o Input(1, k) = Input(1, k)
<1>1. /\ Input(1, k) \in Seq(Nat) /\ Len(Input(1, k)) = k
      /\ \A i \in 1..k : Input(1, k)[i] = i
  <2>1. 1 <= k + 1 /\ k - 1 + 1 = k /\ \A i \in 1..k : 1 + i - 1 = i
    OBVIOUS
  <2>2. QED BY <2>1, InputIs
<1>2. Input(1, k) \o <<k + 1>> = Input(1, k + 1)
  <2> DEFINE s == Input(1, k) \o <<k + 1>>
  <2>1. <<k + 1>> \in Seq(Nat) /\ Len(<<k + 1>>) = 1
    OBVIOUS
  <2>2. /\ s \in Seq(Nat) /\ Len(s) = k + 1
        /\ \A i \in 1..k + 1 : s[i] = IF i <= k THEN Input(1, k)[i] ELSE <<k + 1>>[i - k]
    BY <1>1, <2>1, ConcatProperties
  <2> HIDE DEF s
  <2>3. \A i \in 1..k + 1 : s[i] = i
    BY <1>1, <2>2
  <2>4. /\ Input(1, k + 1) \in Seq(Nat) /\ Len(Input(1, k + 1)) = k + 1
        /\ \A i \in 1..k + 1 : Input(1, k + 1)[i] = i
    <3>1. 1 <= (k + 1) + 1 /\ (k + 1) - 1 + 1 = k + 1 /\ \A i \in 1..k + 1 : 1 + i - 1 = i
      OBVIOUS
    <3>2. QED BY <3>1, InputIs
  <2>5. QED BY <2>2, <2>3, <2>4, SeqEqual DEF s
<1>3. Input(k + 1, k + 1) = <<k + 1>>
  BY DEF Input
<1>4. Input(1, 0) = <<>>
  BY DEF Input
<1>5. <<>> \o Input(1, k) = Input(1, k)
  BY <1>1, ConcatEmptySeq
<1>6. QED BY <1>2, <1>3, <1>4, <1>5

LEMMA HeardUptoIs ==
  ASSUME NEW n \in 0..MaxCalls, MaxCalls \in Nat, Fragments \in Nat \ {0}
  PROVE  /\ HeardUpto(n) \in Seq(Tools) /\ HeardUpto(0) = <<>>
         /\ n > 0 => HeardUpto(n) = Append(HeardUpto(n - 1), [call |-> n, input |-> Whole])
<1>1. Whole \in Seq(Nat)
  BY InputIs DEF Whole
<1>2. ASSUME NEW m \in 0..MaxCalls
      PROVE  /\ HeardUpto(m) \in Seq(Tools) /\ Len(HeardUpto(m)) = m
             /\ \A i \in 1..m : HeardUpto(m)[i] = [call |-> i, input |-> Whole]
  <2>1. \A i \in 1..m : [call |-> i, input |-> Whole] \in Tools
    BY <1>1 DEF Tools
  <2>2. m \in Nat /\ HeardUpto(m) \in [1..m -> Tools]
    BY <2>1 DEF HeardUpto
  <2>3. QED BY <2>2 DEF HeardUpto
<1>3. HeardUpto(0) = <<>>
  BY DEF HeardUpto
<1>4. ASSUME n > 0
      PROVE  HeardUpto(n) = Append(HeardUpto(n - 1), [call |-> n, input |-> Whole])
  <2> DEFINE tool == [call |-> n, input |-> Whole]
             s == Append(HeardUpto(n - 1), tool)
  <2>1. n - 1 \in 0..MaxCalls /\ n \in Nat /\ tool \in Tools
    BY <1>1, <1>4 DEF Tools
  <2>2. /\ HeardUpto(n - 1) \in Seq(Tools) /\ Len(HeardUpto(n - 1)) = n - 1
        /\ \A i \in 1..n - 1 : HeardUpto(n - 1)[i] = [call |-> i, input |-> Whole]
    BY <1>2, <2>1
  <2>3. /\ s \in Seq(Tools) /\ Len(s) = n /\ s[n] = tool
        /\ \A i \in 1..n - 1 : s[i] = [call |-> i, input |-> Whole]
    BY <2>1, <2>2, AppendProperties
  <2>4. \A i \in 1..n : s[i] = [call |-> i, input |-> Whole]
    <3> HIDE DEF s
    <3>1. \A i \in 1..n : i \in 1..n - 1 \/ i = n
      BY <2>1
    <3>2. QED BY <2>3, <3>1
  <2>5. /\ HeardUpto(n) \in Seq(Tools) /\ Len(HeardUpto(n)) = n
        /\ \A i \in 1..n : HeardUpto(n)[i] = [call |-> i, input |-> Whole]
    BY <1>2
  <2> HIDE DEF s, tool
  <2>6. HeardUpto(n) = s
    BY <2>3, <2>4, <2>5, SeqEqual
  <2>7. QED BY <2>6 DEF s, tool
<1>5. QED BY <1>2, <1>3, <1>4

\* The next piece of a call.
LEMMA HearPiece ==
  ASSUME MaxCalls \in Nat, NEW h \in HeardTypes, NEW i \in Calls, NEW k \in Nat \ {0},
         Holds(h, i, Input(1, k - 1)), NEW e, e.kind = "input", e.index = i, e.input = <<k>>
  PROVE  Hear(h, e) = Holding(h, i, Input(1, k))
<1>1. Input(1, k - 1) \o <<k>> = Input(1, k)
  <2>1. k - 1 \in Nat /\ (k - 1) + 1 = k
    OBVIOUS
  <2>2. QED BY <2>1, InputGrows
<1>2. PICK old, input : old = Input(1, k - 1) /\ input = <<k>>
  OBVIOUS
<1>3. Holds(h, i, old) /\ e.input = input
  BY <1>2
<1>4. Hear(h, e) = Holding(h, i, old \o input)
  BY <1>3, HearInput
<1>5. QED BY <1>1, <1>2, <1>4

\* The start of a call and its first k pieces at once.
LEMMA HearFirst ==
  ASSUME MaxCalls \in Nat, NEW h \in HeardTypes, NEW i \in Calls, NEW k \in Nat \ {0},
         NEW e, e.kind = "input", e.index = i, e.input = Input(1, k)
  PROVE  Hear(Hear(h, Event("start", i)), e) = Holding(h, i, Input(1, k))
<1>1. PICK g : g = Holding(h, i, <<>>)
  OBVIOUS
<1>2. g = Hear(h, Event("start", i))
  BY <1>1, HearStart
<1>3. g \in HeardTypes /\ Holds(g, i, <<>>) /\ \A x : Holding(g, i, x) = Holding(h, i, x)
  <2>1. PICK none : none = <<>>
    OBVIOUS
  <2>2. none \in Seq(Nat)
    BY <2>1, EmptySeq
  <2>3. g = Holding(h, i, none)
    BY <1>1, <2>1
  <2>4. g \in HeardTypes /\ Holds(g, i, none) /\ \A x : Holding(g, i, x) = Holding(h, i, x)
    <3>1. /\ Holding(h, i, none) \in HeardTypes /\ Holds(Holding(h, i, none), i, none)
          /\ \A x : Holding(Holding(h, i, none), i, x) = Holding(h, i, x)
      BY <2>2, HoldingIs, Zenon
    <3>2. QED BY <2>3, <3>1, Zenon
  <2>5. QED BY <2>1, <2>4
<1>4. <<>> \o Input(1, k) = Input(1, k)
  BY InputGrows
<1>5. Hear(g, e) = Holding(g, i, Input(1, k))
  <2>1. PICK old, input : old = <<>> /\ input = Input(1, k)
    OBVIOUS
  <2>2. Holds(g, i, old) /\ e.input = input
    BY <1>3, <2>1
  <2>3. Hear(g, e) = Holding(g, i, old \o input)
    BY <1>3, <2>2, HearInput
  <2>4. QED BY <1>4, <2>1, <2>3
<1>6. QED BY <1>2, <1>3, <1>5

LEMMA Concatenations ==
  ASSUME NEW a, NEW b, NEW c
  PROVE  /\ <<>> \o <<b>> = <<b>> /\ <<>> \o <<b>> \o <<>> = <<b>>
         /\ <<a>> \o <<b>> = <<a, b>> /\ <<a>> \o <<b>> \o <<>> = <<a, b>>
         /\ <<>> \o <<b>> \o <<c>> = <<b, c>> /\ <<a>> \o <<b>> \o <<c>> = <<a, b, c>>
         /\ <<a>> \o <<>> = <<a>>
<1> DEFINE S == {a, b, c}
<1>1. <<a>> \in Seq(S) /\ <<b>> \in Seq(S) /\ <<c>> \in Seq(S) /\ <<a, b>> \in Seq(S)
  OBVIOUS
<1>2. ASSUME NEW s \in Seq(S) PROVE <<>> \o s = s /\ s \o <<>> = s
  BY <1>2, ConcatEmptySeq
<1>3. ASSUME NEW x, NEW y PROVE <<x>> \o <<y>> = <<x, y>>
  <2> DEFINE s == <<x>> \o <<y>>
             T == {x, y}
  <2>1. <<x>> \in Seq(T) /\ <<y>> \in Seq(T) /\ Len(<<x>>) = 1 /\ Len(<<y>>) = 1
    OBVIOUS
  <2>2. /\ s \in Seq(T) /\ Len(s) = 2
        /\ \A i \in 1..2 : s[i] = IF i <= 1 THEN <<x>>[i] ELSE <<y>>[i - 1]
    BY <2>1, ConcatProperties
  <2> HIDE DEF s
  <2>3. s[1] = x /\ s[2] = y
    BY <2>2
  <2>4. <<x, y>> \in Seq(T) /\ Len(<<x, y>>) = 2 /\ <<x, y>>[1] = x /\ <<x, y>>[2] = y
    OBVIOUS
  <2> HIDE DEF T
  <2>5. \A i \in 1..2 : s[i] = <<x, y>>[i]
    <3>1. \A i \in 1..2 : i = 1 \/ i = 2
      OBVIOUS
    <3>2. QED BY <2>3, <2>4, <3>1
  <2>6. QED BY <2>2, <2>4, <2>5, SeqEqual DEF s
<1>4. <<a, b>> \o <<c>> = <<a, b, c>>
  <2> DEFINE s == <<a, b>> \o <<c>>
  <2>1. Len(<<a, b>>) = 2 /\ Len(<<c>>) = 1 /\ <<a, b>>[1] = a /\ <<a, b>>[2] = b /\ <<c>>[1] = c
    OBVIOUS
  <2>2. /\ s \in Seq(S) /\ Len(s) = 3
        /\ \A i \in 1..3 : s[i] = IF i <= 2 THEN <<a, b>>[i] ELSE <<c>>[i - 2]
    BY <1>1, <2>1, ConcatProperties
  <2> HIDE DEF s
  <2>3. s[1] = a /\ s[2] = b /\ s[3] = c
    BY <2>1, <2>2
  <2>4. <<a, b, c>> \in Seq(S) /\ Len(<<a, b, c>>) = 3
    OBVIOUS
  <2> HIDE DEF S
  <2>5. \A i \in 1..3 : s[i] = <<a, b, c>>[i]
    <3>1. \A i \in 1..3 : i = 1 \/ i = 2 \/ i = 3
      OBVIOUS
    <3>2. QED BY <2>3, <3>1
  <2>6. QED BY <2>2, <2>4, <2>5, SeqEqual DEF s
<1>5. QED BY <1>1, <1>2, <1>3, <1>4

\* The events of a call in a stream of the Anthropic kind.
LEMMA CallHeard ==
  ASSUME MaxCalls \in Nat, Fragments \in Nat \ {0}, NEW h \in HeardTypes, NEW i \in Calls,
         NEW k \in 1..Fragments, k # 1 => Holds(h, i, Input(1, k - 1))
  PROVE  HearAll(h, (IF k = 1 THEN <<Event("start", i)>> ELSE <<>>)
                      \o <<[Event("input", i) EXCEPT !.input = <<k>>]>>
                      \o (IF k = Fragments THEN <<Event("stop", i)>> ELSE <<>>))
           = IF k = Fragments THEN Hear(Holding(h, i, Whole), Event("stop", i))
             ELSE Holding(h, i, Input(1, k))
<1>1. PICK a, e, z : /\ a = Event("start", i) /\ z = Event("stop", i)
                     /\ e = [Event("input", i) EXCEPT !.input = <<k>>]
  OBVIOUS
<1>2. e.kind = "input" /\ e.index = i /\ e.input = <<k>>
  BY <1>1 DEF Event
<1>3. k = 1 => Hear(Hear(h, a), e) = Holding(h, i, Input(1, k))
  <2>1. Input(1, 1) = <<1>>
    BY DEF Input
  <2>2. ASSUME k = 1 PROVE e.input = Input(1, k) /\ k \in Nat \ {0}
    BY <1>2, <2>1, <2>2
  <2>3. ASSUME k = 1 PROVE Hear(Hear(h, Event("start", i)), e) = Holding(h, i, Input(1, k))
    BY <1>2, <2>2, <2>3, HearFirst
  <2>4. QED BY <1>1, <2>3
<1>4. k # 1 => Hear(h, e) = Holding(h, i, Input(1, k))
  BY <1>2, HearPiece
<1>5. k = Fragments => Input(1, k) = Whole
  BY DEF Whole
<1>6. PICK g : g = Holding(h, i, Input(1, k))
  OBVIOUS
<1>7. HearAll(h, (IF k = 1 THEN <<a>> ELSE <<>>) \o <<e>> \o (IF k = Fragments THEN <<z>> ELSE <<>>))
        = IF k = Fragments THEN Hear(g, z) ELSE g
  <2>1. CASE k = 1 /\ k = Fragments
    <3>1. <<a>> \o <<e>> \o <<z>> = <<a, e, z>>
      BY Concatenations
    <3>2. HearAll(h, <<a, e, z>>) = Hear(Hear(Hear(h, a), e), z)
      BY HearThree
    <3>3. QED BY <1>3, <1>6, <2>1, <3>1, <3>2
  <2>2. CASE k = 1 /\ k # Fragments
    <3>1. <<a>> \o <<e>> \o <<>> = <<a, e>>
      BY Concatenations
    <3>2. HearAll(h, <<a, e>>) = Hear(Hear(h, a), e)
      BY HearTwo
    <3>3. QED BY <1>3, <1>6, <2>2, <3>1, <3>2
  <2>3. CASE k # 1 /\ k = Fragments
    <3>1. <<>> \o <<e>> \o <<z>> = <<e, z>>
      BY Concatenations
    <3>2. HearAll(h, <<e, z>>) = Hear(Hear(h, e), z)
      BY HearTwo
    <3>3. QED BY <1>4, <1>6, <2>3, <3>1, <3>2
  <2>4. CASE k # 1 /\ k # Fragments
    <3>1. <<>> \o <<e>> \o <<>> = <<e>>
      BY Concatenations
    <3>2. HearAll(h, <<e>>) = Hear(h, e)
      BY HearOne
    <3>3. QED BY <1>4, <1>6, <2>4, <3>1, <3>2
  <2>5. QED BY <2>1, <2>2, <2>3, <2>4
<1>8. QED BY <1>1, <1>5, <1>6, <1>7, Zenon

\* The stop of a call that has its input.
LEMMA HearEnd ==
  ASSUME MaxCalls \in Nat, Fragments \in Nat \ {0}, NEW h \in HeardTypes, NEW i \in Calls,
         Holds(h, i, Whole), NEW g, g = Hear(h, Event("stop", i))
  PROVE  /\ g \in HeardTypes /\ g.calls = Append(h.calls, [call |-> i, input |-> Whole])
         /\ g.pending = [h.pending EXCEPT ![Slot(i)] = NoTool]
<1>1. i \in 0..MaxCalls
  BY DEF Calls
<1>2. PICK tool : tool = [call |-> i, input |-> Whole]
  OBVIOUS
<1>3. h.pending[Slot(i)] = tool /\ tool # NoTool
  <2>1. tool.call = i
    BY <1>2
  <2>2. QED BY <1>2, <2>1 DEF Holds, NoTool, Calls
<1>4. /\ g \in HeardTypes /\ g.calls = Append(h.calls, tool)
      /\ g.pending = [h.pending EXCEPT ![Slot(i)] = NoTool]
  BY <1>1, <1>3, HearStop
<1>5. QED BY <1>2, <1>4

(* The stops at the end of a stream.                                       *)

\* Only one function satisfies the recursion.
LEMMA HearingUnique ==
  ASSUME NEW h, NEW events, NEW n \in Nat, NEW f, NEW g,
         Hearing(f, h, events, n), Hearing(g, h, events, n)
  PROVE  \A k \in 0..n : f[k] = g[k]
<1> DEFINE T == {k \in 0..n : f[k] # g[k]}
<1>1. SUFFICES ASSUME T # {} PROVE FALSE
  OBVIOUS
<1>2. PICK m \in T : \A k \in T : ~(k < m)
  <2> HIDE DEF T
  <2>1. T \subseteq Nat
    BY DEF T
  <2>2. QED BY <1>1, <2>1, HasLeast, Zenon
<1>3. m # 0
  BY <1>2 DEF Hearing
<1>4. m \in 1..n /\ m - 1 \in 0..n /\ m - 1 < m
  BY <1>2, <1>3
<1>5. f[m - 1] = g[m - 1]
  BY <1>2, <1>4
<1>6. f[m] = Hear(f[m - 1], events[m]) /\ g[m] = Hear(g[m - 1], events[m])
  BY <1>4 DEF Hearing
<1>7. QED BY <1>2, <1>5, <1>6

LEMMA HearConcat ==
  ASSUME NEW S, NEW s \in Seq(S), NEW t \in Seq(S), NEW h
  PROVE  HearAll(h, s \o t) = HearAll(HearAll(h, s), t)
<1> DEFINE n == Len(s)
           m == Len(t)
<1>1. /\ n \in Nat /\ m \in Nat /\ Len(s \o t) = n + m
      /\ \A k \in 1..n + m : (s \o t)[k] = IF k <= n THEN s[k] ELSE t[k - n]
  BY ConcatProperties
<1> HIDE DEF n, m
<1>2. PICK f : Hearing(f, h, s, n) /\ HearAll(h, s) = f[n]
  BY <1>1, HearAllIs DEF n
<1>3. PICK g : Hearing(g, f[n], t, m) /\ HearAll(f[n], t) = g[m]
  <2>1. PICK mid : mid = f[n]
    OBVIOUS
  <2>2. Len(t) = m
    BY DEF m
  <2>3. QED BY <1>1, <2>1, <2>2, HearAllIs
<1>4. PICK all : Hearing(all, h, s \o t, n + m) /\ HearAll(h, s \o t) = all[n + m]
  <2>1. PICK events, l : events = s \o t /\ l = n + m
    OBVIOUS
  <2>2. l \in Nat /\ Len(events) = l
    BY <1>1, <2>1
  <2>3. \E all : Hearing(all, h, events, l) /\ HearAll(h, events) = all[l]
    BY <2>2, HearAllIs
  <2>4. QED BY <2>1, <2>3
<1>5. PICK both : both = [k \in 0..n + m |-> IF k <= n THEN f[k] ELSE g[k - n]]
  OBVIOUS
<1>6. both[0] = h /\ both[n + m] = g[m]
  BY <1>1, <1>2, <1>3, <1>5 DEF Hearing
<1>7. ASSUME NEW k \in 1..n + m PROVE both[k] = Hear(both[k - 1], (s \o t)[k])
  <2>1. CASE k <= n
    <3>1. k \in 1..n /\ both[k] = f[k] /\ both[k - 1] = f[k - 1] /\ (s \o t)[k] = s[k]
      BY <1>1, <1>5, <2>1
    <3>2. QED BY <1>2, <3>1 DEF Hearing
  <2>2. CASE k > n
    <3>1. k - n \in 1..m /\ both[k] = g[k - n] /\ (s \o t)[k] = t[k - n]
      BY <1>1, <1>5, <2>2
    <3>2. both[k - 1] = g[k - n - 1]
      BY <1>1, <1>3, <1>5, <2>2 DEF Hearing
    <3>3. QED BY <1>3, <3>1, <3>2 DEF Hearing
  <2>3. QED BY <1>1, <2>1, <2>2
<1>8. Hearing(both, h, s \o t, n + m)
  BY <1>5, <1>6, <1>7 DEF Hearing
<1>9. all[n + m] = both[n + m]
  <2>1. PICK events, l : events = s \o t /\ l = n + m
    OBVIOUS
  <2>2. l \in Nat /\ l \in 0..l
    BY <1>1, <2>1
  <2>3. Hearing(all, h, events, l) /\ Hearing(both, h, events, l)
    BY <1>4, <1>8, <2>1
  <2>4. \A k \in 0..l : all[k] = both[k]
    BY <2>2, <2>3, HearingUnique
  <2>5. QED BY <2>1, <2>2, <2>4
<1>10. QED BY <1>2, <1>3, <1>4, <1>6, <1>9

\* How many of a set are below i.
CountBelow(set, i) == Cardinality({j \in set : j < i})
\* Of a finite set of numbers there is one that k are below, for each k that fits.
LEMMA NthExists ==
  ASSUME NEW open, open \subseteq Nat, IsFiniteSet(open), NEW k \in Nat, k < Cardinality(open)
  PROVE  \E i \in open : CountBelow(open, i) = k
<1> DEFINE Wrong(s, n) == /\ s \subseteq Nat /\ IsFiniteSet(s) /\ n < Cardinality(s)
                          /\ ~\E i \in s : Cardinality({j \in s : j < i}) = n
           T == {n \in Nat : \E s : Wrong(s, n)}
<1>1. SUFFICES ASSUME T # {} PROVE FALSE
  BY DEF CountBelow
<1>2. PICK n \in T : \A m \in T : ~(m < n)
  <2> HIDE DEF T
  <2>1. T \subseteq Nat
    BY DEF T
  <2>2. QED BY <1>1, <2>1, HasLeast, Zenon
<1>3. PICK s : Wrong(s, n)
  BY <1>2
<1>4. Cardinality(s) \in Nat /\ s # {} /\ n \in Nat
  BY <1>2, <1>3, FS_CardinalityType, FS_EmptySet
<1>5. PICK m \in s : \A j \in s : ~(j < m)
  BY <1>3, <1>4, HasLeast, Zenon
<1>6. {j \in s : j < m} = {}
  BY <1>5
<1>7. n # 0
  BY <1>3, <1>6, FS_EmptySet
<1>8. /\ IsFiniteSet(s \ {m}) /\ Cardinality(s \ {m}) = Cardinality(s) - 1
      /\ s \ {m} \subseteq Nat /\ n - 1 \in Nat /\ n - 1 < n /\ n - 1 < Cardinality(s \ {m})
  <2>1. PICK size \in Nat : size = Cardinality(s) /\ n < size
    BY <1>3, <1>4
  <2>2. IsFiniteSet(s \ {m}) /\ Cardinality(s \ {m}) = size - 1
    <3> HIDE DEF T
    <3>1. IsFiniteSet(s) /\ m \in s
      BY <1>3, <1>5
    <3>2. QED BY <2>1, <3>1, FS_RemoveElement
  <2>3. n - 1 \in Nat /\ n - 1 < n /\ n - 1 < size - 1
    BY <1>4, <1>7, <2>1
  <2>4. QED BY <1>3, <2>1, <2>2, <2>3
<1>9. ~Wrong(s \ {m}, n - 1)
  BY <1>2, <1>8
<1>10. PICK i \in s \ {m} : Cardinality({j \in s \ {m} : j < i}) = n - 1
  BY <1>8, <1>9
<1> DEFINE Under(t) == {j \in t : j < i}
<1>11. m \in Nat /\ i \in Nat /\ m < i
  BY <1>3, <1>5, <1>10
<1>12. /\ Under(s) = Under(s \ {m}) \cup {m} /\ m \notin Under(s \ {m})
       /\ Under(s \ {m}) \subseteq s
  BY <1>5, <1>11
<1>13. IsFiniteSet(Under(s \ {m}))
  BY <1>3, <1>12, FS_Subset
<1>14. Cardinality(Under(s)) = n - 1 + 1
  <2> HIDE DEF T
  <2>1. PICK b : b = Under(s \ {m})
    OBVIOUS
  <2>2. Under(s) = b \cup {m} /\ m \notin b /\ IsFiniteSet(b) /\ Cardinality(b) = n - 1
    BY <1>10, <1>12, <1>13, <2>1
  <2>3. QED BY <2>2, FS_AddElement
<1>15. Cardinality({j \in s : j < i}) = n
  <2>1. n - 1 + 1 = n
    BY <1>4
  <2>2. QED BY <1>14, <2>1
<1>16. QED BY <1>3, <1>10, <1>15 DEF CountBelow

\* Events of the calls.
Events == {e \in [kind : {"start", "input", "stop", "text", "end"}, index : 0..MaxCalls,
                  input : Seq(Nat)] : e.kind = "start" => e.index \in Calls}

\* nth lists the n members of a set; the stops of the calls listed.
Lists(nth, n, set) ==
  /\ nth \in [1..n -> set] /\ \A k, l \in 1..n : nth[k] = nth[l] => k = l
  /\ \A i \in set : \E k \in 1..n : nth[k] = i
Stops(nth, n) == [k \in 1..n |-> Event("stop", nth[k])]

\* The stops of the open calls are in some order the stops of each, once.
LEMMA StopsAre ==
  ASSUME MaxCalls \in Nat, NEW b, NEW open, open = b.started \ b.stopped, open \subseteq Calls
  PROVE  \E n \in Nat : \E nth : Lists(nth, n, open) /\ StopEvents(b) = Stops(nth, n)
<1> DEFINE Nth(k) == CHOOSE i \in open : Cardinality({j \in open : j < i}) = k - 1
<1>1. open \subseteq Nat /\ open \subseteq 1..MaxCalls /\ IsFiniteSet(open)
  <2>1. IsFiniteSet(1..MaxCalls)
    BY FS_Interval
  <2>2. open \subseteq 1..MaxCalls
    BY DEF Calls
  <2>3. QED BY <2>1, <2>2, FS_Subset
<1>2. PICK n \in Nat : n = Cardinality(open)
  BY <1>1, FS_CardinalityType
<1>3. ASSUME NEW k \in 1..n
      PROVE  Nth(k) \in open /\ Cardinality({j \in open : j < Nth(k)}) = k - 1
  <2>1. PICK m \in Nat : m = k - 1 /\ m < Cardinality(open)
    BY <1>2
  <2>2. \E i \in open : CountBelow(open, i) = m
    BY <1>1, <2>1, NthExists, Zenon
  <2>3. QED BY <2>1, <2>2 DEF CountBelow
<1>4. StopEvents(b) = [k \in 1..n |-> Event("stop", Nth(k))]
  BY <1>2 DEF StopEvents
<1> HIDE DEF Nth
<1>5. PICK nth : nth = [k \in 1..n |-> Nth(k)]
  OBVIOUS
<1>6. nth \in [1..n -> open] /\ \A k \in 1..n : nth[k] = Nth(k)
  BY <1>3, <1>5
<1>7. StopEvents(b) = Stops(nth, n)
  BY <1>4, <1>6 DEF Stops
<1>8. ASSUME NEW k \in 1..n, NEW l \in 1..n, nth[k] = nth[l] PROVE k = l
  <2>1. PICK i : i = Nth(k) /\ i = Nth(l)
    BY <1>6, <1>8
  <2>2. Cardinality({j \in open : j < i}) = k - 1 /\ Cardinality({j \in open : j < i}) = l - 1
    BY <1>3, <2>1
  <2>3. QED BY <2>2
<1>9. nth \in Injection(1..n, open)
  BY <1>6, <1>8 DEF Injection, IsInjective
<1>10. Cardinality(1..n) = n
  BY FS_Interval
<1>11. nth \in Surjection(1..n, open)
  BY <1>1, <1>2, <1>9, <1>10, FS_Injection
<1>12. \A i \in open : \E k \in 1..n : nth[k] = i
  BY <1>11 DEF Surjection
<1>13. Lists(nth, n, open)
  BY <1>6, <1>8, <1>12 DEF Lists
<1>14. QED BY <1>7, <1>13

LEMMA EventIs ==
  ASSUME MaxCalls \in Nat, NEW kind \in {"input", "stop", "text", "end"}, NEW index \in 0..MaxCalls
  PROVE  /\ Event(kind, index) \in Events
         /\ index \in Calls => Event("start", index) \in Events
         /\ \A input \in Seq(Nat) : [Event("input", index) EXCEPT !.input = input] \in Events
<1>1. <<>> \in Seq(Nat)
  OBVIOUS
<1>2. Event(kind, index) \in Events /\ (index \in Calls => Event("start", index) \in Events)
  BY <1>1 DEF Event, Events
<1>3. ASSUME NEW input \in Seq(Nat)
      PROVE  [Event("input", index) EXCEPT !.input = input] \in Events
  <2>1. [Event("input", index) EXCEPT !.input = input]
          = [kind |-> "input", index |-> index, input |-> input]
    BY DEF Event
  <2>2. QED BY <2>1 DEF Events
<1>4. QED BY <1>2, <1>3

\* What is said and what a stream's blocks make of it are events.
LEMMA StopsAreEvents ==
  ASSUME MaxCalls \in Nat, NEW b, b.started \subseteq Calls
  PROVE  StopEvents(b) \in Seq(Events)
<1>1. PICK open : open = b.started \ b.stopped /\ open \subseteq Calls
  OBVIOUS
<1>2. PICK n \in Nat : \E nth : Lists(nth, n, open) /\ StopEvents(b) = Stops(nth, n)
  BY <1>1, StopsAre, Zenon
<1>3. PICK nth : nth \in [1..n -> open] /\ StopEvents(b) = [k \in 1..n |-> Event("stop", nth[k])]
  BY <1>2 DEF Lists, Stops
<1>4. ASSUME NEW k \in 1..n PROVE Event("stop", nth[k]) \in Events
  <2>1. PICK i \in 0..MaxCalls : i = nth[k]
    BY <1>1, <1>3 DEF Calls
  <2>2. QED BY <2>1, EventIs
<1>5. QED BY <1>3, <1>4

LEMMA CallsAreEvents ==
  ASSUME MaxCalls \in Nat, NEW i \in Calls, NEW k \in Nat, NEW b \in Blocks,
         b.emitted[i] \in Nat
  PROVE  CallEvents(b, i, k) \in Seq(Events)
<1>1. i \in 0..MaxCalls
  BY DEF Calls
<1>2. /\ Event("start", i) \in Events
      /\ \A input \in Seq(Nat) : [Event("input", i) EXCEPT !.input = input] \in Events
  BY <1>1, EventIs
<1>3. \A e \in Events : <<e>> \in Seq(Events)
  OBVIOUS
<1>4. /\ <<Event("start", i)>> \in Seq(Events) /\ <<>> \in Seq(Events)
      /\ \A input \in Seq(Nat) : <<[Event("input", i) EXCEPT !.input = input]>> \in Seq(Events)
  BY <1>2, <1>3
<1>5. CASE ~Named(b, i, k)
  BY <1>4, <1>5 DEF CallEvents
<1>6. CASE Named(b, i, k)
  <2>1. PICK first \in Seq(Events) :
          first = IF i \in b.started THEN <<>> ELSE <<Event("start", i)>>
    BY <1>4
  <2>2. PICK piece : piece = Input(b.emitted[i] + 1, k)
    OBVIOUS
  <2>3. piece \in Seq(Nat)
    <3>1. PICK from \in Nat : from = b.emitted[i] + 1 /\ from >= 1
      OBVIOUS
    <3>2. PICK n \in Int : n = k - from + 1
      OBVIOUS
    <3>3. piece = [j \in 1..n |-> from + j - 1]
      BY <2>2, <3>1, <3>2 DEF Input
    <3>4. CASE n >= 0
      <4>1. \A j \in 1..n : from + j - 1 \in Nat
        BY <3>1
      <4>2. QED BY <3>3, <3>4, <4>1
    <3>5. CASE n < 0
      <4>1. 1..n = {}
        BY <3>5
      <4>2. piece = [j \in 1..0 |-> from + j - 1]
        BY <3>3, <4>1
      <4>3. QED BY <4>2
    <3>6. QED BY <3>2, <3>4, <3>5
  <2>4. PICK rest \in Seq(Events) : rest = <<[Event("input", i) EXCEPT !.input = piece]>>
    BY <1>4, <2>3
  <2>5. CallEvents(b, i, k) = first \o rest
    BY <1>6, <2>1, <2>2, <2>4 DEF CallEvents
  <2>6. QED BY <2>5
<1>7. QED BY <1>5, <1>6

(* Calls heard once each.                                                  *)

WholeCall(i) == [call |-> i, input |-> Whole]

LEMMA OnceNone == EachOnce(<<>>, {})
BY DEF EachOnce

LEMMA OnceMore ==
  ASSUME NEW heardCalls \in Seq(Tools), NEW set, EachOnce(heardCalls, set), NEW i, i \notin set,
         NEW tool \in Tools, tool = WholeCall(i)
  PROVE  EachOnce(Append(heardCalls, tool), set \cup {i})
<1> DEFINE n == Len(heardCalls)
<1>1. PICK s : s = Append(heardCalls, tool)
  OBVIOUS
<1>2. /\ n \in Nat /\ DOMAIN heardCalls = 1..n /\ DOMAIN s = 1..n + 1 /\ s[n + 1] = tool
      /\ \A k \in 1..n : s[k] = heardCalls[k]
  BY <1>1
<1>3. /\ {heardCalls[k] : k \in 1..n} = {WholeCall(j) : j \in set}
      /\ \A k, l \in 1..n : heardCalls[k] = heardCalls[l] => k = l
  BY <1>2 DEF EachOnce, WholeCall
<1> HIDE DEF n
<1>4. \A j : WholeCall(j).call = j
  BY DEF WholeCall
<1>5. tool \notin {WholeCall(j) : j \in set}
  BY <1>4
<1>6. \A k \in 1..n : heardCalls[k] # tool
  BY <1>3, <1>5
<1>7. \A k \in 1..n + 1 : k \in 1..n \/ k = n + 1
  BY <1>2
<1>8. \A k \in 1..n : k \in 1..n + 1
  BY <1>2
<1>9. n + 1 \in 1..n + 1
  BY <1>2
<1>10. {s[k] : k \in 1..n + 1} = {WholeCall(j) : j \in set \cup {i}}
  <2>1. ASSUME NEW k \in 1..n + 1 PROVE \E j \in set \cup {i} : s[k] = WholeCall(j)
    <3>1. CASE k = n + 1
      BY <1>2, <3>1
    <3>2. CASE k \in 1..n
      <4>1. s[k] \in {WholeCall(j) : j \in set}
        BY <1>2, <1>3, <3>2
      <4>2. QED BY <4>1
    <3>3. QED BY <1>7, <3>1, <3>2
  <2>2. ASSUME NEW j \in set \cup {i} PROVE \E k \in 1..n + 1 : s[k] = WholeCall(j)
    <3>1. CASE j = i
      BY <1>2, <1>9, <3>1
    <3>2. CASE j \in set
      <4>1. WholeCall(j) \in {heardCalls[k] : k \in 1..n}
        BY <1>3, <3>2
      <4>2. PICK k \in 1..n : heardCalls[k] = WholeCall(j)
        BY <4>1
      <4>3. QED BY <1>2, <1>8, <4>2
    <3>3. QED BY <3>1, <3>2
  <2>3. QED BY <2>1, <2>2
<1>11. \A k, l \in 1..n + 1 : s[k] = s[l] => k = l
  BY <1>2, <1>3, <1>6, <1>7
<1>12. EachOnce(s, set \cup {i})
  BY <1>2, <1>10, <1>11 DEF EachOnce, WholeCall
<1>13. QED BY <1>1, <1>12

LEMMA OnceUpto ==
  ASSUME NEW n \in Nat
  PROVE  EachOnce(HeardUpto(n), 1..n)
<1>1. DOMAIN HeardUpto(n) = 1..n /\ \A k \in 1..n : HeardUpto(n)[k] = WholeCall(k)
  BY DEF HeardUpto, WholeCall
<1>2. \A j : WholeCall(j).call = j
  BY DEF WholeCall
<1>3. {HeardUpto(n)[k] : k \in 1..n} = {WholeCall(j) : j \in 1..n}
  BY <1>1
<1>4. \A k, l \in 1..n : HeardUpto(n)[k] = HeardUpto(n)[l] => k = l
  BY <1>1, <1>2
<1> HIDE DEF WholeCall
<1>5. QED BY <1>1, <1>3, <1>4 DEF EachOnce, WholeCall

\* The reader holds the whole of these calls and nothing else.
HoldsAll(h, set) ==
  \A slot \in 0..MaxCalls : h.pending[slot] = IF slot \in set THEN WholeCall(slot) ELSE NoTool

\* The reader after the stops: every call that was under way is collected.
LEMMA StopsHeard ==
  ASSUME ask.reader = "agent", MaxCalls \in Nat, Fragments \in Nat \ {0}, NEW b,
         NEW open, open = b.started \ b.stopped, open \subseteq Calls,
         NEW set, set \cap open = {}, NEW h \in HeardTypes, EachOnce(h.calls, set),
         HoldsAll(h, open),
         NEW g, g = HearAll(h, StopEvents(b))
  PROVE  g \in HeardTypes /\ EachOnce(g.calls, set \cup open) /\ HoldsAll(g, {})
<1>0. PICK n \in Nat : \E nth : Lists(nth, n, open) /\ StopEvents(b) = Stops(nth, n)
  BY StopsAre, Zenon
<1>1. PICK nth :
        /\ nth \in [1..n -> open] /\ StopEvents(b) = [k \in 1..n |-> Event("stop", nth[k])]
        /\ \A k, l \in 1..n : nth[k] = nth[l] => k = l
        /\ \A i \in open : \E k \in 1..n : nth[k] = i
  BY <1>0 DEF Lists, Stops
<1>2. PICK stops : stops = StopEvents(b)
  OBVIOUS
<1>3. Len(stops) = n /\ \A k \in 1..n : stops[k] = Event("stop", nth[k])
  BY <1>1, <1>2
<1>4. PICK f : Hearing(f, h, stops, n) /\ g = f[n]
  BY <1>2, <1>3, HearAllIs
<1> DEFINE Past(m) == {nth[k] : k \in 1..m}
           Upto(m) ==
             /\ f[m] \in HeardTypes /\ EachOnce(f[m].calls, set \cup Past(m))
             /\ \A slot \in 0..MaxCalls :
                  f[m].pending[slot] = IF slot \in open \ Past(m) THEN WholeCall(slot)
                                       ELSE NoTool
           T == {m \in 0..n : ~Upto(m)}
<1>5. Upto(0)
  <2>1. f[0] = h /\ Past(0) = {}
    BY <1>4 DEF Hearing
  <2>2. QED BY <2>1 DEF HoldsAll
<1>6. ASSUME NEW m \in 1..n, Upto(m - 1) PROVE Upto(m)
  <2>1. PICK i \in Calls : i = nth[m] /\ i \in open /\ i \in 0..MaxCalls /\ Slot(i) = i
    BY <1>1 DEF Calls, Slot
  <2>2. Past(m) = Past(m - 1) \cup {i} /\ i \notin Past(m - 1) /\ i \notin set
    <3>1. \A k : k \in 1..m <=> k \in 1..m - 1 \/ k = m
      OBVIOUS
    <3>2. \A k \in 1..m - 1 : k \in 1..n /\ k # m
      OBVIOUS
    <3>3. Past(m) = Past(m - 1) \cup {i}
      BY <2>1, <3>1
    <3>4. QED BY <1>1, <2>1, <3>2, <3>3
  <2>3. PICK past : past = Past(m - 1)
    OBVIOUS
  <2>4. PICK was : was = f[m - 1]
    OBVIOUS
  <2>5. /\ was \in HeardTypes /\ EachOnce(was.calls, set \cup past)
        /\ \A slot \in 0..MaxCalls :
             was.pending[slot] = IF slot \in open \ past THEN WholeCall(slot) ELSE NoTool
    BY <1>6, <2>3, <2>4
  <2>6. Past(m) = past \cup {i} /\ i \notin past
    BY <2>2, <2>3
  <2> HIDE DEF Past, Upto
  <2>7. Holds(was, i, Whole)
    BY <2>1, <2>5, <2>6, Zenon DEF Holds, WholeCall
  <2>8. PICK is : is = f[m]
    OBVIOUS
  <2>9. is = Hear(was, Event("stop", i))
    BY <1>3, <1>4, <2>1, <2>4, <2>8 DEF Hearing
  <2>10. PICK tool : tool = WholeCall(i) /\ tool = [call |-> i, input |-> Whole]
    BY DEF WholeCall
  <2>11. tool \in Tools
    <3>1. Whole \in Seq(Nat)
      <4>1. 1 <= Fragments + 1 /\ Fragments \in Nat
        OBVIOUS
      <4>2. QED BY <4>1, InputIs DEF Whole
    <3>2. QED BY <2>1, <2>10, <3>1 DEF WholeCall, Tools
  <2>12. /\ is \in HeardTypes /\ is.calls = Append(was.calls, tool)
         /\ is.pending = [was.pending EXCEPT ![Slot(i)] = NoTool]
    <3>1. /\ is \in HeardTypes
          /\ is.calls = Append(was.calls, [call |-> i, input |-> Whole])
          /\ is.pending = [was.pending EXCEPT ![Slot(i)] = NoTool]
      <4>1. was \in HeardTypes
        BY <2>5
      <4>2. QED BY <2>7, <2>9, <4>1, HearEnd, Zenon
    <3>2. QED BY <2>10, <3>1
  <2>13. EachOnce(is.calls, set \cup Past(m))
    <3>1. was.calls \in Seq(Tools) /\ i \notin set \cup past
      BY <2>2, <2>5, <2>6 DEF HeardTypes
    <3>2. PICK old, had : old = was.calls /\ had = set \cup past
      OBVIOUS
    <3>3. EachOnce(Append(old, tool), had \cup {i})
      BY <2>5, <2>10, <2>11, <3>1, <3>2, OnceMore
    <3>4. set \cup Past(m) = had \cup {i}
      BY <2>6, <3>2
    <3>5. QED BY <2>12, <3>2, <3>3, <3>4
  <2>14. ASSUME NEW slot \in 0..MaxCalls
         PROVE  is.pending[slot] = IF slot \in open \ Past(m) THEN WholeCall(slot) ELSE NoTool
    <3>1. is.pending[slot] = IF slot = i THEN NoTool ELSE was.pending[slot]
      BY <2>1, <2>5, <2>12 DEF HeardTypes
    <3>2. slot \in open \ Past(m) <=> slot # i /\ slot \in open \ past
      BY <2>6
    <3>3. QED BY <2>5, <3>1, <3>2, Zenon
  <2>15. QED BY <2>8, <2>12, <2>13, <2>14 DEF Upto
<1> HIDE DEF Upto
<1>7. T = {}
  <2>1. SUFFICES ASSUME T # {} PROVE FALSE
    OBVIOUS
  <2>2. PICK m \in T : \A k \in T : ~(k < m)
    <3> HIDE DEF T
    <3>1. T \subseteq Nat
      BY DEF T
    <3>2. QED BY <2>1, <3>1, HasLeast, Zenon
  <2>3. m \in 1..n /\ m - 1 \in 0..n /\ m - 1 < m
    BY <1>5, <2>2
  <2>4. QED BY <1>6, <2>2, <2>3
<1>8. Upto(n) /\ Past(n) = open
  BY <1>1, <1>7
<1>9. HoldsAll(g, {})
  BY <1>4, <1>8 DEF Upto, HoldsAll
<1>10. QED BY <1>4, <1>8, <1>9 DEF Upto

(* The steps of a stream.                                                  *)

\* Anthropic: the piece of a call is one of the call whose turn it is.
LEMMA CallInTurn ==
  ASSUME ApiTypes, StreamFits, ask.anthropic, NEW i \in Calls, SaysCall(i)
  PROVE  heard' \in HeardTypes /\ \E c \in 0..wire.calls : InTurn(c)'
<1>1. PICK c \in 0..wire.calls : InTurn(c)
  BY DEF StreamFits
<1>2. PICK k : k = wire.said[i] + 1
  OBVIOUS
<1>3. /\ MaxCalls \in Nat /\ Fragments \in Nat \ {0} /\ wire.calls \in 0..MaxCalls
      /\ wire.said \in [Calls -> 0..Fragments] /\ heard \in HeardTypes
  BY ApiAssumption DEF ApiTypes, Requests, Wires, Blocks, StreamFits
<1>4. /\ i <= wire.calls /\ k \in 1..Fragments /\ ask' = ask /\ wire' = [wire EXCEPT !.said[i] = k]
      /\ wire.text => wire.saidText
      /\ \A j \in 1..i - 1 : wire.said[j] = Fragments
  BY <1>2, <1>3 DEF SaysCall
<1>5. i = c + 1
  <2>1. \A j \in Calls : /\ j <= c => wire.said[j] = Fragments
                         /\ j = c + 1 => wire.said[j] < Fragments
    BY <1>1 DEF InTurn
  <2>2. i \in Nat /\ c \in Nat /\ ~(i <= c)
    BY <1>2, <1>3, <1>4, <2>1 DEF Calls
  <2>3. ASSUME i > c + 1 PROVE FALSE
    <3>1. PICK j : j = c + 1
      OBVIOUS
    <3>2. j \in Calls /\ j \in 1..i - 1
      BY <1>3, <2>2, <2>3, <3>1 DEF Calls
    <3>3. wire.said[j] = Fragments /\ wire.said[j] < Fragments
      <4>1. wire.said[j] = Fragments
        BY <1>4, <3>2
      <4>2. wire.said[j] < Fragments
        BY <2>1, <3>1, <3>2
      <4>3. QED BY <4>1, <4>2
    <3>4. QED BY <1>3, <3>3
  <2>4. QED BY <2>2, <2>3
<1>6. Slot(i) \in 0..MaxCalls /\ heard.pending \in [0..MaxCalls -> Tools]
  BY <1>3 DEF Slot, Calls, HeardTypes
<1>7. k # 1 => Holds(heard, i, Input(1, k - 1))
  <2>1. k # 1 => heard.pending[Slot(i)] = Part(i)
    BY <1>1, <1>2, <1>3, <1>5, <1>6 DEF InTurn
  <2>2. k - 1 = wire.said[i]
    BY <1>2, <1>3
  <2>3. QED BY <2>1, <2>2, Zenon DEF Part, Holds
<1>8. heard' = IF k = Fragments THEN Hear(Holding(heard, i, Whole), Event("stop", i))
               ELSE Holding(heard, i, Input(1, k))
  <2>1. heard' = HearAll(heard, (IF k = 1 THEN <<Event("start", i)>> ELSE <<>>)
                                  \o <<[Event("input", i) EXCEPT !.input = <<k>>]>>
                                  \o (IF k = Fragments THEN <<Event("stop", i)>> ELSE <<>>))
    BY <1>2, Zenon DEF SaysCall, Hears
  <2>2. QED BY <1>3, <1>4, <1>7, <2>1, CallHeard
<1>9. Input(1, k) \in Seq(Nat) /\ (k = Fragments => Input(1, k) = Whole)
  <2>1. k \in Nat /\ 1 <= k + 1
    BY <1>3, <1>4
  <2>2. Input(1, k) \in Seq(Nat)
    BY <2>1, InputIs
  <2>3. QED BY <2>2 DEF Whole
<1>10. /\ wire.said' = [wire.said EXCEPT ![i] = k] /\ wire.text' = wire.text
       /\ wire.saidText' = wire.saidText /\ wire.calls' = wire.calls
  BY <1>4 DEF ApiTypes, Requests, Wires, Blocks
<1>11. CASE k # Fragments
  <2>1. PICK input \in Seq(Nat) : input = Input(1, k)
    BY <1>9
  <2>2. heard' = Holding(heard, i, input)
    BY <1>8, <1>11, <2>1
  <2>3. /\ heard' \in HeardTypes /\ heard'.calls = heard.calls
        /\ heard'.pending = [heard.pending EXCEPT ![Slot(i)] = [call |-> i, input |-> input]]
    BY <1>3, <2>1, <2>2, HeldIs
  <2>4. Part(i)' = [call |-> i, input |-> input]
    BY <1>3, <1>10, <2>1 DEF Part
  <2>5. InTurn(c)'
    <3>1. \A j \in Calls : /\ j <= c => wire'.said[j] = Fragments
                           /\ j = c + 1 => wire'.said[j] < Fragments
                           /\ j > c + 1 => wire'.said[j] = 0
      BY <1>1, <1>3, <1>4, <1>5, <1>10, <1>11 DEF InTurn, Calls
    <3>2. wire'.text => wire'.saidText
      BY <1>4, <1>10
    <3>3. heard'.calls = HeardUpto(c)
      BY <1>1, <2>3 DEF InTurn
    <3>4. c + 1 \in Calls /\ wire'.said[c + 1] # 0 /\ Slot(c + 1)' = Slot(i) /\ Part(c + 1)' = Part(i)'
      BY <1>3, <1>4, <1>5, <1>10 DEF Slot
    <3>5. ASSUME NEW slot \in 0..MaxCalls
          PROVE  heard'.pending[slot] = IF slot = Slot(i) THEN Part(i)' ELSE NoTool
      <4>1. slot # Slot(i) => heard.pending[slot] = NoTool
        BY <1>1, <1>5 DEF InTurn
      <4>2. QED BY <1>6, <2>3, <2>4, <4>1
    <3>6. QED BY <3>1, <3>2, <3>3, <3>4, <3>5 DEF InTurn
  <2>6. QED BY <2>3, <2>5
<1>12. CASE k = Fragments
  <2>1. PICK g, input : g = Holding(heard, i, Whole) /\ input = Whole
    OBVIOUS
  <2>2. input \in Seq(Nat)
    BY <1>9, <1>12, <2>1
  <2>3. /\ g \in HeardTypes /\ g.calls = heard.calls /\ Holds(g, i, input)
        /\ g.pending = [heard.pending EXCEPT ![Slot(i)] = [call |-> i, input |-> input]]
    <3>1. g = Holding(heard, i, input)
      BY <2>1
    <3>2. QED BY <1>3, <2>2, <3>1, HeldIs
  <2>4. heard' = Hear(g, Event("stop", i)) /\ Holds(g, i, Whole)
    BY <1>8, <1>12, <2>1, <2>3
  <2>5. /\ heard' \in HeardTypes
        /\ heard'.calls = Append(heard.calls, [call |-> i, input |-> Whole])
        /\ heard'.pending = [g.pending EXCEPT ![Slot(i)] = NoTool]
    <3>1. PICK after : after = Hear(g, Event("stop", i))
      OBVIOUS
    <3>2. /\ after \in HeardTypes /\ after.calls = Append(g.calls, [call |-> i, input |-> Whole])
          /\ after.pending = [g.pending EXCEPT ![Slot(i)] = NoTool]
      <4>1. /\ MaxCalls \in Nat /\ Fragments \in Nat \ {0} /\ g \in HeardTypes /\ i \in Calls
            /\ Holds(g, i, Whole)
        BY <1>3, <2>3, <2>4
      <4>2. QED BY <3>1, <4>1, HearEnd
    <3>3. QED BY <2>3, <2>4, <3>1, <3>2
  <2>6. PICK d \in 1..wire.calls : d = c + 1 /\ d = i
    BY <1>4, <1>5
  <2>7. InTurn(d)'
    <3>1. \A j \in Calls : /\ j <= d => wire'.said[j] = Fragments
                           /\ j > d => wire'.said[j] = 0
      BY <1>1, <1>3, <1>4, <1>5, <1>10, <1>12, <2>6 DEF InTurn, Calls
    <3>2. wire'.text => wire'.saidText
      BY <1>4, <1>10
    <3>3. heard'.calls = HeardUpto(d)
      <4>1. d \in 0..MaxCalls /\ d > 0 /\ d - 1 = c
        BY <1>3, <2>6
      <4>2. HeardUpto(d) = Append(HeardUpto(d - 1), [call |-> d, input |-> Whole])
        BY <1>3, <4>1, HeardUptoIs
      <4>3. heard.calls = HeardUpto(c)
        BY <1>1 DEF InTurn
      <4>4. QED BY <2>5, <2>6, <4>1, <4>2, <4>3
    <3>4. d + 1 \in Calls => wire'.said[d + 1] = 0
      BY <1>3, <2>6, <3>1
    <3>5. ASSUME NEW slot \in 0..MaxCalls
          PROVE  heard'.pending[slot] = NoTool
      <4>1. slot # Slot(i) => heard.pending[slot] = NoTool
        BY <1>1, <1>5 DEF InTurn
      <4>2. slot # Slot(i) => g.pending[slot] = NoTool
        BY <1>6, <2>3, <4>1
      <4>3. g.pending \in [0..MaxCalls -> Tools]
        BY <2>3 DEF HeardTypes
      <4>4. QED BY <2>5, <4>2, <4>3
    <3>6. \A j \in Calls : j = d + 1 => wire'.said[j] < Fragments
      BY <1>3, <2>6, <3>4
    <3>7. \A j \in Calls : j > d + 1 => wire'.said[j] = 0
      BY <1>3, <2>6, <3>1 DEF Calls
    <3>8. QED BY <3>1, <3>2, <3>3, <3>4, <3>5, <3>6, <3>7 DEF InTurn
  <2>8. d \in 0..wire.calls
    OBVIOUS
  <2>9. QED BY <2>5, <2>7, <2>8
<1>13. QED BY <1>11, <1>12
\* The blocks and the reader after a piece of call i, when this is said of each call.
PieceFit(i, said, b, g) ==
  /\ g \in HeardTypes /\ g.calls = heard.calls
  /\ b.started = {j \in Calls : said[j] >= wire.nameAt} /\ b.named = b.started
  /\ \A j \in Calls : b.emitted[j] = IF j \in b.started THEN said[j] ELSE 0
  /\ b.stopped = blocks.stopped
  /\ b.stopped \subseteq {j \in b.started : said[j] = Fragments} \ {i}
  /\ \A slot \in 0..MaxCalls :
       g.pending[slot] = IF slot \in b.started \ b.stopped
                         THEN [call |-> slot, input |-> Input(1, said[slot])] ELSE NoTool

\* OpenAI: the piece of a call goes to the slot of its own.  What the blocks and the
\* reader are after it.
LEMMA CallInSlots ==
  ASSUME ApiTypes, StreamFits, ~ask.anthropic, ask.reader = "agent", NEW i \in Calls,
         NEW k, k = wire.said[i] + 1, k <= Fragments,
         NEW b, b = CallBlocks(blocks, i, k),
         NEW said, said = [wire.said EXCEPT ![i] = k],
         NEW g, g = HearAll(heard, CallEvents(blocks, i, k))
  PROVE  PieceFit(i, said, b, g)
<1>1. b \in Blocks /\ blocks \in Blocks
  <2>1. k \in 0..Fragments
    BY ApiAssumption DEF ApiTypes, Wires
  <2>2. QED BY <2>1 DEF ApiTypes, CallBlocks, Blocks
<1>2. /\ MaxCalls \in Nat /\ Fragments \in Nat \ {0} /\ wire.calls \in 0..MaxCalls
      /\ wire.said \in [Calls -> 0..Fragments] /\ heard \in HeardTypes
      /\ wire.nameAt \in 1..Fragments /\ InSlots /\ k \in 1..Fragments
      /\ blocks.emitted \in [Calls -> 0..Fragments]
      /\ heard.pending \in [0..MaxCalls -> Tools]
  BY ApiAssumption DEF ApiTypes, Requests, Wires, Blocks, StreamFits, HeardTypes
<1>3. i \in 0..MaxCalls /\ \A slot : Slot(slot) = slot
  BY <1>2 DEF Calls, Slot
<1>4. \A j \in Calls : said[j] = IF j = i THEN k ELSE wire.said[j]
  BY <1>2
<1>5. /\ blocks.started = {j \in Calls : wire.said[j] >= wire.nameAt}
      /\ blocks.named = blocks.started
      /\ blocks.stopped \subseteq {j \in blocks.started : wire.said[j] = Fragments}
      /\ \A j \in Calls : blocks.emitted[j] = IF j \in blocks.started THEN wire.said[j] ELSE 0
      /\ \A slot \in 0..MaxCalls :
           heard.pending[slot] = IF slot \in blocks.started \ blocks.stopped THEN Part(slot)
                                 ELSE NoTool
  BY <1>2 DEF InSlots
<1>6. i \notin blocks.stopped /\ \A j \in blocks.started : j \in Calls
  BY <1>2, <1>5
<1>7. \A j \in Calls : j # i => Part(j) = [call |-> j, input |-> Input(1, said[j])]
  BY <1>4 DEF Part
<1>8. Named(blocks, i, k) <=> k >= wire.nameAt
  BY <1>2, <1>5 DEF Named
<1>9. CASE k < wire.nameAt
  <2>1. ~Named(blocks, i, k) /\ i \notin blocks.started
    BY <1>2, <1>5, <1>8, <1>9
  <2>2. b = blocks /\ g = heard
    BY <2>1, HearNone DEF CallBlocks, CallEvents
  <2>3. \A j \in Calls : said[j] >= wire.nameAt <=> wire.said[j] >= wire.nameAt
    BY <1>2, <1>4, <1>9
  <2>4. blocks.started = {j \in Calls : said[j] >= wire.nameAt}
    BY <1>5, <2>3
  <2>5. \A j \in blocks.started : j # i /\ said[j] = wire.said[j]
    BY <1>4, <1>5, <2>1
  <2>6. blocks.stopped \subseteq {j \in blocks.started : said[j] = Fragments} \ {i}
    BY <1>5, <2>5
  <2>7. \A j \in Calls : blocks.emitted[j] = IF j \in blocks.started THEN said[j] ELSE 0
    BY <1>5, <2>5
  <2>8. \A slot \in 0..MaxCalls :
          heard.pending[slot] = IF slot \in blocks.started \ blocks.stopped
                                THEN [call |-> slot, input |-> Input(1, said[slot])] ELSE NoTool
    BY <1>5, <1>6, <1>7, <2>5
  <2>9. heard \in HeardTypes /\ blocks.named = blocks.started
    BY <1>2, <1>5
  <2>10. QED BY <2>2, <2>4, <2>6, <2>7, <2>8, <2>9, Zenon DEF PieceFit
<1>10. CASE k >= wire.nameAt
  <2>1. Named(blocks, i, k)
    BY <1>8, <1>10
  <2>2. PICK input : input = Input(1, k)
    OBVIOUS
  <2>3. input \in Seq(Nat)
    <3>1. k \in Nat /\ 1 <= k + 1
      BY <1>2
    <3>2. QED BY <2>2, <3>1, InputIs
  <2>4. g = Holding(heard, i, input)
    <3>1. PICK a, e : /\ a = Event("start", i)
                      /\ e = [Event("input", i) EXCEPT !.input = Input(blocks.emitted[i] + 1, k)]
      OBVIOUS
    <3>2. e.kind = "input" /\ e.index = i /\ e.input = Input(blocks.emitted[i] + 1, k)
      BY <3>1 DEF Event
    <3>3. g = HearAll(heard, (IF i \in blocks.started THEN <<>> ELSE <<a>>) \o <<e>>)
      BY <2>1, <3>1, Zenon DEF CallEvents
    <3>4. CASE i \in blocks.started
      <4>1. blocks.emitted[i] + 1 = k /\ k - 1 = wire.said[i] /\ Input(k, k) = <<k>>
        <5>1. blocks.emitted[i] + 1 = k /\ k - 1 = wire.said[i] /\ k - 1 \in Nat /\ k - 1 + 1 = k
          BY <1>2, <1>5, <3>4
        <5>2. QED BY <5>1, InputGrows
      <4>2. heard.pending[Slot(i)] = Part(i)
        BY <1>3, <1>5, <1>6, <3>4
      <4>3. Holds(heard, i, Input(1, k - 1))
        BY <4>1, <4>2, Zenon DEF Part, Holds
      <4>4. e.input = <<k>> /\ k \in Nat \ {0}
        BY <1>2, <3>2, <4>1
      <4>5. Hear(heard, e) = Holding(heard, i, input)
        BY <1>2, <2>2, <3>2, <4>3, <4>4, HearPiece
      <4>6. g = HearAll(heard, <<e>>)
        BY <3>3, <3>4, Concatenations
      <4>7. QED BY <4>5, <4>6, HearOne
    <3>5. CASE i \notin blocks.started
      <4>1. blocks.emitted[i] = 0 /\ e.input = Input(1, k) /\ k \in Nat \ {0}
        BY <1>2, <1>5, <3>2, <3>5
      <4>2. Hear(Hear(heard, Event("start", i)), e) = Holding(heard, i, Input(1, k))
        BY <1>2, <3>2, <4>1, HearFirst
      <4>3. <<a>> \o <<e>> = <<a, e>>
        BY Concatenations
      <4>4. g = HearAll(heard, <<a, e>>)
        BY <3>3, <3>5, <4>3
      <4>5. HearAll(heard, <<a, e>>) = Hear(Hear(heard, a), e)
        BY HearTwo
      <4>6. QED BY <2>2, <3>1, <4>2, <4>4, <4>5
    <3>6. QED BY <3>4, <3>5
  <2>5. /\ g \in HeardTypes /\ g.calls = heard.calls
        /\ g.pending = [heard.pending EXCEPT ![Slot(i)] = [call |-> i, input |-> input]]
    <3>1. g = Holding(heard, i, input) /\ heard \in HeardTypes /\ MaxCalls \in Nat
      BY <1>2, <2>4
    <3>2. QED BY <2>3, <3>1, HeldIs
  <2>6. /\ b.started = blocks.started \cup {i} /\ b.named = blocks.started \cup {i}
        /\ b.stopped = blocks.stopped /\ b.emitted = [blocks.emitted EXCEPT ![i] = k]
    <3>1. CallBlocks(blocks, i, k) = [blocks EXCEPT !.named = @ \cup {i}, !.started = @ \cup {i},
                                                    !.emitted[i] = k]
      BY <2>1 DEF CallBlocks
    <3>2. QED BY <1>1, <1>5, <3>1 DEF Blocks
  <2>7. \A j \in Calls : b.emitted[j] = IF j = i THEN k ELSE blocks.emitted[j]
    BY <1>2, <2>6
  <2>8. b.started = {j \in Calls : said[j] >= wire.nameAt}
    BY <1>4, <1>5, <1>10, <2>6
  <2>9. \A j \in Calls : b.emitted[j] = IF j \in b.started THEN said[j] ELSE 0
    BY <1>4, <1>5, <2>6, <2>7
  <2>10. b.stopped \subseteq {j \in b.started : said[j] = Fragments} \ {i}
    BY <1>4, <1>5, <1>6, <2>6
  <2>11. ASSUME NEW slot \in 0..MaxCalls
         PROVE  g.pending[slot] = IF slot \in b.started \ b.stopped
                                  THEN [call |-> slot, input |-> Input(1, said[slot])] ELSE NoTool
    <3>1. CASE slot = i
      <4>1. g.pending[slot] = [call |-> i, input |-> input]
        BY <1>2, <1>3, <2>5, <3>1
      <4>2. slot \in b.started \ b.stopped /\ said[slot] = k
        BY <1>4, <1>6, <2>6, <3>1
      <4>3. QED BY <2>2, <3>1, <4>1, <4>2
    <3>2. CASE slot # i
      <4>1. g.pending[slot] = heard.pending[slot]
        BY <1>2, <1>3, <2>5, <3>2
      <4>2. slot \in b.started \ b.stopped <=> slot \in blocks.started \ blocks.stopped
        BY <2>6, <3>2
      <4>3. slot \in blocks.started =>
              Part(slot) = [call |-> slot, input |-> Input(1, said[slot])]
        BY <1>6, <1>7, <3>2
      <4>4. QED BY <1>5, <4>1, <4>2, <4>3
    <3>3. QED BY <3>1, <3>2
  <2>12. b.named = b.started
    BY <2>6
  <2>13. QED BY <2>5, <2>6, <2>8, <2>9, <2>10, <2>11, <2>12, Zenon DEF PieceFit
<1>11. k < wire.nameAt \/ k >= wire.nameAt
  BY <1>2
<1>12. QED BY <1>9, <1>10, <1>11, Zenon

\* The piece of a call leaves it open.
LEMMA PieceInSlots ==
  ASSUME ApiTypes, StreamFits, ~ask.anthropic, ask.reader = "agent", NEW i \in Calls, SaysCall(i)
  PROVE  heard' \in HeardTypes /\ InSlots'
<1>1. PICK k : k = wire.said[i] + 1
  OBVIOUS
<1>2. PICK said : said = [wire.said EXCEPT ![i] = k]
  OBVIOUS
<1>3. PICK b : b = CallBlocks(blocks, i, k)
  OBVIOUS
<1>4. /\ k <= Fragments /\ wire' = [wire EXCEPT !.said[i] = k]
      /\ blocks' = [b EXCEPT !.opened = TRUE] /\ ask' = ask
      /\ heard' = HearAll(heard, CallEvents(blocks, i, k))
  BY <1>1, <1>3 DEF SaysCall, Hears
<1>5. wire'.said = said /\ wire'.nameAt = wire.nameAt
  BY <1>2, <1>4 DEF ApiTypes, Wires
<1>6. /\ blocks'.started = b.started /\ blocks'.named = b.named /\ blocks'.stopped = b.stopped
      /\ blocks'.emitted = b.emitted
  <2>1. k \in 0..Fragments
    BY <1>1, <1>4, ApiAssumption DEF ApiTypes, Wires
  <2>2. b \in Blocks
    BY <1>3, <2>1 DEF ApiTypes, CallBlocks, Blocks
  <2>3. QED BY <1>4, <2>2 DEF Blocks
<1>7. PICK g : g = heard'
  OBVIOUS
<1>8. g = HearAll(heard, CallEvents(blocks, i, k))
  BY <1>4, <1>7
<1>9. /\ g \in HeardTypes /\ g.calls = heard.calls
      /\ b.started = {j \in Calls : said[j] >= wire.nameAt} /\ b.named = b.started
      /\ \A j \in Calls : b.emitted[j] = IF j \in b.started THEN said[j] ELSE 0
      /\ b.stopped = blocks.stopped
      /\ b.stopped \subseteq {j \in b.started : said[j] = Fragments} \ {i}
      /\ \A slot \in 0..MaxCalls :
           g.pending[slot] = IF slot \in b.started \ b.stopped
                             THEN [call |-> slot, input |-> Input(1, said[slot])] ELSE NoTool
  <2>1. PieceFit(i, said, b, g)
    BY <1>1, <1>2, <1>3, <1>4, <1>8, CallInSlots, Zenon
  <2>2. QED BY <2>1 DEF PieceFit
<1>10. \A slot : Part(slot)' = [call |-> slot, input |-> Input(1, said[slot])]
  BY <1>5 DEF Part
<1>11. EachOnce(heard'.calls, blocks'.stopped)
  BY <1>6, <1>7, <1>9 DEF StreamFits, InSlots
<1>12. blocks'.stopped \subseteq {j \in blocks'.started : wire'.said[j] = Fragments}
  BY <1>5, <1>6, <1>9
<1>13. QED BY <1>5, <1>6, <1>7, <1>9, <1>10, <1>11, <1>12 DEF InSlots

\* The last piece of a call in the chunk of the finish stops it.
LEMMA LastInSlots ==
  ASSUME ApiTypes, StreamFits, ask.reader = "agent", NEW i \in Calls, SaysLast(i)
  PROVE  heard' \in HeardTypes /\ InSlots'
<1>1. PICK k : k = wire.said[i] + 1
  OBVIOUS
<1>2. PICK said : said = [wire.said EXCEPT ![i] = k]
  OBVIOUS
<1>3. PICK b : b = CallBlocks(blocks, i, k)
  OBVIOUS
<1>4. /\ MaxCalls \in Nat /\ Fragments \in Nat \ {0} /\ k = Fragments /\ ~ask.anthropic
      /\ i \in 0..MaxCalls /\ wire.nameAt \in 1..Fragments /\ heard \in HeardTypes
      /\ wire.said \in [Calls -> 0..Fragments] /\ blocks \in Blocks
  BY <1>1, ApiAssumption DEF SaysLast, ApiTypes, Wires, Calls, StreamFits
<1>5. /\ wire' = [wire EXCEPT !.said[i] = k] /\ ask' = ask
      /\ blocks' = [b EXCEPT !.opened = TRUE, !.stopped = @ \cup {i}]
      /\ heard' = HearAll(heard, CallEvents(blocks, i, k) \o <<Event("stop", i)>>)
  BY <1>3, <1>4 DEF SaysLast, Hears
<1>6. wire'.said = said /\ wire'.nameAt = wire.nameAt
  BY <1>2, <1>5 DEF ApiTypes, Wires
<1>7. /\ blocks'.started = b.started /\ blocks'.named = b.named
      /\ blocks'.stopped = b.stopped \cup {i} /\ blocks'.emitted = b.emitted
  <2>1. k \in 0..Fragments
    BY <1>4
  <2>2. b \in Blocks
    BY <1>3, <1>4, <2>1 DEF CallBlocks, Blocks
  <2>3. QED BY <1>5, <2>2 DEF Blocks
<1>8. PICK h : h = HearAll(heard, CallEvents(blocks, i, k))
  OBVIOUS
<1>9. /\ h \in HeardTypes /\ h.calls = heard.calls
      /\ b.started = {j \in Calls : said[j] >= wire.nameAt} /\ b.named = b.started
      /\ \A j \in Calls : b.emitted[j] = IF j \in b.started THEN said[j] ELSE 0
      /\ b.stopped = blocks.stopped
      /\ b.stopped \subseteq {j \in b.started : said[j] = Fragments} \ {i}
      /\ \A slot \in 0..MaxCalls :
           h.pending[slot] = IF slot \in b.started \ b.stopped
                             THEN [call |-> slot, input |-> Input(1, said[slot])] ELSE NoTool
  <2>1. k <= Fragments
    BY <1>4
  <2>2. PieceFit(i, said, b, h)
    BY <1>1, <1>2, <1>3, <1>4, <1>8, <2>1, CallInSlots, Zenon
  <2>3. QED BY <2>2 DEF PieceFit
<1>10. PICK g : g = heard'
  OBVIOUS
<1>11. g = Hear(h, Event("stop", i))
  <2>1. PICK events : events = CallEvents(blocks, i, k)
    OBVIOUS
  <2>2. blocks.emitted[i] \in Nat /\ k \in Nat
    BY <1>4 DEF Blocks
  <2>3. events \in Seq(Events)
    BY <1>4, <2>1, <2>2, CallsAreEvents
  <2>4. PICK e \in Events : e = Event("stop", i)
    BY <1>4, EventIs
  <2>5. <<e>> \in Seq(Events)
    OBVIOUS
  <2>6. HearAll(heard, events \o <<e>>) = HearAll(HearAll(heard, events), <<e>>)
    BY <2>3, <2>5, HearConcat
  <2>7. QED BY <1>5, <1>8, <1>10, <2>1, <2>4, <2>6, HearOne
<1>12. said[i] = Fragments /\ i \in b.started /\ i \notin b.stopped /\ Slot(i) = i
  <2>1. said[i] = Fragments
    BY <1>2, <1>4
  <2>2. QED BY <1>4, <1>9, <2>1 DEF Slot
<1>13. PICK tool : tool = WholeCall(i) /\ tool = [call |-> i, input |-> Whole]
  BY DEF WholeCall
<1>14. tool \in Tools
  <2>1. Whole \in Seq(Nat)
    <3>1. 1 <= Fragments + 1 /\ Fragments \in Nat
      BY <1>4
    <3>2. QED BY <3>1, InputIs DEF Whole
  <2>2. QED BY <1>4, <1>13, <2>1 DEF WholeCall, Tools
<1>15. Holds(h, i, Whole)
  BY <1>4, <1>9, <1>12 DEF Holds, Whole
<1>16. /\ g \in HeardTypes /\ g.calls = Append(h.calls, tool)
       /\ g.pending = [h.pending EXCEPT ![Slot(i)] = NoTool]
  <2>1. /\ g \in HeardTypes /\ g.calls = Append(h.calls, [call |-> i, input |-> Whole])
        /\ g.pending = [h.pending EXCEPT ![Slot(i)] = NoTool]
    <3>1. h \in HeardTypes /\ MaxCalls \in Nat /\ Fragments \in Nat \ {0}
      BY <1>4, <1>9
    <3>2. QED BY <1>11, <1>15, <3>1, HearEnd, Zenon
  <2>2. QED BY <1>13, <2>1
<1>17. EachOnce(g.calls, b.stopped \cup {i})
  <2>1. PICK old, set : old = h.calls /\ set = b.stopped
    OBVIOUS
  <2>2. old \in Seq(Tools) /\ EachOnce(old, set)
    <3>1. InSlots
      BY <1>4 DEF StreamFits
    <3>2. EachOnce(old, set)
      BY <1>9, <2>1, <3>1 DEF InSlots
    <3>3. QED BY <1>9, <2>1, <3>2 DEF HeardTypes
  <2>3. EachOnce(Append(old, tool), set \cup {i})
    BY <1>12, <1>13, <1>14, <2>1, <2>2, OnceMore
  <2>4. QED BY <1>16, <2>1, <2>3
<1>18. ASSUME NEW slot \in 0..MaxCalls
       PROVE  g.pending[slot] = IF slot \in b.started \ (b.stopped \cup {i})
                                THEN [call |-> slot, input |-> Input(1, said[slot])] ELSE NoTool
  <2>1. g.pending[slot] = IF slot = i THEN NoTool ELSE h.pending[slot]
    BY <1>4, <1>9, <1>12, <1>16 DEF HeardTypes
  <2>2. slot \in b.started \ (b.stopped \cup {i}) <=> slot # i /\ slot \in b.started \ b.stopped
    OBVIOUS
  <2>3. QED BY <1>9, <2>1, <2>2, Zenon
<1>19. \A slot : Part(slot)' = [call |-> slot, input |-> Input(1, said[slot])]
  BY <1>6 DEF Part
<1>20. blocks'.stopped \subseteq {j \in blocks'.started : wire'.said[j] = Fragments}
  BY <1>6, <1>7, <1>9, <1>12
<1>21. QED
  BY <1>6, <1>7, <1>9, <1>10, <1>16, <1>17, <1>18, <1>19, <1>20 DEF InSlots

\* A piece of text changes nothing of the calls.
LEMMA TextHeard ==
  ASSUME ApiTypes, StreamFits, ask.anthropic \/ ask.reader = "agent", SaysText
  PROVE  /\ heard' \in HeardTypes /\ heard'.calls = heard.calls
         /\ heard'.pending = heard.pending
<1>1. MaxCalls \in Nat /\ heard \in HeardTypes /\ wire.text /\ ~wire.saidText
  BY ApiAssumption DEF StreamFits, SaysText
<1>2. PICK g, t, z : g = Hear(heard, t) /\ t = Event("text", 0) /\ z = Event("stop", 0)
  OBVIOUS
<1>3. g \in HeardTypes /\ g.calls = heard.calls /\ g.pending = heard.pending
  BY <1>1, <1>2, HearRest
<1>4. heard' = HearAll(heard, <<t>> \o (IF ask.anthropic THEN <<z>> ELSE <<>>))
  BY <1>2, Zenon DEF SaysText, Hears
<1>5. CASE ask.anthropic
  <2>1. PICK c \in 0..wire.calls : InTurn(c)
    BY <1>5 DEF StreamFits
  <2>2. Slot(0) \in 0..MaxCalls /\ heard.pending[Slot(0)] = NoTool
    <3>1. Slot(0) \in 0..MaxCalls
      BY <1>1 DEF Slot
    <3>2. \A j \in Calls : wire.said[j] = 0
      BY <1>1, <2>1 DEF InTurn
    <3>3. c + 1 \in Calls => wire.said[c + 1] = 0
      BY <3>2
    <3>4. QED BY <2>1, <3>1, <3>3 DEF InTurn
  <2>3. Hear(g, z) = g
    <3>1. 0 \in 0..MaxCalls /\ g.pending[Slot(0)] = NoTool
      BY <1>1, <1>3, <2>2
    <3>2. QED BY <1>1, <1>2, <1>3, <3>1, HearStop
  <2>4. <<t>> \o <<z>> = <<t, z>>
    BY Concatenations
  <2>5. heard' = HearAll(heard, <<t, z>>)
    BY <1>4, <1>5, <2>4
  <2>6. HearAll(heard, <<t, z>>) = Hear(Hear(heard, t), z)
    BY HearTwo
  <2>7. QED BY <1>2, <1>3, <2>3, <2>5, <2>6
<1>6. CASE ~ask.anthropic
  <2>1. <<t>> \o <<>> = <<t>>
    BY Concatenations
  <2>2. heard' = HearAll(heard, <<t>>)
    BY <1>4, <1>6, <2>1
  <2>3. heard' = g
    BY <1>2, <2>2, HearOne
  <2>4. QED BY <1>3, <2>3
<1>7. QED BY <1>5, <1>6

\* When all has been said, the calls that are not stopped are all or none.
LEMMA AllOpen ==
  ASSUME ApiTypes, StreamFits, ~ask.anthropic, ask.reader = "agent", SaidAll
  PROVE  /\ blocks.started = 1..wire.calls /\ wire.calls \in 0..MaxCalls
         /\ \A slot \in blocks.started : Part(slot) = [call |-> slot, input |-> Whole]
<1>1. /\ MaxCalls \in Nat /\ Fragments \in Nat \ {0} /\ wire.calls \in 0..MaxCalls
      /\ wire.nameAt \in 1..Fragments /\ wire.said \in [Calls -> 0..Fragments] /\ InSlots
  BY ApiAssumption DEF ApiTypes, Requests, Wires, Blocks, StreamFits
<1>2. \A j \in Calls : wire.said[j] = IF j <= wire.calls THEN Fragments ELSE 0
  BY <1>1 DEF StreamFits, SaidAll, Calls
<1>3. blocks.started = {j \in Calls : wire.said[j] >= wire.nameAt}
  BY <1>1 DEF InSlots
<1>4. blocks.started = 1..wire.calls
  BY <1>1, <1>2, <1>3 DEF Calls
<1>5. \A slot \in blocks.started : wire.said[slot] = Fragments
  BY <1>1, <1>2, <1>4 DEF Calls
<1>6. QED BY <1>1, <1>4, <1>5 DEF Part, Whole

\* The stops of the calls that are not stopped collect every one.
LEMMA OpenHeard ==
  ASSUME ApiTypes, StreamFits, ~ask.anthropic, ask.reader = "agent", SaidAll,
         NEW h \in HeardTypes, h.calls = heard.calls, h.pending = heard.pending,
         NEW g, g = HearAll(h, StopEvents(blocks))
  PROVE  /\ g \in HeardTypes /\ EachOnce(g.calls, blocks.started)
         /\ \A slot \in 0..MaxCalls : g.pending[slot] = NoTool
<1>1. /\ MaxCalls \in Nat /\ Fragments \in Nat \ {0} /\ InSlots /\ blocks.started \subseteq Calls
  BY ApiAssumption DEF StreamFits, InSlots
<1>2. \A slot \in blocks.started : Part(slot) = WholeCall(slot)
  BY AllOpen DEF WholeCall
<1>3. PICK open, set : open = blocks.started \ blocks.stopped /\ set = blocks.stopped
  OBVIOUS
<1>4. /\ open \subseteq Calls /\ set \cap open = {} /\ set \cup open = blocks.started
      /\ EachOnce(h.calls, set)
  BY <1>1, <1>3 DEF InSlots
<1>5. HoldsAll(h, open)
  BY <1>1, <1>2, <1>3 DEF InSlots, HoldsAll
<1>6. PICK b : b = blocks
  OBVIOUS
<1>7. open = b.started \ b.stopped /\ g = HearAll(h, StopEvents(b))
  BY <1>3, <1>6
<1>8. /\ g \in HeardTypes /\ EachOnce(g.calls, set \cup open)
      /\ \A slot \in 0..MaxCalls : g.pending[slot] = NoTool
  <2>1. MaxCalls \in Nat /\ Fragments \in Nat \ {0}
    BY <1>1
  <2>2. open \subseteq Calls /\ set \cap open = {} /\ EachOnce(h.calls, set)
    BY <1>4
  <2>3. g \in HeardTypes /\ EachOnce(g.calls, set \cup open) /\ HoldsAll(g, {})
    BY <1>5, <1>7, <2>1, <2>2, StopsHeard
  <2>4. QED BY <2>3 DEF HoldsAll
<1>9. QED BY <1>4, <1>8
\* What StreamState and the reader make of the end of a stream that the provider
\* finished.
LEMMA EndHeard ==
  ASSUME ApiTypes, StreamFits, ask.anthropic \/ ask.reader = "agent", wire.finished, StreamEnds
  PROVE  /\ ask.anthropic => heard'.calls = HeardUpto(wire.calls)
         /\ ask.reader = "agent" => EachOnce(heard'.calls, 1..wire.calls)
<1>1. /\ MaxCalls \in Nat /\ Fragments \in Nat \ {0} /\ heard \in HeardTypes /\ SaidAll
      /\ wire.calls \in 0..MaxCalls /\ wire.said \in [Calls -> 0..Fragments]
  BY ApiAssumption DEF ApiTypes, Requests, Wires, Blocks, StreamFits
<1>2. heard' = IF ask.anthropic THEN heard ELSE HearAll(heard, Finish(blocks))
  BY DEF StreamEnds
<1>3. CASE ask.anthropic
  <2>1. PICK c \in 0..wire.calls : InTurn(c)
    BY <1>3 DEF StreamFits
  <2>2. c = wire.calls
    <3>1. SUFFICES ASSUME c # wire.calls PROVE FALSE
      OBVIOUS
    <3>2. PICK d : d = c + 1
      OBVIOUS
    <3>3. d \in Calls /\ d \in 1..wire.calls
      BY <1>1, <3>1, <3>2 DEF Calls
    <3>4. wire.said[d] < Fragments
      BY <2>1, <3>2, <3>3 DEF InTurn
    <3>5. wire.said[d] = Fragments
      BY <1>1, <3>3 DEF SaidAll
    <3>6. QED BY <1>1, <3>4, <3>5
  <2>3. heard'.calls = HeardUpto(wire.calls)
    BY <1>2, <1>3, <2>1, <2>2 DEF InTurn
  <2>4. EachOnce(HeardUpto(wire.calls), 1..wire.calls)
    BY <1>1, OnceUpto
  <2>5. QED BY <2>3, <2>4
<1>4. CASE ~ask.anthropic
  <2>1. PICK n \in 0..MaxCalls : n = wire.calls /\ blocks.started = 1..n
    BY <1>1, <1>4, AllOpen
  <2>2. InSlots /\ blocks.started \subseteq Calls
    BY <1>4 DEF StreamFits, InSlots
  <2> DEFINE S == Events
  <2>3. StopEvents(blocks) \in Seq(S)
    BY <1>1, <2>2, StopsAreEvents
  <2>4. PICK stop, end : stop = Event("stop", 0) /\ end = Event("end", 0)
    OBVIOUS
  <2>5. PICK first, last : /\ first = IF blocks.text THEN <<stop>> ELSE <<>>
                           /\ last = IF blocks.opened THEN <<end>> ELSE <<>>
    OBVIOUS
  <2>6. first \in Seq(S) /\ last \in Seq(S)
    <3>1. 0 \in 0..MaxCalls
      BY <1>1
    <3>2. stop \in S /\ end \in S
      BY <1>1, <2>4, <3>1, EventIs
    <3> HIDE DEF S
    <3>3. QED BY <2>5, <3>2
  <2> HIDE DEF S
  <2>7. PICK stops : stops = StopEvents(blocks)
    OBVIOUS
  <2>8. heard' = HearAll(heard, first \o stops \o last)
    BY <1>2, <1>4, <2>4, <2>5, <2>7, Zenon DEF Finish
  <2>9. PICK all : all = first \o stops
    OBVIOUS
  <2>10. all \in Seq(S)
    BY <2>3, <2>6, <2>7, <2>9, ConcatProperties
  <2>11. HearAll(heard, all) = HearAll(HearAll(heard, first), stops)
    BY <2>3, <2>6, <2>7, <2>9, HearConcat
  <2>12. heard' = HearAll(HearAll(heard, all), last)
    BY <2>6, <2>8, <2>9, <2>10, HearConcat
  <2>13. HearAll(heard, first) = heard
    <3>1. CASE blocks.text
      <4>1. first = <<stop>>
        BY <2>5, <3>1
      <4>2. Slot(0) = 0 /\ 0 \in 0..MaxCalls /\ 0 \notin blocks.started
        BY <1>1, <2>1 DEF Slot
      <4>3. heard.pending[Slot(0)] = NoTool
        BY <2>2, <4>2 DEF InSlots
      <4>4. Hear(heard, stop) = heard
        BY <1>1, <2>4, <4>2, <4>3, HearStop
      <4>5. QED BY <4>1, <4>4, HearOne
    <3>2. CASE ~blocks.text
      BY <2>5, <3>2, HearNone
    <3>3. QED BY <3>1, <3>2
  <2>14. PICK g : g = HearAll(heard, stops)
    OBVIOUS
  <2>15. g \in HeardTypes /\ EachOnce(g.calls, 1..wire.calls)
    BY <1>1, <1>4, <2>1, <2>7, <2>14, OpenHeard
  <2>16. HearAll(g, last) = IF blocks.opened THEN Hear(g, end) ELSE g
    BY <2>5, HearOne, HearNone
  <2>17. heard' = HearAll(g, last)
    BY <2>11, <2>12, <2>13, <2>14
  <2>18. Hear(g, end).calls = g.calls
    BY <2>4, <2>15, HearRest
  <2>19. QED BY <1>4, <2>15, <2>16, <2>17, <2>18
<1>5. QED BY <1>3, <1>4

\* The finish of the provider.
LEMMA FinishFits ==
  ASSUME ApiTypes, StreamFits, NEW toolCalls \in BOOLEAN, SaysFinish(toolCalls)
  PROVE  StreamFits'
<1>1. /\ ask' = ask /\ wire' = [wire EXCEPT !.finished = TRUE] /\ SaidAll /\ ~wire.finished
      /\ wire.text = wire.saidText
  BY DEF SaysFinish, InStream, SaidAll
<1>2. /\ wire'.calls = wire.calls /\ wire'.said = wire.said /\ wire'.text = wire.text
      /\ wire'.saidText = wire.saidText /\ wire'.nameAt = wire.nameAt /\ wire'.finished = TRUE
  BY <1>1 DEF ApiTypes, Requests, Wires, Blocks
<1>3. SaidAll' /\ \A i \in Calls : i > wire'.calls => wire'.said[i] = 0
  BY <1>1, <1>2 DEF SaidAll, StreamFits
<1>4. \A i : Part(i)' = Part(i) /\ Slot(i)' = Slot(i)
  BY <1>1, <1>2 DEF Part, Slot
<1>5. CASE ask.anthropic
  <2>1. heard \in HeardTypes /\ heard' = HearAll(heard, <<Event("end", 0)>>)
    BY <1>5 DEF StreamFits, SaysFinish, Hears
  <2>2. PICK g : g = Hear(heard, Event("end", 0))
    OBVIOUS
  <2>3. heard' = g
    BY <2>1, <2>2, HearOne
  <2>4. g \in HeardTypes /\ g.calls = heard.calls /\ g.pending = heard.pending
    BY <2>1, <2>2, HearRest
  <2>5. PICK c \in 0..wire.calls : InTurn(c)
    BY <1>5 DEF StreamFits
  <2>6. InTurn(c)'
    BY <1>2, <1>4, <2>3, <2>4, <2>5 DEF InTurn
  <2>7. QED BY <1>1, <1>2, <1>3, <1>5, <2>3, <2>4, <2>5, <2>6 DEF StreamFits
<1>6. CASE ~ask.anthropic /\ ask.reader = "agent"
  <2>1. InSlots /\ heard \in HeardTypes
    BY <1>1, <1>6 DEF StreamFits
  <2>2. blocks.stopped \subseteq blocks.started /\ \A i \in blocks.started : wire.said[i] = Fragments
    BY <1>1, <1>6, AllOpen, ApiAssumption DEF InSlots, StreamFits, SaidAll
  <2>3. CASE toolCalls
    <3>1. /\ heard' = HearAll(heard, StopEvents(blocks))
          /\ blocks' = [blocks EXCEPT !.opened = TRUE, !.stopped = @ \cup blocks.started]
      BY <1>6, <2>3 DEF SaysFinish, Hears
    <3>2. /\ blocks'.opened /\ blocks'.stopped = blocks.started /\ blocks'.started = blocks.started
          /\ blocks'.named = blocks.named /\ blocks'.emitted = blocks.emitted
      BY <2>2, <3>1 DEF ApiTypes, Requests, Wires, Blocks
    <3>3. PICK g : g = HearAll(heard, StopEvents(blocks))
      OBVIOUS
    <3>4. /\ g \in HeardTypes /\ EachOnce(g.calls, blocks.started)
          /\ \A slot \in 0..MaxCalls : g.pending[slot] = NoTool
      BY <1>1, <1>6, <2>1, <3>3, OpenHeard
    <3>6. InSlots'
      <4>1. blocks'.started = {i \in Calls : wire'.said[i] >= wire'.nameAt}
        BY <1>2, <2>1, <3>2 DEF InSlots
      <4>2. \A i \in Calls : blocks'.emitted[i] = IF i \in blocks'.started THEN wire'.said[i] ELSE 0
        BY <1>2, <2>1, <3>2 DEF InSlots
      <4>3. blocks'.named = blocks'.started
        BY <2>1, <3>2 DEF InSlots
      <4>4. /\ EachOnce(heard'.calls, blocks'.stopped)
            /\ blocks'.stopped \subseteq {i \in blocks'.started : wire'.said[i] = Fragments}
        BY <1>2, <2>2, <3>1, <3>2, <3>3, <3>4
      <4>5. \A slot \in 0..MaxCalls : heard'.pending[slot] = NoTool
        BY <3>1, <3>3, <3>4
      <4>6. \A slot : slot \notin blocks'.started \ blocks'.stopped
        BY <3>2
      <4>7. QED BY <1>2, <3>2, <4>1, <4>2, <4>3, <4>4, <4>5, <4>6 DEF InSlots
    <3>7. QED BY <1>1, <1>2, <1>3, <1>6, <3>1, <3>3, <3>4, <3>6 DEF StreamFits
  <2>4. CASE ~toolCalls
    <3>1. blocks' = [blocks EXCEPT !.opened = TRUE] /\ heard' = heard
      BY <1>6, <2>4 DEF SaysFinish
    <3>2. /\ blocks'.stopped = blocks.stopped /\ blocks'.started = blocks.started
          /\ blocks'.named = blocks.named /\ blocks'.emitted = blocks.emitted
      BY <2>1, <3>1 DEF ApiTypes, Requests, Wires, Blocks
    <3>3. blocks'.started = {i \in Calls : wire'.said[i] >= wire'.nameAt}
      BY <1>2, <2>1, <3>2 DEF InSlots
    <3>4. \A i \in Calls : blocks'.emitted[i] = IF i \in blocks'.started THEN wire'.said[i] ELSE 0
      BY <1>2, <2>1, <3>2 DEF InSlots
    <3>5. blocks'.named = blocks'.started /\ EachOnce(heard'.calls, blocks'.stopped)
      BY <2>1, <3>1, <3>2 DEF InSlots
    <3>6. blocks'.stopped \subseteq {i \in blocks'.started : wire'.said[i] = Fragments}
      BY <1>2, <2>2, <3>2
    <3>7. \A slot \in 0..MaxCalls :
            heard'.pending[slot] = IF slot \in blocks'.started \ blocks'.stopped THEN Part(slot)'
                                   ELSE NoTool
      BY <1>4, <2>1, <3>1, <3>2 DEF InSlots
    <3>8. InSlots'
      BY <3>3, <3>4, <3>5, <3>6, <3>7 DEF InSlots
    <3>9. QED BY <1>1, <1>2, <1>3, <1>6, <2>1, <3>1, <3>8 DEF StreamFits
  <2>5. QED BY <2>3, <2>4
<1>7. CASE ~ask.anthropic /\ ask.reader # "agent"
  BY <1>1, <1>2, <1>3, <1>7 DEF StreamFits
<1>8. QED BY <1>5, <1>6, <1>7

LEMMA TextFits ==
  ASSUME ApiTypes, StreamFits, SaysText
  PROVE  StreamFits'
<1>1. /\ ask' = ask /\ wire' = [wire EXCEPT !.saidText = TRUE] /\ ~wire.finished
      /\ blocks' = [blocks EXCEPT !.opened = TRUE, !.text = TRUE]
  BY DEF SaysText, InStream
<1>2. /\ wire'.calls = wire.calls /\ wire'.said = wire.said /\ wire'.saidText
      /\ wire'.nameAt = wire.nameAt /\ ~wire'.finished
      /\ blocks'.started = blocks.started /\ blocks'.named = blocks.named
      /\ blocks'.stopped = blocks.stopped /\ blocks'.emitted = blocks.emitted
  BY <1>1 DEF ApiTypes, Requests, Wires, Blocks
<1>3. \A i : Part(i)' = Part(i) /\ Slot(i)' = Slot(i)
  BY <1>1, <1>2 DEF Part, Slot
<1>4. ask.anthropic \/ ask.reader = "agent" =>
        /\ heard' \in HeardTypes /\ heard'.calls = heard.calls
        /\ heard'.pending = heard.pending
  BY TextHeard
<1>5. ASSUME ask.anthropic PROVE \E c \in 0..wire'.calls : InTurn(c)'
  <2>1. PICK c \in 0..wire.calls : InTurn(c)
    BY <1>5 DEF StreamFits
  <2>2. InTurn(c)'
    BY <1>2, <1>3, <1>4, <1>5, <2>1 DEF InTurn
  <2>3. QED BY <1>2, <2>2
<1>6. ASSUME ~ask.anthropic, ask.reader = "agent" PROVE InSlots'
  <2>1. InSlots
    BY <1>6 DEF StreamFits
  <2>2. blocks'.started = {i \in Calls : wire'.said[i] >= wire'.nameAt}
    BY <1>2, <2>1 DEF InSlots
  <2>3. \A i \in Calls : blocks'.emitted[i] = IF i \in blocks'.started THEN wire'.said[i] ELSE 0
    BY <1>2, <2>1 DEF InSlots
  <2>4. /\ blocks'.named = blocks'.started /\ EachOnce(heard'.calls, blocks'.stopped)
        /\ blocks'.stopped \subseteq {i \in blocks'.started : wire'.said[i] = Fragments}
    BY <1>2, <1>4, <1>6, <2>1 DEF InSlots
  <2>5. \A slot \in 0..MaxCalls :
          heard'.pending[slot] = IF slot \in blocks'.started \ blocks'.stopped THEN Part(slot)'
                                 ELSE NoTool
    BY <1>2, <1>3, <1>4, <1>6, <2>1 DEF InSlots
  <2>6. QED BY <1>2, <2>2, <2>3, <2>4, <2>5 DEF InSlots
<1>7. QED BY <1>1, <1>2, <1>4, <1>5, <1>6 DEF StreamFits

LEMMA PieceFits ==
  ASSUME ApiTypes, StreamFits, NEW i \in Calls, SaysCall(i) \/ SaysLast(i)
  PROVE  StreamFits'
<1>1. ask' = ask /\ ~wire.finished /\ i <= wire.calls
  BY DEF SaysCall, SaysLast, InStream
<1>2. PICK k : wire' = [wire EXCEPT !.said[i] = k]
  BY DEF SaysCall, SaysLast
<1>3. /\ wire'.calls = wire.calls /\ wire'.finished = FALSE
      /\ \A j \in Calls : j # i => wire'.said[j] = wire.said[j]
  BY <1>1, <1>2 DEF ApiTypes, Requests, Wires, Blocks
<1>4. \A j \in Calls : j > wire'.calls => wire'.said[j] = 0
  <2>1. \A j \in Calls : j > wire.calls => j # i
    BY <1>1, ApiAssumption DEF ApiTypes, Requests, Wires, Blocks, Calls
  <2>2. QED BY <1>3, <2>1 DEF StreamFits
<1>5. ask.anthropic => heard' \in HeardTypes /\ \E c \in 0..wire'.calls : InTurn(c)'
  BY <1>3, CallInTurn DEF SaysLast
<1>6. ~ask.anthropic /\ ask.reader = "agent" => heard' \in HeardTypes /\ InSlots'
  BY PieceInSlots, LastInSlots
<1>7. QED BY <1>1, <1>3, <1>4, <1>5, <1>6 DEF StreamFits

\* A stream begins with nothing said and nothing heard.
LEMMA ReplyFits ==
  ASSUME ApiTypes, NEW calls \in 0..MaxCalls, NEW text \in BOOLEAN, NEW nameAt \in 1..Fragments,
         Replied(calls, text, nameAt)
  PROVE  StreamFits'
<1>1. /\ wire' = [Silence EXCEPT !.calls = calls, !.text = text, !.nameAt = nameAt]
      /\ blocks' = NoBlocks /\ heard' = Unheard /\ MaxCalls \in Nat /\ Fragments \in Nat \ {0}
  BY ApiAssumption DEF Replied
<1>2. /\ wire'.calls = calls /\ wire'.finished = FALSE /\ \A i \in Calls : wire'.said[i] = 0
      /\ wire'.nameAt = nameAt
  BY <1>1 DEF Silence
<1>3. /\ blocks'.started = {} /\ blocks'.named = {} /\ blocks'.stopped = {}
      /\ \A i \in Calls : blocks'.emitted[i] = 0
  BY <1>1 DEF NoBlocks
<1>4. /\ heard' \in HeardTypes /\ heard'.calls = <<>>
      /\ \A slot \in 0..MaxCalls : heard'.pending[slot] = NoTool
  <2>1. NoTool \in Tools
    BY <1>1 DEF NoTool, Tools
  <2> HIDE DEF NoTool
  <2>2. [i \in 0..MaxCalls |-> NoTool] \in [0..MaxCalls -> Tools] /\ <<>> \in Seq(Tools)
    BY <2>1
  <2>3. QED BY <1>1, <2>2 DEF Unheard, HeardTypes
<1>5. InTurn(0)'
  <2>1. HeardUpto(0) = <<>>
    BY DEF HeardUpto
  <2>2. \A i \in Calls : ~(i <= 0) /\ wire'.said[i] < Fragments
    BY <1>1, <1>2 DEF Calls
  <2>3. 0 + 1 \in Calls => wire'.said[0 + 1] = 0
    BY <1>2
  <2>4. QED BY <1>2, <1>4, <2>1, <2>2, <2>3 DEF InTurn
<1>6. InSlots'
  <2>1. {i \in Calls : wire'.said[i] >= wire'.nameAt} = {}
    BY <1>1, <1>2
  <2>2. EachOnce(heard'.calls, blocks'.stopped)
    BY <1>3, <1>4, OnceNone
  <2>3. QED BY <1>2, <1>3, <1>4, <2>1, <2>2 DEF InSlots
<1>7. 0 \in 0..wire'.calls
  BY <1>1, <1>2
<1>8. QED BY <1>2, <1>4, <1>5, <1>6, <1>7 DEF StreamFits
(* The request.                                                            *)

LEMMA SilenceIs == Silence \in Wires
<1>1. MaxCalls \in Nat /\ Fragments \in Nat \ {0}
  BY ApiAssumption
<1>2. [i \in Calls |-> 0] \in [Calls -> 0..Fragments]
  BY <1>1
<1>3. QED BY <1>1, <1>2 DEF Silence, Wires

LEMMA ApiStarts == ApiInit => ApiInv
<1> SUFFICES ASSUME ApiInit PROVE ApiInv
  OBVIOUS
<1>1. MaxCalls \in Nat /\ Fragments \in Nat \ {0} /\ MaxProviders \in Nat \ {0}
  BY ApiAssumption
<1>2. ask.pc = "send"
  BY DEF ApiInit
<1>3. ApiTypes
  <2>1. ask \in Requests
    <3>2. ask \in [reader : {"cli", "agent"}, anthropic : BOOLEAN, postTool : BOOLEAN,
                     chain : 1..MaxProviders, provider : {1}, attempts : {0}, nudges : {0},
                     mode : {"stream"}, pc : {"send"}, cut : {FALSE}]
      BY DEF ApiInit
    <3>3. /\ {1} \subseteq Nat /\ {0} \subseteq Nat /\ {FALSE} \subseteq BOOLEAN
          /\ {"stream"} \subseteq {"stream", "single"}
          /\ {"send"} \subseteq {"send", "stream", "result", "error"}
      OBVIOUS
    <3>4. QED BY <3>2, <3>3 DEF Requests
  <2>2. wire = Silence /\ blocks = NoBlocks
    BY DEF ApiInit
  <2>3. Silence \in Wires
    BY SilenceIs
  <2>4. NoBlocks \in Blocks
    BY <1>1 DEF NoBlocks, Blocks
  <2>5. QED BY <2>1, <2>2, <2>3, <2>4 DEF ApiTypes
<1>4. QED BY <1>2, <1>3 DEF ApiInv, EveryCallIsHeard, Delivered

\* A request that fails is over, or is one of the next provider.
LEMMA FailsRequest ==
  ASSUME NEW retryable, NEW c \in Requests, RequestFails(c, retryable)
  PROVE  ask' \in Requests /\ ask'.pc \in {"send", "error"}
<1>1. CASE retryable /\ c.reader = "agent" /\ c.provider < c.chain
  <2>1. ask' = [c EXCEPT !.provider = @ + 1, !.attempts = 0, !.mode = "stream", !.pc = "send"]
    BY <1>1 DEF RequestFails
  <2>2. PICK n \in Nat : n = c.provider + 1
    BY DEF Requests
  <2>3. ask' = [c EXCEPT !.provider = n, !.attempts = 0, !.mode = "stream", !.pc = "send"]
    BY <2>1, <2>2
  <2>4. QED BY <2>3 DEF Requests
<1>2. CASE ~(retryable /\ c.reader = "agent" /\ c.provider < c.chain)
  <2>1. ask' = [c EXCEPT !.pc = "error"]
    BY <1>2 DEF RequestFails
  <2>2. QED BY <2>1 DEF Requests
<1>3. QED BY <1>1, <1>2

LEMMA ApiStep == ApiInv /\ [ApiNext]_apiVars => ApiInv'
<1> SUFFICES ASSUME ApiInv, [ApiNext]_apiVars PROVE ApiInv'
  OBVIOUS
<1> USE DEF ApiInv
<1>1. MaxCalls \in Nat /\ Fragments \in Nat \ {0} /\ ApiTypes
  BY ApiAssumption
\* A step of a stream.
<1>2. ASSUME ask.pc = "stream", ask' = ask, ApiTypes', StreamFits' PROVE ApiInv'
  BY <1>2 DEF EveryCallIsHeard, Delivered
\* A step after which the request is not in a stream, nor answered.
<1>3. ASSUME ApiTypes', ask'.pc \in {"send", "error"} PROVE ApiInv'
  BY <1>3 DEF EveryCallIsHeard, Delivered
<1>4. CASE UNCHANGED apiVars
  <2>1. ask' = ask /\ wire' = wire /\ blocks' = blocks /\ heard' = heard
    BY <1>4 DEF apiVars
  <2>2. ApiTypes' /\ (EveryCallIsHeard <=> EveryCallIsHeard')
    BY <2>1 DEF ApiTypes, EveryCallIsHeard, Delivered
  <2>3. \A i : Part(i)' = Part(i) /\ Slot(i)' = Slot(i)
    BY <2>1 DEF Part, Slot
  <2>4. \A c : InTurn(c) => InTurn(c)'
    BY <2>1, <2>3 DEF InTurn
  <2>5. InSlots => InSlots'
    BY <2>1, <2>3 DEF InSlots
  <2>6. StreamFits => StreamFits'
    BY <2>1, <2>4, <2>5 DEF StreamFits, SaidAll
  <2>7. QED BY <2>1, <2>2, <2>6
<1>5. ASSUME NEW calls \in 0..MaxCalls, NEW text \in BOOLEAN, NEW nameAt \in 1..Fragments,
             Replied(calls, text, nameAt)
      PROVE  ApiInv'
  <2>1. ask'.pc = "stream" /\ ask' \in Requests
    BY <1>5 DEF ApiTypes, Replied, Sent, Streaming, Requests
  <2>2. ApiTypes'
    <3>1. wire' = [Silence EXCEPT !.calls = calls, !.text = text, !.nameAt = nameAt]
      BY <1>5 DEF Replied
    <3>2. wire' \in Wires
      BY <1>1, <3>1, SilenceIs DEF Wires
    <3>3. blocks' = NoBlocks
      BY <1>5 DEF Replied
    <3>4. blocks' \in Blocks
      BY <1>1, <3>3 DEF NoBlocks, Blocks
    <3>5. QED BY <2>1, <3>2, <3>4 DEF ApiTypes
  <2>3. StreamFits'
    BY <1>1, <1>5, ReplyFits
  <2>4. QED BY <2>1, <2>2, <2>3 DEF EveryCallIsHeard, Delivered
<1>6. ASSUME NEW calls \in 0..MaxCalls, RepliedWhole(calls) PROVE ApiInv'
  <2>1. /\ ask' = [Sent EXCEPT !.pc = "result"] /\ wire' = [Silence EXCEPT !.calls = calls]
        /\ heard' = [Unheard EXCEPT !.calls = [i \in 1..calls |-> [call |-> i, input |-> Whole]],
                                    !.stop = TRUE]
        /\ blocks' = blocks
    BY <1>6 DEF RepliedWhole
  <2>2. ask'.pc = "result" /\ ask' \in Requests
    <3>1. PICK c \in Requests : c = Sent
      <4>1. PICK n \in Nat : n = ask.attempts + 1
        BY <1>1 DEF ApiTypes, Requests
      <4>2. Sent = [ask EXCEPT !.attempts = n] /\ ask \in Requests
        BY <1>1, <4>1 DEF ApiTypes, Sent
      <4>3. [ask EXCEPT !.attempts = n] \in Requests
        BY <4>2 DEF Requests
      <4>4. QED BY <4>2, <4>3
    <3>2. ask' = [c EXCEPT !.pc = "result"]
      BY <2>1, <3>1
    <3>3. QED BY <3>2 DEF Requests
  <2>3. wire' \in Wires
    BY <1>1, <2>1, SilenceIs DEF Wires
  <2>4. wire'.calls = calls
    BY <2>1 DEF Silence
  <2>5. heard'.calls = [i \in 1..calls |-> [call |-> i, input |-> Whole]]
    BY <2>1 DEF Unheard
  <2>6. heard'.calls = HeardUpto(wire'.calls) /\ EachOnce(HeardUpto(calls), 1..calls)
    BY <1>1, <2>4, <2>5, OnceUpto DEF HeardUpto
  <2>7. EveryCallIsHeard'
    BY <2>4, <2>6 DEF EveryCallIsHeard
  <2>8. QED BY <1>1, <2>1, <2>2, <2>3, <2>7 DEF ApiTypes
<1>7. ASSUME NEW retryable \in BOOLEAN, RequestRefused(retryable) PROVE ApiInv'
  <2>1. wire' = wire /\ blocks' = blocks /\ Sent \in Requests
    BY <1>1, <1>7 DEF RequestRefused, ApiTypes, Sent, Requests
  <2>2. CASE ask' = Sent
    <3>1. ask'.pc = "send"
      BY <1>1, <1>7, <2>2 DEF RequestRefused, ApiTypes, Sent, Requests
    <3>2. QED BY <1>1, <1>3, <2>1, <2>2, <3>1 DEF ApiTypes
  <2>3. CASE RequestFails(Sent, retryable)
    <3>1. PICK c \in Requests : c = Sent /\ RequestFails(c, retryable)
      BY <2>1, <2>3
    <3>2. ask' \in Requests /\ ask'.pc \in {"send", "error"}
      BY <3>1, FailsRequest
    <3>3. QED BY <1>1, <1>3, <2>1, <3>2 DEF ApiTypes
  <2>4. QED BY <1>7, <2>2, <2>3 DEF RequestRefused
<1>8. ASSUME NEW retryable \in BOOLEAN, Breaks(retryable) PROVE ApiInv'
  <2>1. wire' = wire /\ blocks' = blocks /\ [ask EXCEPT !.attempts = 0] \in Requests
    BY <1>1, <1>8 DEF Breaks, ApiTypes, Requests
  <2>2. PICK c \in Requests : c = [ask EXCEPT !.attempts = 0] /\ RequestFails(c, retryable)
    BY <1>8, <2>1 DEF Breaks
  <2>3. ask' \in Requests /\ ask'.pc \in {"send", "error"}
    BY <2>2, FailsRequest
  <2>4. QED BY <1>1, <1>3, <2>1, <2>3 DEF ApiTypes
<1>9. CASE SaysText
  <2>1. /\ ask.pc = "stream" /\ ask' = ask /\ wire' = [wire EXCEPT !.saidText = TRUE]
        /\ blocks' = [blocks EXCEPT !.opened = TRUE, !.text = TRUE]
    BY <1>9 DEF SaysText, InStream
  <2>2. ApiTypes'
    BY <1>1, <2>1 DEF ApiTypes, Wires, Blocks
  <2>3. StreamFits'
    BY <1>1, <1>9, <2>1, TextFits
  <2>4. QED BY <1>2, <2>1, <2>2, <2>3
<1>10. CASE StreamEnds
  <2>1. ask.pc = "stream" /\ wire' = wire /\ blocks' = blocks
    BY <1>10 DEF StreamEnds
  <2>2. \/ ask' = [ask EXCEPT !.pc = "result", !.cut = ~wire.finished]
        \/ ask' = [ask EXCEPT !.pc = "send", !.mode = "single"]
    BY <1>10 DEF StreamEnds
  <2>3. CASE ask' = [ask EXCEPT !.pc = "result", !.cut = ~wire.finished]
    <3>1. /\ ask' \in Requests /\ ask'.pc = "result" /\ (~ask'.cut => wire.finished)
          /\ ask'.anthropic = ask.anthropic /\ ask'.reader = ask.reader
      BY <1>1, <2>3 DEF ApiTypes, Requests
    <3>2. EveryCallIsHeard'
      <4>1. SUFFICES ASSUME wire.finished
                     PROVE  /\ ask.anthropic => heard'.calls = HeardUpto(wire.calls)
                            /\ ask.reader = "agent" => EachOnce(heard'.calls, 1..wire.calls)
        BY <2>1, <3>1 DEF Delivered, EveryCallIsHeard
      <4>2. QED BY <1>1, <1>10, <2>1, <4>1, EndHeard
    <3>3. QED BY <1>1, <2>1, <3>1, <3>2 DEF ApiTypes
  <2>4. CASE ask' = [ask EXCEPT !.pc = "send", !.mode = "single"]
    <3>1. ask' \in Requests /\ ask'.pc = "send"
      BY <1>1, <2>4 DEF ApiTypes, Requests
    <3>2. QED BY <1>1, <1>3, <2>1, <3>1 DEF ApiTypes
  <2>5. QED BY <2>2, <2>3, <2>4
<1>11. CASE Stalls
  <2>1. wire' = wire /\ blocks' = blocks /\ ask' = [ask EXCEPT !.nudges = 1, !.pc = "send"]
    BY <1>11 DEF Stalls
  <2>2. ask' \in Requests /\ ask'.pc = "send"
    BY <1>1, <2>1 DEF ApiTypes, Requests
  <2>3. QED BY <1>1, <1>3, <2>1, <2>2 DEF ApiTypes
<1>12. ASSUME NEW i \in Calls, SaysCall(i) \/ SaysLast(i) PROVE ApiInv'
  <2>1. PICK k : k = wire.said[i] + 1
    OBVIOUS
  <2>2. /\ ask.pc = "stream" /\ ask' = ask /\ wire' = [wire EXCEPT !.said[i] = k] /\ k <= Fragments
        /\ \/ blocks' = blocks
           \/ blocks' = [CallBlocks(blocks, i, k) EXCEPT !.opened = TRUE]
           \/ blocks' = [CallBlocks(blocks, i, k) EXCEPT !.opened = TRUE, !.stopped = @ \cup {i}]
    <3>1. CASE SaysCall(i)
      BY <2>1, <3>1 DEF SaysCall, InStream
    <3>2. CASE SaysLast(i)
      <4>1. k = Fragments
        BY <1>1, <2>1, <3>2 DEF SaysLast
      <4>2. QED BY <1>1, <3>2, <4>1 DEF SaysLast, InStream
    <3>3. QED BY <1>12, <3>1, <3>2
  <2>3. k \in 0..Fragments
    BY <1>1, <2>1, <2>2 DEF ApiTypes, Wires
  <2>4. wire' \in Wires
    BY <1>1, <2>2, <2>3 DEF ApiTypes, Wires
  <2>5. ASSUME NEW b \in Blocks
        PROVE  /\ [CallBlocks(b, i, k) EXCEPT !.opened = TRUE] \in Blocks
               /\ [CallBlocks(b, i, k) EXCEPT !.opened = TRUE, !.stopped = @ \cup {i}] \in Blocks
    BY <2>3 DEF CallBlocks, Blocks
  <2>6. ApiTypes'
    BY <1>1, <2>2, <2>4, <2>5 DEF ApiTypes
  <2>7. StreamFits'
    BY <1>1, <1>12, <2>2, PieceFits
  <2>8. QED BY <1>2, <2>2, <2>6, <2>7
<1>13. ASSUME NEW toolCalls \in BOOLEAN, SaysFinish(toolCalls) PROVE ApiInv'
  <2>1. /\ ask.pc = "stream" /\ ask' = ask /\ wire' = [wire EXCEPT !.finished = TRUE]
        /\ \/ blocks' = blocks
           \/ blocks' = [blocks EXCEPT !.opened = TRUE, !.stopped = @ \cup blocks.started]
           \/ blocks' = [blocks EXCEPT !.opened = TRUE]
    BY <1>13 DEF SaysFinish, InStream
  <2>2. ApiTypes'
    BY <1>1, <2>1 DEF ApiTypes, Wires, Blocks
  <2>3. StreamFits'
    BY <1>1, <1>13, <2>1, FinishFits
  <2>4. QED BY <1>2, <2>1, <2>2, <2>3
<1>14. QED BY <1>4, <1>5, <1>6, <1>7, <1>8, <1>9, <1>10, <1>11, <1>12, <1>13 DEF ApiNext

\* Every tool call of a stream that its provider ended is heard, once and whole,
\* by a sub-agent from either kind of provider; from Anthropic by the CLI as well,
\* and by both in the order of the calls (EveryCallIsHeard).
THEOREM CallsAreHeard == ApiSpec => []EveryCallIsHeard
<1>1. ApiInv => EveryCallIsHeard
  BY DEF ApiInv
<1>2. QED BY <1>1, ApiStarts, ApiStep, PTL DEF ApiSpec

(***************************************************************************)
(* The types, beyond what the invariants say                               *)
(***************************************************************************)
ToolTypes == ToolInv /\ aborted \in BOOLEAN
LEMMA ToolTypesHold ==
  /\ ToolInit => ToolTypes
  /\ ToolTypes /\ [ToolNext]_toolVars => ToolTypes'
  /\ ToolTypes => ToolTypeOK
<1>1. ToolInit => ToolTypes
  BY ToolInitInv DEF ToolInit, ToolTypes
<1>2. ToolTypes /\ [ToolNext]_toolVars => aborted' \in BOOLEAN
  BY DEF ToolTypes, ToolNext, toolVars, CtrlC, PreDone, PostDone, PreHook, PostHook, Decide, Execute
<1>3. ToolTypes => ToolTypeOK
  BY DEF ToolTypes, ToolInv, ToolCalls, ToolTypeOK
<1>4. QED BY <1>1, <1>2, <1>3, ToolNextInv DEF ToolTypes

\* The user chooses a mode or none, and so does the Config tool.
Chooses(c) == op[c].kind = "config" => op[c].value \in LocalModes \cup {Plan}
PlanTypes ==
  PlanInv /\ chosen \in LocalModes \cup {Plan, Unset} /\ \A c \in Claws : Chooses(c)
LEMMA PlanTypesHold ==
  /\ PlanInit => PlanTypes
  /\ PlanTypes /\ [PlanNext]_planVars => PlanTypes'
  /\ PlanTypes => PlanTypeOK
<1>1. PlanInit => PlanTypes
  BY PlanInitInv DEF PlanInit, PlanTypes, Chooses, NoOp
<1>2. ASSUME PlanTypes, [PlanNext]_planVars PROVE PlanTypes'
  <2>1. PlanInv' /\ op \in [Claws -> Ops]
    BY <1>2, PlanNextInv DEF PlanTypes, PlanInv, PlanTyped
  <2>2. SUFFICES chosen' \in LocalModes \cup {Plan, Unset} /\ \A c \in Claws : Chooses(c)'
    BY <2>1 DEF PlanTypes
  <2>3. ASSUME NEW c \in Claws, NEW o, op' = [op EXCEPT ![c] = o],
               o.kind = "config" => o.value \in LocalModes \cup {Plan}
        PROVE  \A d \in Claws : Chooses(d)'
    BY <1>2, <2>1, <2>3 DEF PlanTypes, Chooses
  <2>4. ASSUME NEW c \in Claws, NEW kind \in {"enter", "exit"}, Start(c, kind, Unset)
        PROVE  chosen' = chosen /\ \A d \in Claws : Chooses(d)'
    BY <2>3, <2>4 DEF Start
  <2>5. ASSUME NEW c \in Claws, NEW mode \in LocalModes \cup {Plan}, Start(c, "config", mode)
        PROVE  chosen' = chosen /\ \A d \in Claws : Chooses(d)'
    BY <2>3, <2>5 DEF Start
  <2>6. ASSUME NEW c \in Claws, Done(c) PROVE \A d \in Claws : Chooses(d)'
    BY <2>3, <2>6 DEF Done, NoOp
  <2>7. ASSUME NEW c \in Claws, NEW at, Goes(c, at) PROVE \A d \in Claws : Chooses(d)'
    BY <1>2, <2>1, <2>7 DEF Goes, PlanTypes, Chooses, Ops
  <2>8. ASSUME NEW c \in Claws, NEW value, op[c].kind # "config",
               op' = [op EXCEPT ![c].pc = "write", ![c].value = value]
        PROVE  \A d \in Claws : Chooses(d)'
    BY <1>2, <2>1, <2>8 DEF PlanTypes, Chooses, Ops
  <2>9. ASSUME NEW c \in Claws, LooksToEnter(c) \/ LooksToExit(c)
        PROVE  chosen' = chosen /\ \A d \in Claws : Chooses(d)'
    BY <2>6, <2>7, <2>8, <2>9 DEF LooksToEnter, LooksToExit
  <2>10. ASSUME NEW c \in Claws, SavesMode(c)
         PROVE  chosen' = chosen /\ \A d \in Claws : Chooses(d)'
    <3>1. CASE op[c].kind # "config"
      BY <2>8, <2>10, <3>1 DEF SavesMode
    <3>2. CASE op[c].kind = "config"
      <4>1. op'[c].value = Plan /\ \A d \in Claws : d # c => op'[d] = op[d]
        BY <2>1, <2>10 DEF SavesMode, Ops
      <4>2. QED BY <1>2, <2>10, <4>1 DEF SavesMode, PlanTypes, Chooses
    <3>3. QED BY <3>1, <3>2
  <2>11. ASSUME NEW c \in Claws, Writes(c)
         PROVE  chosen' \in LocalModes \cup {Plan, Unset} /\ \A d \in Claws : Chooses(d)'
    BY <1>2, <2>6, <2>7, <2>11 DEF Writes, PlanTypes, Chooses
  <2>12. ASSUME NEW c \in Claws,
                ClearsMode(c) \/ Killed(c) \/ (\E left : TearsSettings(c, left) \/ TearsState(c, left))
         PROVE  chosen' = chosen /\ \A d \in Claws : Chooses(d)'
    BY <2>6, <2>12 DEF ClearsMode, Killed, TearsSettings, TearsState
  <2>13. ASSUME NEW mode \in LocalModes \cup {Plan, Unset}, Edits(mode)
         PROVE  chosen' = mode /\ \A d \in Claws : Chooses(d)'
    BY <1>2, <2>13 DEF Edits, PlanTypes, Chooses
  <2>14. CASE UNCHANGED planVars
    BY <1>2, <2>14 DEF planVars, PlanTypes, Chooses
  <2>15. chosen \in LocalModes \cup {Plan, Unset}
    BY <1>2 DEF PlanTypes
  <2>16. QED
    BY <1>2, <2>4, <2>5, <2>9, <2>10, <2>11, <2>12, <2>13, <2>14, <2>15 DEF PlanNext
<1>3. PlanTypes => PlanTypeOK
  BY DEF PlanTypes, PlanInv, PlanTyped, PlanTypeOK, Values, Ops
<1>4. QED BY <1>1, <1>2, <1>3

\* A runtime has its number from the count, and the program is in one of its steps.
Steps == {"prompt", "initTurn", "initSwap", "turn", "stopOld", "stopNext", "drop", "dropNext",
          "dropCurrent", "over"}
PluginTypes ==
  PluginInv /\ current.id \in 0..builds /\ next.id \in 0..builds /\ pc \in Steps
LEMMA PluginTypesHold ==
  /\ PluginInit => PluginTypes
  /\ PluginTypes /\ [PluginNext]_pluginVars => PluginTypes'
  /\ PluginTypes => PluginTypeOK
<1>1. PluginInit => PluginTypes
  BY PluginInitInv DEF PluginInit, PluginTypes, NoRuntime, Steps
<1>2. ASSUME PluginTypes, [PluginNext]_pluginVars PROVE PluginTypes'
  <2>1. PluginInv' /\ builds \in Nat /\ current \in Runtimes /\ next \in Runtimes
    BY <1>2, PluginNextInv DEF PluginTypes, PluginInv, PluginTyped
  <2>2. ASSUME NEW for \in {"turn", "swap"}, Build(for) PROVE PluginTypes'
    <3>1. next'.id = builds + 1 /\ builds' = builds + 1 /\ current' = current /\ pc' \in Steps
      BY <2>2 DEF Build, Toward, Steps
    <3>2. QED BY <1>2, <2>1, <3>1 DEF PluginTypes
  <2>5. ASSUME NEW for \in {"turn", "swap"}, BuildRefused(for) PROVE PluginTypes'
    <3>1. /\ builds' = builds + 1 /\ current' = current /\ next' = next /\ pc' \in Steps
      BY <2>5 DEF BuildRefused, Steps
    <3>2. QED BY <1>2, <2>1, <3>1 DEF PluginTypes
  <2>3. CASE \/ StartsPlugin \/ BuildFails \/ Built \/ TurnEnds \/ TurnFails \/ StopsPlugin
             \/ StopFails \/ Replaced \/ GivenUp \/ ProgramExits \/ Drops \/ Dropped
             \/ (\E plugin \in Plugins : Changes(plugin)) \/ UNCHANGED pluginVars
    <3>1. builds' = builds
      BY <2>3 DEF StartsPlugin, BuildFails, Built, TurnEnds, TurnFails, StopsPlugin, StopFails,
         Replaced, GivenUp, ProgramExits, Drops, Dropped, Changes, pluginVars
    <3>2. pc' \in Steps
      BY <1>2, <2>3 DEF PluginTypes, Steps, StartsPlugin, BuildFails, Built, TurnEnds, TurnFails,
         StopsPlugin, StopFails, Replaced, GivenUp, ProgramExits, Drops, DropNext, DropCurrent, Drop,
         Dropped, AfterDrop, Changes, pluginVars
    <3>3. /\ current'.id \in {current.id, next.id, 0} /\ next'.id \in {next.id, 0}
      BY <2>1, <2>3, NoRuntimeIsRuntime DEF Runtimes, StartsPlugin, BuildFails, Built, TurnEnds,
         TurnFails, StopsPlugin, StopFails, Replaced, GivenUp, ProgramExits, Drops, Dropped,
         Changes, pluginVars
    <3>4. QED BY <1>2, <2>1, <3>1, <3>2, <3>3 DEF PluginTypes
  <2>4. QED BY <1>2, <2>2, <2>3, <2>5 DEF PluginNext
<1>3. PluginTypes => PluginTypeOK
  BY DEF PluginTypes, PluginInv, PluginTyped, PluginTypeOK, Steps
<1>4. QED BY <1>1, <1>2, <1>3

\* Routes lead to servers, and only an operation under way has servers to do.
McpTypes ==
  /\ McpInv /\ CallsInv /\ ids <= MaxRequests /\ routes \subseteq Servers
  /\ operation.pc \in {"idle", "over"} => operation.todo = {}
LEMMA McpTypesHold ==
  /\ McpInit => McpTypes
  /\ McpTypes /\ [McpNext]_mcpVars => McpTypes'
  /\ McpTypes => McpTypeOK
<1>1. McpInit => McpTypes
  BY McpInitInv, CallsInitInv, McpAssumption DEF McpInit, McpTypes, Begun, NoOperation
<1>2. ASSUME McpTypes, [McpNext]_mcpVars PROVE McpTypes'
  <2>1. /\ McpInv' /\ CallsInv' /\ operation \in Operations /\ ids \in Nat
        /\ operation.todo \subseteq Servers
    BY <1>2, McpNextInv, CallsNextInv DEF McpTypes, McpInv, OperationOK, Operations
  <2>2. SUFFICES /\ ids' <= MaxRequests /\ routes' \subseteq Servers
                 /\ operation'.pc \in {"idle", "over"} => operation'.todo = {}
    BY <2>1 DEF McpTypes
  <2>3. \A o \in Operations : Onward(o).pc # "enter" => Onward(o).todo = {}
    BY DEF Onward, Begun, NoOperation, Operations
  <2>4. ASSUME operation.pc \in {"enter", "ready", "wait"} PROVE server \in Servers
    BY <1>2, <2>4, ServerIsServer DEF McpTypes, McpInv
  <2>5. ASSUME operation.pc \in {"enter", "ready", "wait"},
               OperationFails \/ \E said \in {"ok", "error"} : Succeeds(said)
        PROVE  /\ routes' \subseteq Servers
               /\ operation'.pc \in {"idle", "over"} => operation'.todo = {}
    <3>1. PICK said \in {"ok", "error"} : operation' = Onward([operation EXCEPT !.said = said])
      BY <2>5 DEF OperationFails, Succeeds
    <3>2. [operation EXCEPT !.said = said] \in Operations
      BY <2>1 DEF Operations
    <3>3. routes' \subseteq routes \cup {server}
      BY <2>5 DEF OperationFails, Succeeds
    <3>4. QED BY <1>2, <2>3, <2>4, <2>5, <3>1, <3>2, <3>3 DEF McpTypes
  <2>6. ASSUME operation.pc \in {"enter", "ready", "wait"}, NEW error, Meets(error)
        PROVE  /\ routes' \subseteq Servers
               /\ operation'.pc \in {"idle", "over"} => operation'.todo = {}
    <3>1. CASE OperationFails
      BY <2>5, <2>6, <3>1
    <3>2. CASE routes' = routes /\ operation'.pc \in {"ready", "enter"}
      BY <1>2, <3>2 DEF McpTypes
    <3>3. OperationFails \/ (routes' = routes /\ operation'.pc \in {"ready", "enter"})
      BY <2>1, <2>6 DEF Meets, Operations
    <3>4. QED BY <3>1, <3>2, <3>3
  <2>7. CASE SpawnFails
    BY <1>2, <2>6, <2>7 DEF SpawnFails, McpTypes
  <2>8. CASE Lost
    BY <1>2, <2>6, <2>8 DEF Lost, McpTypes
  <2>9. CASE Read
    <3>1. ids' = ids /\ operation.pc = "wait"
      BY <2>9 DEF Read
    <3>2. \/ Meets("invalid") \/ OperationFails \/ (\E said \in {"ok", "error"} : Succeeds(said))
          \/ routes' = routes /\ operation' = [operation EXCEPT !.pc = "ready"]
      BY <2>9 DEF Read
    <3>3. CASE routes' = routes /\ operation' = [operation EXCEPT !.pc = "ready"]
      BY <1>2, <2>1, <3>1, <3>3 DEF McpTypes, Operations
    <3>4. QED BY <1>2, <2>5, <2>6, <3>1, <3>2, <3>3 DEF McpTypes
  <2>10. CASE Ask
    <3>1. ids' = ids + 1 /\ ids < MaxRequests /\ routes' = routes /\ operation'.pc = "wait"
      BY <2>1, <2>10 DEF Ask, Operations
    <3>2. QED BY <1>2, <2>1, <3>1, McpAssumption DEF McpTypes
  <2>11. CASE Enter \/ Spawn
    BY <1>2, <2>1, <2>11 DEF Enter, Spawn, McpTypes, Operations
  <2>12. CASE Shutdown
    BY <1>2, <2>1, <2>12 DEF Shutdown, McpTypes, Operations
  <2>13. ASSUME NEW kind, NEW goals, Begin(kind, goals)
         PROVE  ids' = ids /\ routes' = routes /\ operation'.pc = "enter"
    BY <2>13 DEF Begin, Begun, NoOperation
  <2>14. ASSUME NEW p \in Pids, (\E body \in Bodies : Answer(p, body)) \/ (\E id : Stray(p, id)) \/ Dies(p)
         PROVE  /\ ids' = ids /\ routes' = routes
                /\ operation'.pc = operation.pc /\ operation'.todo = operation.todo
    BY <2>1, <2>14 DEF Answer, Stray, Dies, Operations
  <2>15. CASE UNCHANGED mcpVars
    BY <1>2, <2>15 DEF mcpVars, McpTypes
  <2>16. QED
    BY <1>2, <2>7, <2>8, <2>9, <2>10, <2>11, <2>12, <2>13, <2>14, <2>15 DEF McpNext, McpTypes
<1>3. ASSUME McpTypes PROVE McpTypeOK
  <2>1. greeted \subseteq Pids
    BY <1>3 DEF McpTypes, McpInv, CallsInv, GreetedHeld, ServersOK
  <2>2. ids \in 0..MaxRequests
    BY <1>3, McpAssumption DEF McpTypes, McpInv, OperationOK
  <2>3. (operation.todo = {}) <=> (operation.pc \in {"idle", "over"})
    BY <1>3 DEF McpTypes, McpInv, OperationOK, Operations
  <2>4. QED
    BY <1>3, <2>1, <2>2, <2>3 DEF McpTypes, McpInv, ServersOK, OperationOK, Operations, McpTypeOK
<1>4. QED BY <1>1, <1>2, <1>3

\* Whatever comes, and from whatever provider, the reader holds calls that are.
CallTools == [call : Calls, input : Seq(Nat)]
HeardCalls == [pending : [0..MaxCalls -> CallTools \cup {NoTool}], calls : Seq(CallTools),
               text : BOOLEAN, stop : BOOLEAN]
LEMMA HearKeepsCalls ==
  ASSUME MaxCalls \in Nat, NEW h \in HeardCalls, NEW e \in Events
  PROVE  Hear(h, e) \in HeardCalls
<1>1. PICK slot \in 0..MaxCalls : slot = Slot(e.index)
  BY DEF Slot, Events
<1>2. PICK tool \in CallTools \cup {NoTool} : tool = h.pending[slot]
  BY DEF HeardCalls
<1>3. CASE e.kind = "start"
  <2>1. PICK new \in CallTools : new = [NoTool EXCEPT !.call = e.index]
    <3>1. e.index \in Calls
      BY <1>3 DEF Events
    <3>2. [NoTool EXCEPT !.call = e.index] = [call |-> e.index, input |-> <<>>]
      BY DEF NoTool
    <3>3. <<>> \in Seq(Nat)
      OBVIOUS
    <3>4. QED BY <3>1, <3>2, <3>3 DEF CallTools
  <2>2. Hear(h, e) = [h EXCEPT !.pending[slot] = new]
    BY <1>1, <1>3, <2>1 DEF Hear
  <2>3. QED BY <2>2 DEF HeardCalls
<1>4. CASE e.kind = "input" /\ tool # NoTool
  <2>1. tool \in CallTools /\ e.input \in Seq(Nat)
    BY <1>2, <1>4 DEF Events
  <2>2. PICK input \in Seq(Nat) : input = tool.input \o e.input
    <3>1. tool.input \in Seq(Nat)
      BY <2>1 DEF CallTools
    <3>2. PICK a \in Seq(Nat), b \in Seq(Nat) : a = tool.input /\ b = e.input
      BY <2>1, <3>1
    <3>3. a \o b \in Seq(Nat)
      OBVIOUS
    <3>4. QED BY <3>2, <3>3
  <2>3. PICK new \in CallTools : new = [tool EXCEPT !.input = input]
    BY <2>1 DEF CallTools
  <2>4. Hear(h, e) = [h EXCEPT !.pending[slot].input = @ \o e.input]
    BY <1>1, <1>2, <1>4 DEF Hear
  <2>5. Hear(h, e) = [h EXCEPT !.pending = [h.pending EXCEPT ![slot] = new]]
    BY <1>2, <2>2, <2>3, <2>4
  <2>6. QED BY <2>5 DEF HeardCalls
<1>5. CASE e.kind = "stop" /\ tool # NoTool
  <2>1. tool \in CallTools
    BY <1>2, <1>5
  <2>2. Hear(h, e) = [h EXCEPT !.pending[slot] = NoTool, !.calls = Append(@, tool)]
    BY <1>1, <1>2, <1>5 DEF Hear
  <2>3. Append(h.calls, tool) \in Seq(CallTools)
    BY <2>1 DEF HeardCalls
  <2>4. QED BY <2>2, <2>3 DEF HeardCalls
<1>6. CASE e.kind = "text"
  <2>1. Hear(h, e) = [h EXCEPT !.text = TRUE]
    BY <1>6 DEF Hear
  <2>2. QED BY <2>1 DEF HeardCalls
<1>7. CASE e.kind = "end"
  <2>1. Hear(h, e) = [h EXCEPT !.stop = TRUE]
    BY <1>7 DEF Hear
  <2>2. QED BY <2>1 DEF HeardCalls
<1>8. CASE e.kind \in {"input", "stop"} /\ tool = NoTool
  BY <1>1, <1>2, <1>8 DEF Hear
<1>9. QED BY <1>3, <1>4, <1>5, <1>6, <1>7, <1>8 DEF Events

LEMMA HearAllKeepsCalls ==
  ASSUME MaxCalls \in Nat, NEW h \in HeardCalls, NEW events \in Seq(Events)
  PROVE  HearAll(h, events) \in HeardCalls
<1>1. PICK n \in Nat : n = Len(events)
  OBVIOUS
<1>2. PICK f : Hearing(f, h, events, n) /\ HearAll(h, events) = f[n]
  BY <1>1, HearAllIs
<1> DEFINE T == {k \in 0..n : f[k] \notin HeardCalls}
<1>3. SUFFICES ASSUME T # {} PROVE FALSE
  BY <1>2
<1>4. PICK m \in T : \A k \in T : ~(k < m)
  <2> HIDE DEF T
  <2>1. T \subseteq Nat
    BY DEF T
  <2>2. QED BY <1>3, <2>1, HasLeast, Zenon
<1>5. m # 0
  BY <1>2, <1>4 DEF Hearing
<1>6. m \in 1..n /\ m - 1 \in 0..n /\ m - 1 < m
  BY <1>4, <1>5
<1>7. f[m - 1] \in HeardCalls /\ events[m] \in Events
  BY <1>1, <1>4, <1>6
<1>8. f[m] = Hear(f[m - 1], events[m])
  BY <1>2, <1>6 DEF Hearing
<1>9. QED BY <1>4, <1>7, <1>8, HearKeepsCalls

\* The request is of a provider of its chain, and no more attempts than allowed.
AsksFit(c) ==
  /\ c.provider \in 1..c.chain /\ c.attempts <= MaxRetries + 1
  /\ c.pc \in {"send", "stream"} => c.attempts <= MaxRetries
ApiFits ==
  /\ ApiInv /\ AsksFit(ask) /\ heard \in HeardCalls /\ blocks.stopped \subseteq blocks.started

LEMMA UnheardIs == ASSUME MaxCalls \in Nat PROVE Unheard \in HeardCalls
<1>1. [i \in 0..MaxCalls |-> NoTool] \in [0..MaxCalls -> CallTools \cup {NoTool}]
  OBVIOUS
<1>2. <<>> \in Seq(CallTools)
  OBVIOUS
<1>3. QED BY <1>1, <1>2 DEF Unheard, HeardCalls

LEMMA HeardStays ==
  ASSUME ApiFits, [ApiNext]_apiVars
  PROVE  heard' \in HeardCalls
<1>1. MaxCalls \in Nat /\ Fragments \in Nat \ {0} /\ heard \in HeardCalls
      /\ wire \in Wires /\ blocks \in Blocks
  BY ApiAssumption DEF ApiFits, ApiInv, ApiTypes
<1>2. ASSUME NEW events \in Seq(Events), Hears(events) PROVE heard' \in HeardCalls
  BY <1>1, <1>2, HearAllKeepsCalls DEF Hears
<1>3. \A a, b \in Seq(Events) : a \o b \in Seq(Events)
  OBVIOUS
<1>4. \A e \in Events : <<e>> \in Seq(Events)
  OBVIOUS
<1>5. <<>> \in Seq(Events)
  OBVIOUS
<1>6. CASE UNCHANGED heard
  BY <1>1, <1>6
<1>7. ASSUME NEW calls \in 0..MaxCalls, RepliedWhole(calls) PROVE heard' \in HeardCalls
  <2>1. Whole \in Seq(Nat)
    BY <1>1 DEF Whole, Input
  <2>2. [i \in 1..calls |-> [call |-> i, input |-> Whole]] \in Seq(CallTools)
    <3>1. \A i \in 1..calls : [call |-> i, input |-> Whole] \in CallTools
      BY <1>1, <2>1 DEF CallTools, Calls
    <3>2. QED BY <1>1, <3>1
  <2>3. PICK all \in Seq(CallTools) : all = [i \in 1..calls |-> [call |-> i, input |-> Whole]]
    BY <2>2
  <2>4. heard' = [Unheard EXCEPT !.calls = all, !.stop = TRUE]
    BY <1>7, <2>3 DEF RepliedWhole
  <2>5. QED BY <1>1, <2>4, UnheardIs DEF HeardCalls
<1>8. ASSUME NEW calls, NEW text, NEW nameAt, Replied(calls, text, nameAt)
      PROVE  heard' \in HeardCalls
  BY <1>1, <1>8, UnheardIs DEF Replied
<1>9. CASE SaysText
  <2>1. Event("text", 0) \in Events /\ Event("stop", 0) \in Events
    BY <1>1, EventIs
  <2>2. <<Event("text", 0)>> \in Seq(Events) /\ <<Event("stop", 0)>> \in Seq(Events)
    BY <1>4, <2>1, Zenon
  <2>3. PICK last \in Seq(Events) :
          last = IF ask.anthropic THEN <<Event("stop", 0)>> ELSE <<>>
    BY <1>5, <2>2
  <2>4. PICK events \in Seq(Events) : events = <<Event("text", 0)>> \o last
    BY <1>3, <2>2
  <2>5. Hears(events)
    BY <1>9, <2>3, <2>4 DEF SaysText
  <2>6. QED BY <1>2, <2>5
<1>10. ASSUME NEW i \in Calls, SaysCall(i) PROVE heard' \in HeardCalls
  <2>1. PICK k \in Nat : k = wire.said[i] + 1
    BY <1>1 DEF Wires
  <2>2. i \in 0..MaxCalls
    BY <1>1 DEF Calls
  <2>3. /\ Event("start", i) \in Events /\ Event("stop", i) \in Events
        /\ \A input \in Seq(Nat) : [Event("input", i) EXCEPT !.input = input] \in Events
    BY <1>1, <2>2, EventIs
  <2>4. /\ <<Event("start", i)>> \in Seq(Events) /\ <<Event("stop", i)>> \in Seq(Events)
        /\ \A input \in Seq(Nat) : <<[Event("input", i) EXCEPT !.input = input]>> \in Seq(Events)
    BY <1>4, <2>3, Zenon
  <2>5. CASE ask.anthropic
    <3>1. PICK first \in Seq(Events) : first = IF k = 1 THEN <<Event("start", i)>> ELSE <<>>
      BY <1>5, <2>4
    <3>2. PICK piece \in Seq(Nat) : piece = <<k>>
      <4>1. \A n \in Nat : <<n>> \in Seq(Nat)
        OBVIOUS
      <4>2. <<k>> \in Seq(Nat)
        BY <2>1, <4>1
      <4>3. QED BY <4>2
    <3>3. PICK middle \in Seq(Events) : middle = <<[Event("input", i) EXCEPT !.input = piece]>>
      BY <2>4
    <3>4. PICK last \in Seq(Events) : last = IF k = Fragments THEN <<Event("stop", i)>> ELSE <<>>
      BY <1>5, <2>4
    <3>5. PICK events \in Seq(Events) : events = first \o middle \o last
      BY <1>3
    <3>6. Hears(events)
      BY <1>10, <2>1, <2>5, <3>1, <3>2, <3>3, <3>4, <3>5 DEF SaysCall
    <3>7. QED BY <1>2, <3>6
  <2>6. CASE ~ask.anthropic
    <3>1. PICK events : events = CallEvents(blocks, i, k)
      OBVIOUS
    <3>2. Hears(events)
      BY <1>10, <2>1, <2>6, <3>1 DEF SaysCall
    <3>3. events \in Seq(Events)
      <4>1. blocks.emitted[i] \in Nat
        BY <1>1 DEF Blocks
      <4>2. QED BY <1>1, <2>1, <3>1, <4>1, CallsAreEvents
    <3>4. QED BY <1>2, <3>2, <3>3
  <2>7. QED BY <2>5, <2>6
<1>11. /\ Event("end", 0) \in Events /\ Event("stop", 0) \in Events
       /\ StopEvents(blocks) \in Seq(Events)
  BY <1>1, EventIs, StopsAreEvents DEF Blocks
<1>12. <<Event("end", 0)>> \in Seq(Events) /\ <<Event("stop", 0)>> \in Seq(Events)
  BY <1>4, <1>11, Zenon
<1>13. ASSUME NEW toolCalls, SaysFinish(toolCalls) PROVE heard' \in HeardCalls
  <2>1. Hears(<<Event("end", 0)>>) \/ Hears(StopEvents(blocks)) \/ heard' = heard
    BY <1>13 DEF SaysFinish
  <2>2. QED BY <1>1, <1>2, <1>11, <1>12, <2>1
<1>14. CASE StreamEnds
  <2>1. heard' = heard \/ heard' = HearAll(heard, Finish(blocks))
    BY <1>14 DEF StreamEnds
  <2>2. PICK first \in Seq(Events) : first = IF blocks.text THEN <<Event("stop", 0)>> ELSE <<>>
    BY <1>5, <1>12
  <2>3. PICK last \in Seq(Events) : last = IF blocks.opened THEN <<Event("end", 0)>> ELSE <<>>
    BY <1>5, <1>12
  <2>4. PICK stops \in Seq(Events) : stops = StopEvents(blocks)
    BY <1>11
  <2>5. PICK events \in Seq(Events) : events = first \o stops \o last
    BY <1>3
  <2>6. Finish(blocks) = events
    BY <2>2, <2>3, <2>4, <2>5 DEF Finish
  <2>7. HearAll(heard, events) \in HeardCalls
    BY <1>1, HearAllKeepsCalls
  <2>8. QED BY <1>1, <2>1, <2>6, <2>7
<1>15. ASSUME NEW retryable, RequestRefused(retryable) \/ Breaks(retryable)
       PROVE  heard' \in HeardCalls
  BY <1>6, <1>15 DEF RequestRefused, Breaks
<1>16. CASE Stalls \/ UNCHANGED apiVars
  BY <1>6, <1>16 DEF Stalls, apiVars
<1>17. ASSUME NEW i \in Calls, SaysLast(i) PROVE heard' \in HeardCalls
  <2>1. i \in 0..MaxCalls /\ Fragments \in Nat /\ blocks.emitted[i] \in Nat
    BY <1>1 DEF Calls, Blocks
  <2>2. PICK first \in Seq(Events) : first = CallEvents(blocks, i, Fragments)
    BY <1>1, <2>1, CallsAreEvents
  <2>3. Event("stop", i) \in Events
    BY <1>1, <2>1, EventIs
  <2>4. PICK last \in Seq(Events) : last = <<Event("stop", i)>>
    BY <1>4, <2>3
  <2>5. PICK events \in Seq(Events) : events = first \o last
    BY <1>3
  <2>6. Hears(events)
    BY <1>17, <2>2, <2>4, <2>5 DEF SaysLast
  <2>7. QED BY <1>2, <2>6
<1>18. QED
  BY <1>7, <1>8, <1>9, <1>10, <1>13, <1>14, <1>15, <1>16, <1>17 DEF ApiFits, ApiNext

LEMMA ApiTypesHold ==
  /\ ApiInit => ApiFits
  /\ ApiFits /\ [ApiNext]_apiVars => ApiFits'
  /\ ApiFits => ApiTypeOK
<1>0. MaxCalls \in Nat /\ Fragments \in Nat \ {0} /\ MaxProviders \in Nat \ {0} /\ MaxRetries \in Nat
  BY ApiAssumption
<1>1. ASSUME ApiInit PROVE ApiFits
  <2>1. ApiInv
    BY <1>1, ApiStarts
  <2>2. heard \in HeardCalls
    BY <1>0, <1>1, UnheardIs DEF ApiInit
  <2>3. blocks.stopped = {}
    BY <1>1 DEF ApiInit, NoBlocks
  <2>4. ask.provider = 1 /\ ask.attempts = 0 /\ ask.chain \in 1..MaxProviders
    BY <1>1 DEF ApiInit
  <2>5. QED BY <1>0, <2>1, <2>2, <2>3, <2>4 DEF ApiFits, AsksFit
<1>2. ASSUME ApiFits, [ApiNext]_apiVars PROVE ApiFits'
  <2>1. ApiInv' /\ heard' \in HeardCalls /\ ask \in Requests /\ blocks \in Blocks
    BY <1>2, ApiStep, HeardStays DEF ApiFits, ApiInv, ApiTypes
  <2>2. SUFFICES AsksFit(ask') /\ blocks'.stopped \subseteq blocks'.started
    BY <2>1 DEF ApiFits
  <2>3. AsksFit(ask) /\ blocks.stopped \subseteq blocks.started
    BY <1>2 DEF ApiFits
  \* A request that fails.
  <2>4. ASSUME NEW c \in Requests, c.provider \in 1..c.chain, c.attempts <= MaxRetries + 1,
               NEW retryable, RequestFails(c, retryable)
        PROVE  AsksFit(ask')
    <3>1. CASE retryable /\ c.reader = "agent" /\ c.provider < c.chain
      <4>1. ask' = [c EXCEPT !.provider = @ + 1, !.attempts = 0, !.mode = "stream", !.pc = "send"]
        BY <2>4, <3>1 DEF RequestFails
      <4>2. PICK n \in Nat : n = c.provider + 1 /\ n \in 1..c.chain
        BY <2>4, <3>1 DEF Requests
      <4>3. ask' = [c EXCEPT !.provider = n, !.attempts = 0, !.mode = "stream", !.pc = "send"]
        BY <4>1, <4>2
      <4>4. ask'.provider = n /\ ask'.attempts = 0 /\ ask'.chain = c.chain
        BY <4>3 DEF Requests
      <4>5. QED BY <1>0, <4>2, <4>4 DEF AsksFit
    <3>2. CASE ~(retryable /\ c.reader = "agent" /\ c.provider < c.chain)
      <4>1. ask' = [c EXCEPT !.pc = "error"]
        BY <2>4, <3>2 DEF RequestFails
      <4>2. QED BY <2>4, <4>1 DEF AsksFit, Requests
    <3>3. QED BY <3>1, <3>2
  \* One that is sent.
  <2>5. ASSUME ask.pc = "send"
        PROVE  /\ Sent \in Requests /\ Sent.provider \in 1..Sent.chain
               /\ Sent.attempts <= MaxRetries + 1 /\ Sent.pc = "send"
    <3>1. PICK n \in Nat : n = ask.attempts + 1
      BY <2>1 DEF Requests
    <3>2. Sent = [ask EXCEPT !.attempts = n] /\ n <= MaxRetries + 1
      BY <1>0, <2>1, <2>3, <2>5, <3>1 DEF Sent, AsksFit, Requests
    <3>3. QED BY <2>1, <2>3, <2>5, <3>2 DEF AsksFit, Requests
  <2>6. ASSUME NEW retryable, RequestRefused(retryable) PROVE AsksFit(ask') /\ blocks' = blocks
    <3>1. PICK c \in Requests : c = Sent /\ c.provider \in 1..c.chain
                               /\ c.attempts <= MaxRetries + 1 /\ c.pc = "send"
      BY <2>5, <2>6 DEF RequestRefused
    <3>2. CASE ask' = c /\ c.attempts <= MaxRetries
      BY <2>6, <3>1, <3>2 DEF AsksFit, RequestRefused
    <3>3. CASE RequestFails(c, retryable)
      BY <2>4, <2>6, <3>1, <3>3 DEF RequestRefused
    <3>4. QED BY <2>6, <3>1, <3>2, <3>3 DEF RequestRefused
  <2>7. ASSUME NEW retryable, Breaks(retryable) PROVE AsksFit(ask') /\ blocks' = blocks
    <3>1. PICK c \in Requests : c = [ask EXCEPT !.attempts = 0]
      BY <2>1 DEF Requests
    <3>2. c.provider \in 1..c.chain /\ c.attempts <= MaxRetries + 1
      BY <1>0, <2>1, <2>3, <3>1 DEF AsksFit, Requests
    <3>3. QED BY <2>4, <2>7, <3>1, <3>2 DEF Breaks
  <2>8. ASSUME NEW calls, NEW text, NEW nameAt, Replied(calls, text, nameAt)
        PROVE  AsksFit(ask') /\ blocks'.stopped = {}
    <3>1. PICK c \in Requests : c = Sent /\ c.provider \in 1..c.chain
      BY <2>5, <2>8 DEF Replied
    <3>2. ask' = [c EXCEPT !.pc = "stream", !.attempts = 0] /\ blocks' = NoBlocks
      BY <2>8, <3>1 DEF Replied, Streaming
    <3>3. QED BY <1>0, <3>1, <3>2 DEF AsksFit, Requests, NoBlocks
  <2>9. ASSUME NEW calls, RepliedWhole(calls) PROVE AsksFit(ask') /\ blocks' = blocks
    <3>1. PICK c \in Requests : c = Sent /\ c.provider \in 1..c.chain
                               /\ c.attempts <= MaxRetries + 1
      BY <2>5, <2>9 DEF RepliedWhole
    <3>2. ask' = [c EXCEPT !.pc = "result"] /\ blocks' = blocks
      BY <2>9, <3>1 DEF RepliedWhole
    <3>3. QED BY <3>1, <3>2 DEF AsksFit, Requests
  <2>10. CASE StreamEnds
    <3>1. /\ ask.pc = "stream" /\ blocks' = blocks
          /\ \/ ask' = [ask EXCEPT !.pc = "result", !.cut = ~wire.finished]
             \/ ask' = [ask EXCEPT !.pc = "send", !.mode = "single"]
      BY <2>10 DEF StreamEnds
    <3>2. AsksFit(ask')
      BY <2>1, <2>3, <3>1 DEF AsksFit, Requests
    <3>3. QED BY <2>3, <3>1, <3>2
  <2>11. CASE Stalls
    <3>1. ask' = [ask EXCEPT !.nudges = 1, !.pc = "send"] /\ ask.pc = "stream" /\ blocks' = blocks
      BY <2>11 DEF Stalls
    <3>2. QED BY <2>1, <2>3, <3>1 DEF AsksFit, Requests
  <2>12. CASE SaysText
    <3>1. ask' = ask /\ blocks' = [blocks EXCEPT !.opened = TRUE, !.text = TRUE]
      BY <2>12 DEF SaysText
    <3>2. QED BY <2>1, <2>3, <3>1 DEF Blocks
  <2>13. ASSUME NEW i \in Calls, SaysCall(i) \/ SaysLast(i)
         PROVE  ask' = ask /\ blocks'.stopped \subseteq blocks'.started
    <3>1. PICK k : k = wire.said[i] + 1
      OBVIOUS
    <3>2. CASE SaysCall(i)
      <4>1. ask' = ask /\ (\/ blocks' = blocks
                          \/ blocks' = [CallBlocks(blocks, i, k) EXCEPT !.opened = TRUE])
        BY <3>1, <3>2 DEF SaysCall
      <4>2. QED BY <2>1, <2>3, <4>1 DEF CallBlocks, Blocks
    <3>3. CASE SaysLast(i)
      <4>1. /\ ask' = ask
            /\ blocks' = [CallBlocks(blocks, i, Fragments) EXCEPT !.opened = TRUE,
                                                                 !.stopped = @ \cup {i}]
        BY <3>3 DEF SaysLast
      <4>2. i \in CallBlocks(blocks, i, Fragments).started
        <5>1. wire.nameAt <= Fragments
          BY <1>0, <1>2 DEF ApiFits, ApiInv, ApiTypes, Wires
        <5>2. Named(blocks, i, Fragments)
          BY <1>0, <1>2, <5>1 DEF ApiFits, ApiInv, ApiTypes, Wires, Named
        <5>3. QED BY <2>1, <5>2 DEF CallBlocks, Blocks
      <4>3. QED BY <2>1, <2>3, <4>1, <4>2 DEF CallBlocks, Blocks
    <3>4. QED BY <2>13, <3>2, <3>3
  <2>14. ASSUME NEW toolCalls, SaysFinish(toolCalls)
         PROVE  ask' = ask /\ blocks'.stopped \subseteq blocks'.started
    <3>1. /\ ask' = ask
          /\ \/ blocks' = blocks
             \/ blocks' = [blocks EXCEPT !.opened = TRUE, !.stopped = @ \cup blocks.started]
             \/ blocks' = [blocks EXCEPT !.opened = TRUE]
      BY <2>14 DEF SaysFinish
    <3>2. QED BY <2>1, <2>3, <3>1 DEF Blocks
  <2>15. CASE UNCHANGED apiVars
    BY <2>3, <2>15 DEF apiVars
  <2>16. QED
    BY <1>2, <2>3, <2>6, <2>7, <2>8, <2>9, <2>10, <2>11, <2>12, <2>13, <2>14, <2>15 DEF ApiNext
<1>3. ASSUME ApiFits PROVE ApiTypeOK
  <2>1. ask \in Requests /\ blocks \in Blocks
    BY <1>3 DEF ApiFits, ApiInv, ApiTypes
  <2>2. /\ ask.pc \in {"send", "stream", "result", "error"} /\ ask.provider \in 1..ask.chain
        /\ ask.attempts \in 0..MaxRetries + 1
    BY <1>0, <1>3, <2>1 DEF ApiFits, AsksFit, Requests
  <2>3. blocks.stopped \subseteq blocks.started /\ blocks.started \subseteq Calls
    BY <1>3, <2>1 DEF ApiFits, Blocks
  <2>4. \A k \in DOMAIN heard.calls : heard.calls[k].call \in Calls
    <3>1. heard.calls \in Seq(CallTools)
      BY <1>3 DEF ApiFits, HeardCalls
    <3>2. \A k \in DOMAIN heard.calls : heard.calls[k] \in CallTools
      BY <3>1
    <3>3. QED BY <3>2 DEF CallTools
  <2>5. QED BY <2>2, <2>3, <2>4 DEF ApiTypeOK
<1>4. QED BY <1>1, <1>2, <1>3

(***************************************************************************)
(* The parts together                                                      *)
(***************************************************************************)
ClawTypes ==
  /\ WorkerInv /\ SessionTypes /\ ToolTypes /\ McpTypes /\ ApiFits /\ PlanTypes
  /\ PluginTypes /\ StoreTypes

LEMMA ClawStarts == ClawInit => ClawTypes
<1>1. ASSUME ClawInit
      PROVE  /\ Init /\ SessionInit /\ ToolInit /\ McpInit /\ ApiInit /\ PlanInit /\ PluginInit
             /\ StoreInit
  BY <1>1 DEF ClawInit
<1>2. QED
  BY <1>1, InitWorkerInv, SessionTypesHold, ToolTypesHold, McpTypesHold, ApiTypesHold,
     PlanTypesHold, PluginTypesHold, StoreTypesHold, Zenon DEF ClawTypes

\* A step of the composition is a step of every part, or leaves the part alone.
LEMMA ClawStepIs ==
  [ClawNext]_mcVars =>
    /\ [Next]_vars /\ [SessionNext]_sessionVars /\ [ToolNext]_toolVars /\ [McpNext]_mcpVars
    /\ [ApiNext]_apiVars /\ [PlanNext]_planVars /\ [PluginNext]_pluginVars
    /\ [StoreNext]_storeVars
BY DEF ClawNext, Rest, mcVars

\* Every variable of every part stays in its type, whatever the number of
\* workers, processes, servers, calls, plugins and claws, and whatever the rules.
THEOREM ClawTypesHold == ClawSpec => []ClawTypeOK
<1>1. ASSUME ClawTypes, [ClawNext]_mcVars PROVE ClawTypes'
  <2>1. WorkerInv'
    BY <1>1, ClawStepIs, NextWorkerInv, Zenon DEF ClawTypes
  <2>2. SessionTypes' /\ ToolTypes' /\ McpTypes'
    BY <1>1, ClawStepIs, SessionTypesHold, ToolTypesHold, McpTypesHold, Zenon DEF ClawTypes
  <2>3. ApiFits' /\ PlanTypes' /\ PluginTypes' /\ StoreTypes'
    BY <1>1, ClawStepIs, ApiTypesHold, PlanTypesHold, PluginTypesHold, StoreTypesHold, Zenon
       DEF ClawTypes
  <2>4. QED BY <2>1, <2>2, <2>3, Zenon DEF ClawTypes
<1>2. ASSUME ClawTypes PROVE ClawTypeOK
  <2>1. TypeOK
    BY <1>2 DEF ClawTypes, WorkerInv
  <2>2. QED
    BY <1>2, <2>1, SessionTypesHold, ToolTypesHold, McpTypesHold, ApiTypesHold, PlanTypesHold,
       PluginTypesHold, StoreTypesHold, Zenon DEF ClawTypes, ClawTypeOK
<1>3. QED BY ClawStarts, <1>1, <1>2, PTL DEF ClawSpec
=============================================================================
