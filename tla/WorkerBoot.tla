----------------------------- MODULE WorkerBoot -----------------------------
(***************************************************************************)
(* The worker registry of claw-code                                        *)
(* (claw-code/rust/crates/runtime/src/worker_boot.rs): coding agents are   *)
(* started in terminals, and whoever supervises them reports what their    *)
(* screens show, answers their trust prompts and sends them work, all      *)
(* through WorkerRegistry.  Every operation holds the registry's mutex, so *)
(* an operation is one step; operations of several supervisors, and        *)
(* screens seen late, come in any order.                                   *)
(*                                                                         *)
(* Each event of a worker rewrites .claw/worker-state.json in the worker's *)
(* directory, which several workers may share.  Writing it is taken to     *)
(* succeed.  Of a screen only what the four detectors make of it is kept.  *)
(* prompt_delivery_attempts, the receipts (which only the detection of a   *)
(* misdelivery reads), the event log and the time stamps decide nothing    *)
(* and are left out.                                                       *)
(***************************************************************************)
EXTENDS FiniteSets

CONSTANTS
  Workers,  \* the ids WorkerRegistry::create hands out
  Cwds,     \* the directories workers run in
  Prompts,  \* the prompts supervisors send
  None      \* no prompt, no error

ASSUME NoneAssumption == None \notin Prompts

VARIABLES
  workers,   \* WorkerRegistryInner.workers
  file,      \* worker-state.json, by directory
  delivery,  \* history: what came of the last prompt sent to a worker, as far as
             \* the registry was told since
  approved   \* history: workers whose trust prompt somebody approved since they were started

vars == <<workers, file, delivery, approved>>

-----------------------------------------------------------------------------
(* Workers.                                                                *)

Statuses == {"Spawning", "TrustRequired", "ReadyForPrompt", "Running", "Finished", "Failed"}

WorkerFailureKinds == {"TrustGate", "PromptDelivery", "Provider"}

Worker ==
  [cwd : Cwds,
   status : Statuses,
   trust_auto_resolve : BOOLEAN,
   trust_gate_cleared : BOOLEAN,
   auto_recover : BOOLEAN,          \* auto_recover_prompt_misdelivery
   prompt_in_flight : BOOLEAN,
   last_prompt : Prompts \cup {None},
   replay_prompt : Prompts \cup {None},
   last_error : WorkerFailureKinds \cup {None}]

\* is_ready is status = "ReadyForPrompt".
StateSnapshot ==
  [worker_id : Workers, status : Statuses, trust_gate_cleared : BOOLEAN, prompt_in_flight : BOOLEAN]

\* What detect_trust_prompt, detect_prompt_misdelivery, detect_running_cue and
\* detect_ready_for_prompt say of a screen, in any combination.
Screens == [trust : BOOLEAN, misdelivery : BOOLEAN, running : BOOLEAN, ready : BOOLEAN]

Init ==
  /\ workers = [w \in {} |-> None]
  /\ file = [c \in {} |-> None]
  /\ delivery = [w \in Workers |-> "none"]
  /\ approved = {}

\* The function f with k mapped to v.
Put(f, k, v) == [x \in DOMAIN f \cup {k} |-> IF x = k THEN v ELSE f[x]]

\* emit_state_file, with the worker as push_event leaves it.
Emit(w, k) ==
  file' = Put(file, k.cwd, [worker_id |-> w, status |-> k.status,
                            trust_gate_cleared |-> k.trust_gate_cleared,
                            prompt_in_flight |-> k.prompt_in_flight])

\* Worker w becomes k by way of push_event.
Push(w, k) ==
  /\ workers' = Put(workers, w, k)
  /\ Emit(w, k)
-----------------------------------------------------------------------------
(* The operations of the registry.                                         *)

\* trust_auto_resolve says whether the directory is under a trusted root.
Create(w) ==
  /\ w \notin DOMAIN workers
  /\ \E cwd \in Cwds, auto, recover \in BOOLEAN :
       Push(w, [cwd |-> cwd, status |-> "Spawning",
                trust_auto_resolve |-> auto, trust_gate_cleared |-> FALSE,
                auto_recover |-> recover, prompt_in_flight |-> FALSE,
                last_prompt |-> None, replay_prompt |-> None, last_error |-> None])
  /\ delivery' = [delivery EXCEPT ![w] = "none"]
  /\ UNCHANGED approved

\* observe, first part: the screen asks for trust that has not been given.
TrustAsked(k, screen) == screen.trust /\ ~k.trust_gate_cleared

\* Nobody but a supervisor can give it.
BlockedOnTrust(k, screen) == TrustAsked(k, screen) /\ ~k.trust_auto_resolve

\* The worker once trust has been asked for and given by the allowlist.
AutoTrusted(k, screen) ==
  IF TrustAsked(k, screen)
  THEN [k EXCEPT !.trust_gate_cleared = TRUE, !.last_error = None, !.status = "Spawning"]
  ELSE k

\* observe, returning early: the worker is blocked on its trust prompt.
ObserveTrustRequired(w, screen) ==
  /\ BlockedOnTrust(workers[w], screen)
  /\ Push(w, [workers[w] EXCEPT !.status = "TrustRequired", !.last_error = "TrustGate"])
  /\ UNCHANGED <<delivery, approved>>

\* The prompt went elsewhere: prompt_misdelivery_is_relevant and detected.
Misdelivered(k, screen) ==
  screen.misdelivery /\ k.prompt_in_flight /\ k.last_prompt # None

\* Faulty variant: the worker is made ready again without being told apart from
\* one whose prompt is under way.
RecoveredInFlight(k) ==
  IF k.auto_recover
  THEN [k EXCEPT !.last_error = "PromptDelivery", !.replay_prompt = k.last_prompt,
                 !.status = "ReadyForPrompt"]
  ELSE [k EXCEPT !.last_error = "PromptDelivery", !.status = "Failed"]

\* The worker after a misdelivery: ready to replay the prompt, or failed.
Recovered(k) ==
  LET stopped == [k EXCEPT !.last_error = "PromptDelivery", !.prompt_in_flight = FALSE]
  IN IF k.auto_recover
     THEN [stopped EXCEPT !.replay_prompt = k.last_prompt, !.status = "ReadyForPrompt"]
     ELSE [stopped EXCEPT !.status = "Failed"]

\* observe, returning early: the prompt was misdelivered.
ObserveMisdelivery(w, screen) ==
  LET k == AutoTrusted(workers[w], screen)
  IN /\ ~BlockedOnTrust(workers[w], screen)
     /\ Misdelivered(k, screen)
     /\ Push(w, Recovered(k))
     /\ delivery' = [delivery EXCEPT ![w] = "lost"]
     /\ UNCHANGED approved

\* The agent is at work on its prompt.
Accepted(k, screen) ==
  IF screen.running /\ k.prompt_in_flight
  THEN [k EXCEPT !.prompt_in_flight = FALSE, !.status = "Running", !.last_error = None]
  ELSE k

BecomesReady(k, screen) == screen.ready /\ k.status # "ReadyForPrompt"

\* The agent waits for a prompt.
Ready(k) ==
  [k EXCEPT !.status = "ReadyForPrompt", !.prompt_in_flight = FALSE,
            !.last_error = IF @ = "TrustGate" THEN None ELSE @]

\* observe to its end.  Accepting a prompt pushes no event: the file is written
\* with the worker ready if it becomes so, else as it was when its trust prompt was
\* resolved if it was, else not at all.
ObserveProgress(w, screen) ==
  LET k        == workers[w]
      trusted  == AutoTrusted(k, screen)
      accepted == Accepted(trusted, screen)
  IN /\ ~BlockedOnTrust(k, screen)
     /\ ~Misdelivered(trusted, screen)
     /\ IF BecomesReady(accepted, screen)
        THEN Push(w, Ready(accepted))
        ELSE /\ workers' = Put(workers, w, accepted)
             /\ IF TrustAsked(k, screen) THEN Emit(w, trusted) ELSE UNCHANGED file
     /\ delivery' = IF delivery[w] = "sent" /\ (screen.running \/ screen.ready)
                    THEN [delivery EXCEPT ![w] = "accepted"]
                    ELSE delivery
     /\ UNCHANGED approved

Observe(w) ==
  \E screen \in Screens :
    \/ ObserveTrustRequired(w, screen)
    \/ ObserveMisdelivery(w, screen)
    \/ ObserveProgress(w, screen)

ResolveTrust(w) ==
  LET k == workers[w]
  IN /\ k.status = "TrustRequired"
     /\ Push(w, [k EXCEPT !.trust_gate_cleared = TRUE, !.last_error = None,
                          !.status = "Spawning"])
     /\ approved' = approved \cup {w}
     /\ UNCHANGED delivery

\* Faulty variant: the prompt to be replayed stays armed when it is sent.
SendPromptKeepingReplay(w) ==
  LET k == workers[w]
  IN /\ k.status = "ReadyForPrompt"
     /\ \E prompt \in Prompts \cup ({k.replay_prompt} \ {None}) :
          Push(w, [k EXCEPT !.prompt_in_flight = TRUE, !.last_prompt = prompt,
                            !.last_error = None, !.status = "Running"])
     /\ delivery' = [delivery EXCEPT ![w] = "sent"]
     /\ UNCHANGED approved

\* The prompt given, or the one armed for replay.
SendPrompt(w) ==
  LET k == workers[w]
  IN /\ k.status = "ReadyForPrompt"
     /\ \E prompt \in Prompts \cup ({k.replay_prompt} \ {None}) :
          Push(w, [k EXCEPT !.prompt_in_flight = TRUE, !.last_prompt = prompt,
                            !.replay_prompt = None, !.last_error = None,
                            !.status = "Running"])
     /\ delivery' = [delivery EXCEPT ![w] = "sent"]
     /\ UNCHANGED approved

\* Faulty variant: the trust given before the restart is kept.
RestartTrusted(w) ==
  /\ Push(w, [workers[w] EXCEPT !.status = "Spawning",
                                !.last_prompt = None, !.replay_prompt = None,
                                !.last_error = None, !.prompt_in_flight = FALSE])
  /\ approved' = approved \ {w}
  /\ delivery' = [delivery EXCEPT ![w] = "none"]

Restart(w) ==
  /\ Push(w, [workers[w] EXCEPT !.status = "Spawning", !.trust_gate_cleared = FALSE,
                                !.last_prompt = None, !.replay_prompt = None,
                                !.last_error = None, !.prompt_in_flight = FALSE])
  /\ approved' = approved \ {w}
  /\ delivery' = [delivery EXCEPT ![w] = "none"]

\* Faulty variant: the worker is finished without an event.
TerminateQuietly(w) ==
  /\ workers' = Put(workers, w, [workers[w] EXCEPT !.status = "Finished",
                                                   !.prompt_in_flight = FALSE])
  /\ UNCHANGED <<file, delivery, approved>>

\* The supervisor ends what the worker is at.
Ended(w) == delivery' = [delivery EXCEPT ![w] = IF @ = "sent" THEN "ended" ELSE @]

Terminate(w) ==
  /\ Push(w, [workers[w] EXCEPT !.status = "Finished", !.prompt_in_flight = FALSE])
  /\ Ended(w) /\ UNCHANGED approved

\* observe_completion, is_provider_failure.
CompletionFailed(w) ==
  /\ Push(w, [workers[w] EXCEPT !.last_error = "Provider", !.status = "Failed",
                                !.prompt_in_flight = FALSE])
  /\ Ended(w) /\ UNCHANGED approved

\* observe_completion, any other finish.
Completed(w) ==
  /\ Push(w, [workers[w] EXCEPT !.last_error = None, !.status = "Finished",
                                !.prompt_in_flight = FALSE])
  /\ Ended(w) /\ UNCHANGED approved

Next ==
  \/ \E w \in Workers : Create(w)
  \/ \E w \in DOMAIN workers :
       \/ Observe(w)
       \/ ResolveTrust(w)
       \/ SendPrompt(w)
       \/ Restart(w)
       \/ Terminate(w)
       \/ CompletionFailed(w)
       \/ Completed(w)

Spec == Init /\ [][Next]_vars

-----------------------------------------------------------------------------
(* Properties.                                                             *)

\* The registry is well typed, and each directory with a worker has a state file,
\* which describes one of its workers.
TypeOK ==
  /\ DOMAIN workers \subseteq Workers
  /\ \A w \in DOMAIN workers : workers[w] \in Worker /\ workers[w].cwd \in DOMAIN file
  /\ DOMAIN file \subseteq Cwds
  /\ \A c \in DOMAIN file :
       /\ file[c] \in StateSnapshot
       /\ file[c].worker_id \in DOMAIN workers
       /\ workers[file[c].worker_id].cwd = c
  /\ delivery \in [Workers -> {"none", "sent", "accepted", "lost", "ended"}]
  /\ approved \subseteq Workers

\* A worker takes another prompt only after the registry was told something of the last
\* one: a screen showed the agent at work or waiting, or the prompt gone astray, or the
\* supervisor ended the work or restarted the worker (then what came of the prompt may stay
\* unknown).  And prompt_in_flight, which reports show, says exactly whether it was told,
\* although trust prompts and their approval move the worker back to earlier states
\* (observe, send_prompt, terminate, observe_completion).
PromptIsSettled ==
  \A w \in DOMAIN workers :
    /\ workers[w].status = "ReadyForPrompt" => delivery[w] # "sent"
    /\ workers[w].prompt_in_flight <=> delivery[w] = "sent"

\* Why: a prompt under way keeps a worker from the states it could take another in.
InFlightIsExclusive ==
  \A w \in DOMAIN workers : LET k == workers[w] IN
    k.prompt_in_flight =>
      k.status \in {"Spawning", "TrustRequired", "Running"} /\ k.last_prompt # None

\* A prompt is armed for replay only while it is the worker's last one, was seen to have
\* gone astray, and the worker was created to recover: send_prompt never repeats a
\* prompt the agent has taken.
ReplayIsOfLostPrompt ==
  \A w \in DOMAIN workers : LET k == workers[w] IN
    k.replay_prompt # None =>
      /\ k.replay_prompt = k.last_prompt
      /\ delivery[w] = "lost"
      /\ k.auto_recover

\* What await_ready reports as blocked comes with the error that explains it, and only a
\* worker that a supervisor has to approve is blocked on trust.
BlockedIsExplained ==
  \A w \in DOMAIN workers : LET k == workers[w] IN
    /\ k.status = "Failed" => k.last_error \in {"PromptDelivery", "Provider"}
    /\ k.status = "TrustRequired" =>
         /\ k.last_error = "TrustGate"
         /\ ~k.trust_gate_cleared
         /\ ~k.trust_auto_resolve

\* A trust gate is open only for a directory on the allowlist, or by an approval given to
\* this worker since it was last started.
TrustIsGranted ==
  \A w \in DOMAIN workers :
    workers[w].trust_gate_cleared => workers[w].trust_auto_resolve \/ w \in approved

\* Whoever polls the state file and reads is_ready finds a worker that takes a prompt,
\* although not every change of a worker reaches the file.
ReadyFileIsTrue ==
  \A c \in DOMAIN file :
    file[c].status = "ReadyForPrompt" => workers[file[c].worker_id].status = "ReadyForPrompt"

\* The conjunction is inductive: a worker that leaves ReadyForPrompt does so with an event
\* because the only change without one needs a prompt in flight.
WorkerInv ==
  /\ TypeOK
  /\ PromptIsSettled
  /\ InFlightIsExclusive
  /\ ReplayIsOfLostPrompt
  /\ BlockedIsExplained
  /\ TrustIsGranted
  /\ ReadyFileIsTrue
=============================================================================
