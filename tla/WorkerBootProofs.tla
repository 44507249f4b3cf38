-------------------------- MODULE WorkerBootProofs --------------------------
(***************************************************************************)
(* Proofs about WorkerBoot, for any sets of workers, directories and       *)
(* prompts.  Except for the state files the invariant speaks of one worker *)
(* at a time (Fits), and every operation changes one worker: what remains  *)
(* of each action is that the worker it leaves fits.                       *)
(***************************************************************************)
EXTENDS WorkerBoot, TLAPS

\* What WorkerInv asks of worker k, d being what was seen of its prompt and a
\* whether it was approved.
Fits(k, d, a) ==
  /\ k.prompt_in_flight =>
       /\ k.status \in {"Spawning", "TrustRequired", "Running"}
       /\ k.last_prompt # None
  /\ k.prompt_in_flight <=> d = "sent"
  /\ k.status = "ReadyForPrompt" => d # "sent"
  /\ k.replay_prompt # None =>
       k.replay_prompt = k.last_prompt /\ d = "lost" /\ k.auto_recover
  /\ k.status = "Failed" => k.last_error \in {"PromptDelivery", "Provider"}
  /\ k.status = "TrustRequired" =>
       k.last_error = "TrustGate" /\ ~k.trust_gate_cleared /\ ~k.trust_auto_resolve
  /\ k.trust_gate_cleared => k.trust_auto_resolve \/ a

Deliveries == {"none", "sent", "accepted", "lost", "ended"}

\* WorkerInv is TypeOK, a property of each worker, and one of the files.
LEMMA WorkerByWorker ==
  WorkerInv <=> /\ TypeOK
                /\ \A w \in DOMAIN workers : Fits(workers[w], delivery[w], w \in approved)
                /\ ReadyFileIsTrue
BY DEF WorkerInv, PromptIsSettled, InFlightIsExclusive, ReplayIsOfLostPrompt, BlockedIsExplained,
   TrustIsGranted, Fits

\* A step that writes one worker and the file of its directory.
LEMMA WriteStep ==
  ASSUME WorkerInv,
         NEW w \in Workers, NEW k \in Worker, NEW s \in StateSnapshot,
         workers' = Put(workers, w, k), file' = Put(file, k.cwd, s),
         w \in DOMAIN workers => workers[w].cwd = k.cwd,
         s.worker_id = w, s.status = "ReadyForPrompt" => k.status = "ReadyForPrompt",
         delivery' \in [Workers -> Deliveries], approved' \subseteq Workers,
         \A v \in Workers : v # w => /\ delivery'[v] = delivery[v]
                                     /\ v \in approved' <=> v \in approved,
         Fits(k, delivery'[w], w \in approved')
  PROVE  WorkerInv'
<1>1. /\ TypeOK /\ ReadyFileIsTrue
      /\ \A v \in DOMAIN workers : Fits(workers[v], delivery[v], v \in approved)
  BY WorkerByWorker
<1>2. /\ DOMAIN workers' = DOMAIN workers \cup {w} /\ workers'[w] = k
      /\ \A v \in DOMAIN workers : v # w => workers'[v] = workers[v]
  BY DEF Put
<1>3. /\ DOMAIN file' = DOMAIN file \cup {k.cwd} /\ file'[k.cwd] = s
      /\ \A c \in DOMAIN file : c # k.cwd => file'[c] = file[c]
  BY DEF Put
<1>4. k.cwd \in Cwds
  BY DEF Worker
<1>5. ASSUME NEW c \in DOMAIN file, c # k.cwd
      PROVE  /\ file[c].worker_id \in DOMAIN workers /\ file[c].worker_id # w
             /\ workers'[file[c].worker_id] = workers[file[c].worker_id]
  BY <1>1, <1>2, <1>5 DEF TypeOK
<1>6. TypeOK'
  <2>1. DOMAIN workers' \subseteq Workers /\ DOMAIN file' \subseteq Cwds
    BY <1>1, <1>2, <1>3, <1>4 DEF TypeOK
  <2>2. \A v \in DOMAIN workers' : workers'[v] \in Worker /\ workers'[v].cwd \in DOMAIN file'
    BY <1>1, <1>2, <1>3 DEF TypeOK
  <2>3. \A c \in DOMAIN file' : /\ file'[c] \in StateSnapshot
                                /\ file'[c].worker_id \in DOMAIN workers'
                                /\ workers'[file'[c].worker_id].cwd = c
    <3> TAKE c \in DOMAIN file'
    <3>1. CASE c = k.cwd
      BY <1>2, <1>3, <3>1
    <3>2. CASE c # k.cwd
      <4>1. c \in DOMAIN file /\ file'[c] = file[c]
        BY <1>3, <3>2
      <4>2. QED BY <1>1, <1>2, <1>5, <3>2, <4>1 DEF TypeOK
    <3>3. QED BY <3>1, <3>2
  <2>4. QED BY <2>1, <2>2, <2>3 DEF TypeOK, Deliveries
<1>7. \A v \in DOMAIN workers' : Fits(workers'[v], delivery'[v], v \in approved')
  <2> TAKE v \in DOMAIN workers'
  <2>1. CASE v = w
    BY <1>2, <2>1
  <2>2. CASE v # w
    <3>1. /\ v \in DOMAIN workers /\ workers'[v] = workers[v] /\ delivery'[v] = delivery[v]
          /\ v \in approved' <=> v \in approved
      BY <1>1, <1>2, <2>2 DEF TypeOK
    <3>2. QED BY <1>1, <3>1 DEF Fits
  <2>3. QED BY <2>1, <2>2
<1>8. ReadyFileIsTrue'
  <2> SUFFICES ASSUME NEW c \in DOMAIN file', file'[c].status = "ReadyForPrompt"
               PROVE  workers'[file'[c].worker_id].status = "ReadyForPrompt"
    BY DEF ReadyFileIsTrue
  <2>1. CASE c = k.cwd
    BY <1>2, <1>3, <2>1
  <2>2. CASE c # k.cwd
    BY <1>1, <1>3, <1>5, <2>2 DEF ReadyFileIsTrue
  <2>3. QED BY <2>1, <2>2
<1>9. QED
  BY <1>6, <1>7, <1>8 DEF WorkerInv, PromptIsSettled, InFlightIsExclusive, ReplayIsOfLostPrompt,
     BlockedIsExplained, TrustIsGranted, Fits

\* A step that changes one worker without an event: it must not take away readiness.
LEMMA QuietStep ==
  ASSUME WorkerInv,
         NEW w \in DOMAIN workers, NEW k \in Worker,
         workers' = Put(workers, w, k), file' = file,
         workers[w].cwd = k.cwd,
         workers[w].status = "ReadyForPrompt" => k.status = "ReadyForPrompt",
         delivery' \in [Workers -> Deliveries], approved' \subseteq Workers,
         \A v \in Workers : v # w => /\ delivery'[v] = delivery[v]
                                     /\ v \in approved' <=> v \in approved,
         Fits(k, delivery'[w], w \in approved')
  PROVE  WorkerInv'
<1>1. /\ TypeOK /\ ReadyFileIsTrue
      /\ \A v \in DOMAIN workers : Fits(workers[v], delivery[v], v \in approved)
  BY WorkerByWorker
<1>2. /\ DOMAIN workers' = DOMAIN workers /\ workers'[w] = k
      /\ \A v \in DOMAIN workers : v # w => workers'[v] = workers[v]
  BY DEF Put
<1>3. TypeOK'
  BY <1>1, <1>2 DEF TypeOK, Deliveries
<1>4. \A v \in DOMAIN workers' : Fits(workers'[v], delivery'[v], v \in approved')
  <2> TAKE v \in DOMAIN workers'
  <2>1. CASE v = w
    BY <1>2, <2>1
  <2>2. CASE v # w
    <3>1. /\ v \in DOMAIN workers /\ workers'[v] = workers[v] /\ delivery'[v] = delivery[v]
          /\ v \in approved' <=> v \in approved
      BY <1>1, <1>2, <2>2 DEF TypeOK
    <3>2. QED BY <1>1, <3>1 DEF Fits
  <2>3. QED BY <2>1, <2>2
<1>5. ReadyFileIsTrue'
  BY <1>1, <1>2 DEF ReadyFileIsTrue, TypeOK
<1>6. QED
  BY <1>3, <1>4, <1>5 DEF WorkerInv, PromptIsSettled, InFlightIsExclusive, ReplayIsOfLostPrompt,
     BlockedIsExplained, TrustIsGranted, Fits

\* The snapshot of a worker is one.
LEMMA PushStep ==
  ASSUME WorkerInv,
         NEW w \in Workers, NEW k \in Worker,
         Push(w, k),
         w \in DOMAIN workers => workers[w].cwd = k.cwd,
         delivery' \in [Workers -> Deliveries], approved' \subseteq Workers,
         \A v \in Workers : v # w => /\ delivery'[v] = delivery[v]
                                     /\ v \in approved' <=> v \in approved,
         Fits(k, delivery'[w], w \in approved')
  PROVE  WorkerInv'
<1> DEFINE s == [worker_id |-> w, status |-> k.status,
                 trust_gate_cleared |-> k.trust_gate_cleared,
                 prompt_in_flight |-> k.prompt_in_flight]
<1>1. s \in StateSnapshot /\ s.worker_id = w /\ s.status = k.status
  BY DEF StateSnapshot, Worker
<1>2. workers' = Put(workers, w, k) /\ file' = Put(file, k.cwd, s)
  BY DEF Push, Emit
<1> HIDE DEF s
<1>3. QED BY <1>1, <1>2, WriteStep

-----------------------------------------------------------------------------
LEMMA InitWorkerInv == Init => WorkerInv
<1> SUFFICES ASSUME Init PROVE WorkerInv
  OBVIOUS
<1>1. DOMAIN workers = {} /\ DOMAIN file = {}
  BY DEF Init
<1>2. TypeOK
  BY <1>1 DEF Init, TypeOK
<1>3. QED
  BY <1>1, <1>2, WorkerByWorker DEF ReadyFileIsTrue

\* What a registered worker is, and what may be said of it.
LEMMA Registered ==
  ASSUME WorkerInv, NEW w \in DOMAIN workers
  PROVE  /\ w \in Workers /\ workers[w] \in Worker
         /\ Fits(workers[w], delivery[w], w \in approved)
         /\ delivery \in [Workers -> Deliveries] /\ approved \subseteq Workers
BY WorkerByWorker DEF TypeOK, Deliveries

LEMMA CreateKeeps ==
  ASSUME WorkerInv, NEW w \in Workers, Create(w)
  PROVE  WorkerInv'
<1>1. PICK cwd \in Cwds, auto \in BOOLEAN, recover \in BOOLEAN :
        Push(w, [cwd |-> cwd, status |-> "Spawning",
                 trust_auto_resolve |-> auto, trust_gate_cleared |-> FALSE,
                 auto_recover |-> recover, prompt_in_flight |-> FALSE,
                 last_prompt |-> None, replay_prompt |-> None, last_error |-> None])
  BY DEF Create
<1> DEFINE k == [cwd |-> cwd, status |-> "Spawning",
                 trust_auto_resolve |-> auto, trust_gate_cleared |-> FALSE,
                 auto_recover |-> recover, prompt_in_flight |-> FALSE,
                 last_prompt |-> None, replay_prompt |-> None, last_error |-> None]
<1>2. k \in Worker
  BY DEF Worker, Statuses
<1>3. Fits(k, "none", w \in approved')
  BY DEF Fits
<1>4. /\ w \notin DOMAIN workers /\ delivery' = [delivery EXCEPT ![w] = "none"]
      /\ delivery \in [Workers -> Deliveries] /\ approved \subseteq Workers
      /\ approved' = approved
  BY DEF Create, WorkerInv, TypeOK, Deliveries
<1>7. /\ delivery' \in [Workers -> Deliveries] /\ delivery'[w] = "none"
      /\ \A v \in Workers : v # w => delivery'[v] = delivery[v]
  BY <1>4 DEF Deliveries
<1> HIDE DEF k
<1>5. Push(w, k)
  BY <1>1 DEF k
<1>6. QED BY <1>2, <1>3, <1>4, <1>5, <1>7, PushStep

LEMMA ObserveTrustRequiredKeeps ==
  ASSUME WorkerInv, NEW w \in DOMAIN workers, NEW screen \in Screens,
         ObserveTrustRequired(w, screen)
  PROVE  WorkerInv'
<1> DEFINE k == [workers[w] EXCEPT !.status = "TrustRequired", !.last_error = "TrustGate"]
<1>1. k \in Worker /\ workers[w].cwd = k.cwd
  BY Registered DEF Worker, Statuses, WorkerFailureKinds
<1>2. Fits(k, delivery[w], w \in approved)
  BY Registered DEF Fits, Worker, ObserveTrustRequired, BlockedOnTrust, TrustAsked
<1>3. Push(w, k) /\ delivery' = delivery /\ approved' = approved
  BY DEF ObserveTrustRequired
<1> HIDE DEF k
<1>4. QED BY <1>1, <1>2, <1>3, Registered, PushStep

\* A worker that is not blocked on trust fits once the allowlist has given it, and is
\* the same unless it was asked.
LEMMA AutoTrustedFits ==
  ASSUME NEW k \in Worker, NEW d, NEW w, NEW A, NEW screen \in Screens,
         Fits(k, d, w \in A), ~BlockedOnTrust(k, screen)
  PROVE  /\ AutoTrusted(k, screen) \in Worker
         /\ Fits(AutoTrusted(k, screen), d, w \in A)
         /\ AutoTrusted(k, screen).cwd = k.cwd
         /\ AutoTrusted(k, screen).prompt_in_flight = k.prompt_in_flight
         /\ ~TrustAsked(k, screen) => AutoTrusted(k, screen) = k
<1>1. CASE TrustAsked(k, screen)
  <2> DEFINE t == [k EXCEPT !.trust_gate_cleared = TRUE, !.last_error = None,
                            !.status = "Spawning"]
  <2>1. t \in Worker /\ t.cwd = k.cwd /\ t.prompt_in_flight = k.prompt_in_flight
    BY DEF Worker, Statuses
  <2>2. k.trust_auto_resolve
    BY <1>1 DEF BlockedOnTrust
  <2>3. Fits(t, d, w \in A)
    BY <2>2 DEF Fits, Worker
  <2>4. AutoTrusted(k, screen) = t
    BY <1>1 DEF AutoTrusted
  <2> HIDE DEF t
  <2>5. QED BY <1>1, <2>1, <2>3, <2>4
<1>2. CASE ~TrustAsked(k, screen)
  BY <1>2 DEF AutoTrusted
<1>3. QED BY <1>1, <1>2

LEMMA ObserveMisdeliveryKeeps ==
  ASSUME WorkerInv, NEW w \in DOMAIN workers, NEW screen \in Screens,
         ObserveMisdelivery(w, screen)
  PROVE  WorkerInv'
<1> DEFINE k == AutoTrusted(workers[w], screen)
           r == Recovered(k)
<1>1. /\ k \in Worker /\ Fits(k, delivery[w], w \in approved) /\ k.cwd = workers[w].cwd
  <2>1. ~BlockedOnTrust(workers[w], screen)
    BY DEF ObserveMisdelivery
  <2>2. QED BY <2>1, Registered, AutoTrustedFits
<1>2. Misdelivered(k, screen) /\ Push(w, r)
      /\ delivery' = [delivery EXCEPT ![w] = "lost"] /\ approved' = approved
  BY DEF ObserveMisdelivery
<1> HIDE DEF k
<1>3. r \in Worker /\ r.cwd = k.cwd
  BY <1>1 DEF Recovered, Worker, Statuses, WorkerFailureKinds
<1>4. k.prompt_in_flight /\ k.last_prompt # None
  BY <1>2 DEF Misdelivered
<1>5. Fits(r, "lost", w \in approved)
  BY <1>1, <1>4 DEF Fits, Recovered, Worker
<1> HIDE DEF r
<1>6. /\ delivery' \in [Workers -> Deliveries] /\ delivery'[w] = "lost"
      /\ \A v \in Workers : v # w => delivery'[v] = delivery[v]
  BY <1>2, Registered DEF Deliveries
<1>7. QED BY <1>1, <1>2, <1>3, <1>5, <1>6, Registered, PushStep

\* The running cue and the ready cue keep a worker that fits fitting, the fate of its
\* prompt being known if it was under way.  Only the ready cue ends or begins readiness.
LEMMA CuesFit ==
  ASSUME NEW k \in Worker, NEW d, NEW w, NEW A, NEW screen \in Screens,
         Fits(k, d, w \in A)
  PROVE  LET e == IF d = "sent" /\ (screen.running \/ screen.ready)
                  THEN "accepted" ELSE d
             r == Accepted(k, screen)
         IN /\ r \in Worker /\ r.cwd = k.cwd
            /\ k.status = "ReadyForPrompt" => r.status = "ReadyForPrompt"
            /\ r.status = "ReadyForPrompt" => k.status = "ReadyForPrompt"
            /\ ~BecomesReady(r, screen) => Fits(r, e, w \in A)
            /\ BecomesReady(r, screen) =>
                 Ready(r) \in Worker /\ Ready(r).cwd = k.cwd /\ Fits(Ready(r), e, w \in A)
<1> DEFINE e == IF d = "sent" /\ (screen.running \/ screen.ready)
                THEN "accepted" ELSE d
           r == Accepted(k, screen)
<1>1. r \in Worker /\ r.cwd = k.cwd
  BY DEF Accepted, Worker, Statuses
<1>2. /\ k.status = "ReadyForPrompt" => r.status = "ReadyForPrompt"
      /\ r.status = "ReadyForPrompt" => k.status = "ReadyForPrompt"
  BY DEF Accepted, Worker, Fits
<1>6. /\ k.prompt_in_flight => d = "sent"
      /\ ~k.prompt_in_flight => e = d
      /\ (screen.running \/ screen.ready) => e # "sent"
  BY DEF Fits
<1>3. ASSUME ~BecomesReady(r, screen) PROVE Fits(r, e, w \in A)
  <2>1. CASE screen.running /\ k.prompt_in_flight
    <3>1. /\ r.prompt_in_flight = FALSE /\ r.status = "Running"
          /\ r.replay_prompt = k.replay_prompt
          /\ r.trust_gate_cleared = k.trust_gate_cleared
          /\ r.trust_auto_resolve = k.trust_auto_resolve
      BY <2>1 DEF Accepted, Worker
    <3>2. k.replay_prompt = None
      BY <2>1 DEF Fits
    <3>3. d = "sent" /\ e = "accepted" /\ (k.trust_gate_cleared => k.trust_auto_resolve \/ w \in A)
      BY <1>6, <2>1 DEF Fits
    <3> HIDE DEF e, r
    <3>4. QED BY <3>1, <3>2, <3>3 DEF Fits
  <2>2. CASE ~(screen.running /\ k.prompt_in_flight)
    <3>1. r = k
      BY <2>2 DEF Accepted
    <3>2. CASE k.prompt_in_flight
      <4>1. ~screen.ready
        BY <1>3, <3>1, <3>2 DEF BecomesReady, Fits
      <4>2. QED BY <2>2, <3>1, <3>2, <4>1
    <3>3. CASE ~k.prompt_in_flight
      <4>1. e = d
        BY <1>6, <3>3
      <4> HIDE DEF e, r
      <4>2. QED BY <3>1, <4>1
    <3>4. QED BY <3>2, <3>3
  <2>3. QED BY <2>1, <2>2
<1>4. ASSUME BecomesReady(r, screen)
      PROVE  Ready(r) \in Worker /\ Ready(r).cwd = k.cwd /\ Fits(Ready(r), e, w \in A)
  <2>1. Ready(r) \in Worker /\ Ready(r).cwd = k.cwd
    <3> DEFINE x == IF r.last_error = "TrustGate" THEN None ELSE r.last_error
    <3> HIDE DEF r
    <3>1. x \in WorkerFailureKinds \cup {None}
      BY <1>1 DEF Worker
    <3>2. Ready(r) = [r EXCEPT !.status = "ReadyForPrompt", !.prompt_in_flight = FALSE,
                               !.last_error = x]
      BY DEF Ready
    <3> HIDE DEF x
    <3>3. QED BY <1>1, <3>1, <3>2 DEF Worker, Statuses
  <2>2. /\ Ready(r).prompt_in_flight = FALSE /\ Ready(r).status = "ReadyForPrompt"
        /\ Ready(r).replay_prompt = k.replay_prompt /\ Ready(r).last_prompt = k.last_prompt
        /\ Ready(r).trust_gate_cleared = k.trust_gate_cleared
        /\ Ready(r).trust_auto_resolve = k.trust_auto_resolve
        /\ Ready(r).auto_recover = k.auto_recover
    BY DEF Ready, Accepted, Worker
  <2>3. k.replay_prompt # None => e = d
    BY DEF Fits
  <2> HIDE DEF e
  <2>5. e # "sent"
    BY <1>2, <1>4, <1>6 DEF BecomesReady, Fits
  <2> HIDE DEF r
  <2>4. QED BY <2>1, <2>2, <2>3, <2>5 DEF Fits
<1> HIDE DEF e, r
<1>5. QED BY <1>1, <1>2, <1>3, <1>4 DEF e, r

LEMMA ObserveProgressKeeps ==
  ASSUME WorkerInv, NEW w \in DOMAIN workers, NEW screen \in Screens,
         ObserveProgress(w, screen)
  PROVE  WorkerInv'
<1> DEFINE k == workers[w]
           t == AutoTrusted(k, screen)
           r == Accepted(t, screen)
           s == [worker_id |-> w, status |-> t.status,
                 trust_gate_cleared |-> t.trust_gate_cleared,
                 prompt_in_flight |-> t.prompt_in_flight]
           e == IF delivery[w] = "sent" /\ (screen.running \/ screen.ready)
                THEN "accepted" ELSE delivery[w]
<1>1. /\ w \in Workers /\ k \in Worker /\ Fits(k, delivery[w], w \in approved)
      /\ delivery \in [Workers -> Deliveries] /\ approved \subseteq Workers
  BY Registered
<1>2. /\ t \in Worker /\ Fits(t, delivery[w], w \in approved) /\ t.cwd = k.cwd
      /\ t.prompt_in_flight = k.prompt_in_flight
      /\ ~TrustAsked(k, screen) => t = k
  <2>1. ~BlockedOnTrust(k, screen)
    BY DEF ObserveProgress
  <2>2. QED BY <1>1, <2>1, AutoTrustedFits
<1>3. /\ r \in Worker /\ r.cwd = k.cwd
      /\ t.status = "ReadyForPrompt" => r.status = "ReadyForPrompt"
      /\ ~BecomesReady(r, screen) => Fits(r, e, w \in approved)
      /\ BecomesReady(r, screen) =>
           Ready(r) \in Worker /\ Ready(r).cwd = k.cwd /\ Fits(Ready(r), e, w \in approved)
  BY <1>2, CuesFit
<1>4. /\ delivery' = IF delivery[w] = "sent" /\ (screen.running \/ screen.ready)
                     THEN [delivery EXCEPT ![w] = "accepted"] ELSE delivery
      /\ approved' = approved
  BY DEF ObserveProgress
<1>5. /\ delivery' \in [Workers -> Deliveries] /\ delivery'[w] = e
      /\ \A v \in Workers : v # w => delivery'[v] = delivery[v]
  BY <1>1, <1>2, <1>4 DEF Deliveries
<1>6. CASE BecomesReady(r, screen)
  <2>1. Push(w, Ready(r))
    BY <1>6 DEF ObserveProgress
  <2> HIDE DEF k, t, r, e
  <2>2. QED BY <1>1, <1>3, <1>4, <1>5, <1>6, <2>1, PushStep DEF k
<1>7. CASE ~BecomesReady(r, screen) /\ TrustAsked(k, screen)
  <2>1. workers' = Put(workers, w, r) /\ file' = Put(file, r.cwd, s)
    BY <1>2, <1>3, <1>7 DEF ObserveProgress, Emit
  <2>2. s \in StateSnapshot /\ s.worker_id = w /\ s.status = t.status
    BY <1>1, <1>2 DEF StateSnapshot, Worker
  <2> HIDE DEF t, r, s, e
  <2>3. QED BY <1>1, <1>3, <1>4, <1>5, <1>7, <2>1, <2>2, WriteStep
<1>8. CASE ~BecomesReady(r, screen) /\ ~TrustAsked(k, screen)
  <2>1. workers' = Put(workers, w, r) /\ file' = file
    BY <1>8 DEF ObserveProgress
  <2>2. t = k
    BY <1>2, <1>8
  <2> HIDE DEF t, r, e
  <2>3. QED BY <1>1, <1>3, <1>4, <1>5, <1>8, <2>1, <2>2, QuietStep
<1>9. QED BY <1>6, <1>7, <1>8

LEMMA ResolveTrustKeeps ==
  ASSUME WorkerInv, NEW w \in DOMAIN workers, ResolveTrust(w)
  PROVE  WorkerInv'
<1> DEFINE k == [workers[w] EXCEPT !.trust_gate_cleared = TRUE, !.last_error = None,
                                   !.status = "Spawning"]
<1>1. k \in Worker /\ workers[w].cwd = k.cwd
  BY Registered DEF Worker, Statuses
<1>2. Push(w, k) /\ delivery' = delivery /\ approved' = approved \cup {w}
  BY DEF ResolveTrust
<1>3. Fits(k, delivery[w], w \in approved')
  BY <1>2, Registered DEF Fits, Worker
<1> HIDE DEF k
<1>4. QED BY <1>1, <1>2, <1>3, Registered, PushStep

LEMMA SendPromptKeeps ==
  ASSUME WorkerInv, NEW w \in DOMAIN workers, SendPrompt(w)
  PROVE  WorkerInv'
<1>1. PICK prompt \in Prompts \cup ({workers[w].replay_prompt} \ {None}) :
        Push(w, [workers[w] EXCEPT !.prompt_in_flight = TRUE, !.last_prompt = prompt,
                                   !.replay_prompt = None, !.last_error = None,
                                   !.status = "Running"])
  BY DEF SendPrompt
<1> DEFINE k == [workers[w] EXCEPT !.prompt_in_flight = TRUE, !.last_prompt = prompt,
                                   !.replay_prompt = None, !.last_error = None,
                                   !.status = "Running"]
<1>2. prompt \in Prompts /\ prompt # None
  BY NoneAssumption, Registered DEF Worker
<1>3. k \in Worker /\ workers[w].cwd = k.cwd
  BY <1>2, Registered DEF Worker, Statuses
<1>4. Fits(k, "sent", w \in approved)
  BY <1>2, Registered DEF Fits, Worker
<1>5. delivery' = [delivery EXCEPT ![w] = "sent"] /\ approved' = approved
  BY DEF SendPrompt
<1>6. /\ delivery' \in [Workers -> Deliveries] /\ delivery'[w] = "sent"
      /\ \A v \in Workers : v # w => delivery'[v] = delivery[v]
  BY <1>5, Registered DEF Deliveries
<1> HIDE DEF k
<1>7. Push(w, k)
  BY <1>1 DEF k
<1>8. QED BY <1>3, <1>4, <1>5, <1>6, <1>7, Registered, PushStep

LEMMA RestartKeeps ==
  ASSUME WorkerInv, NEW w \in DOMAIN workers, Restart(w)
  PROVE  WorkerInv'
<1> DEFINE k == [workers[w] EXCEPT !.status = "Spawning", !.trust_gate_cleared = FALSE,
                                   !.last_prompt = None, !.replay_prompt = None,
                                   !.last_error = None, !.prompt_in_flight = FALSE]
<1>1. k \in Worker /\ workers[w].cwd = k.cwd
  BY Registered DEF Worker, Statuses
<1>2. /\ Push(w, k) /\ delivery' = [delivery EXCEPT ![w] = "none"]
      /\ approved' = approved \ {w}
  BY DEF Restart
<1>3. Fits(k, "none", w \in approved')
  BY Registered DEF Fits, Worker
<1>4. /\ delivery' \in [Workers -> Deliveries] /\ delivery'[w] = "none"
      /\ \A v \in Workers : v # w => delivery'[v] = delivery[v]
  BY <1>2, Registered DEF Deliveries
<1> HIDE DEF k
<1>5. QED BY <1>1, <1>2, <1>3, <1>4, Registered, PushStep

LEMMA EndKeeps ==
  ASSUME WorkerInv, NEW w \in DOMAIN workers,
         Terminate(w) \/ CompletionFailed(w) \/ Completed(w)
  PROVE  WorkerInv'
<1> DEFINE k == workers[w]
           ended == [k EXCEPT !.status = "Finished", !.prompt_in_flight = FALSE]
           failed == [k EXCEPT !.last_error = "Provider", !.status = "Failed",
                               !.prompt_in_flight = FALSE]
           completed == [k EXCEPT !.last_error = None, !.status = "Finished",
                                  !.prompt_in_flight = FALSE]
<1>1. /\ ended \in Worker /\ failed \in Worker /\ completed \in Worker
      /\ ended.cwd = k.cwd /\ failed.cwd = k.cwd /\ completed.cwd = k.cwd
  BY Registered DEF Worker, Statuses, WorkerFailureKinds
<1>2. PICK e : e = IF delivery[w] = "sent" THEN "ended" ELSE delivery[w]
  OBVIOUS
<1>3. /\ Fits(ended, e, w \in approved)
      /\ Fits(failed, e, w \in approved)
      /\ Fits(completed, e, w \in approved)
  BY <1>2, Registered DEF Fits, Worker
<1>4. /\ Push(w, ended) \/ Push(w, failed) \/ Push(w, completed)
      /\ Ended(w) /\ approved' = approved
  BY DEF Terminate, CompletionFailed, Completed
<1>5. /\ delivery' \in [Workers -> Deliveries] /\ delivery'[w] = e
      /\ \A v \in Workers : v # w => delivery'[v] = delivery[v]
  BY <1>2, <1>4, Registered DEF Ended, Deliveries
<1> HIDE DEF ended, failed, completed
<1>6. QED BY <1>1, <1>3, <1>4, <1>5, Registered, PushStep

LEMMA NextWorkerInv == WorkerInv /\ [Next]_vars => WorkerInv'
<1> SUFFICES ASSUME WorkerInv, [Next]_vars PROVE WorkerInv'
  OBVIOUS
<1>1. ASSUME NEW w \in Workers, Create(w) PROVE WorkerInv'
  BY <1>1, CreateKeeps
<1>2. ASSUME NEW w \in DOMAIN workers, Observe(w) PROVE WorkerInv'
  BY <1>2, ObserveTrustRequiredKeeps, ObserveMisdeliveryKeeps, ObserveProgressKeeps DEF Observe
<1>3. ASSUME NEW w \in DOMAIN workers, ResolveTrust(w) PROVE WorkerInv'
  BY <1>3, ResolveTrustKeeps
<1>4. ASSUME NEW w \in DOMAIN workers, SendPrompt(w) PROVE WorkerInv'
  BY <1>4, SendPromptKeeps
<1>5. ASSUME NEW w \in DOMAIN workers, Restart(w) PROVE WorkerInv'
  BY <1>5, RestartKeeps
<1>6. ASSUME NEW w \in DOMAIN workers, Terminate(w) \/ CompletionFailed(w) \/ Completed(w)
      PROVE  WorkerInv'
  BY <1>6, EndKeeps
<1>7. CASE UNCHANGED vars
  BY <1>7 DEF vars, WorkerInv, TypeOK, PromptIsSettled, InFlightIsExclusive, ReplayIsOfLostPrompt,
     BlockedIsExplained, TrustIsGranted, ReadyFileIsTrue
<1>8. QED BY <1>1, <1>2, <1>3, <1>4, <1>5, <1>6, <1>7 DEF Next

\* However many workers share directories, and whatever their screens show in whatever
\* order: the whole invariant.
THEOREM WorkersHold == Spec => []WorkerInv
<1>1. QED BY InitWorkerInv, NextWorkerInv, PTL DEF Spec

\* send_prompt follows a prompt that nothing was heard of only where the supervisor ended the
\* work or restarted the worker.
THEOREM PromptsSettle == Spec => []PromptIsSettled
<1>1. WorkerInv => PromptIsSettled
  BY DEF WorkerInv
<1>2. QED BY <1>1, WorkersHold, PTL

\* send_prompt never repeats, unasked, a prompt the agent has taken.
THEOREM ReplayHolds == Spec => []ReplayIsOfLostPrompt
<1>1. WorkerInv => ReplayIsOfLostPrompt
  BY DEF WorkerInv
<1>2. QED BY <1>1, WorkersHold, PTL

\* Trust is given by the allowlist or to the worker as last started.
THEOREM TrustHolds == Spec => []TrustIsGranted
<1>1. WorkerInv => TrustIsGranted
  BY DEF WorkerInv
<1>2. QED BY <1>1, WorkersHold, PTL

\* A state file that says ready is right.
THEOREM ReadyFileHolds == Spec => []ReadyFileIsTrue
<1>1. WorkerInv => ReadyFileIsTrue
  BY DEF WorkerInv
<1>2. QED BY <1>1, WorkersHold, PTL
=============================================================================
