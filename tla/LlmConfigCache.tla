--------------------------- MODULE LlmConfigCache ---------------------------
(***************************************************************************)
(* The agent's cache of resolved LLM configurations                        *)
(* (agent/src/services/llm_client.py) against the tables the backend       *)
(* resolves them from (backend/src/handlers/llm_admin.rs).                 *)
(*                                                                         *)
(* Every coroutine of the agent that needs a configuration calls           *)
(* get_llm_config: a cached entry younger than CACHE_TTL is returned at    *)
(* once; otherwise the backend is asked, which reads two rows one after    *)
(* the other, and the answer is stored with the time taken BEFORE the      *)
(* request was sent.  Administrators change rows concurrently, and the     *)
(* backend asks the agent to clear its cache afterwards, once, without     *)
(* retry.                                                                  *)
(*                                                                         *)
(* A row's contents do not matter here, only which of its versions was     *)
(* read: log[r] is the sequence of times at which row r was committed      *)
(* again, and version v of r is its contents after v commits.  A version   *)
(* may be "no active row" or "provider switched off", which the backend    *)
(* answers with the configuration of its environment.  A provider row that *)
(* cannot be read is answered with the same configuration and the same     *)
(* status, so the agent caches it like any other.                          *)
(***************************************************************************)
EXTENDS Naturals, Sequences

CONSTANTS
  Callers,      \* coroutines of the agent that call get_llm_config
  TaskTypes,    \* task types: the keys of _config_cache
  Provider,     \* the provider row the configurations point to
  GetsPerTask,  \* how often a request of each task type calls get_llm_config
  CACHE_TTL,    \* llm_client.py: CACHE_TTL
  Lossy,        \* can a clear request, or the step that sends it, be lost?
  MaxTime,      \* bound on the clock
  MaxWrites     \* bound on the commits of one row

ASSUME TTLAssumption == CACHE_TTL \in Nat \ {0}
ASSUME ProviderAssumption == Provider \notin TaskTypes
ASSUME GetsAssumption == GetsPerTask \in [TaskTypes -> Nat \ {0}]
ASSUME LossyAssumption == Lossy \in BOOLEAN
ASSUME BoundsAssumption == MaxTime \in Nat /\ MaxWrites \in Nat

VARIABLES
  now,          \* time.time()
  log,          \* log[r]: commit times of row r
  config_cache, \* _config_cache: a set of entries, at most one per task type
  clears,       \* POST /internal/cache/clear requests under way
  pc,           \* where each caller is in get_llm_config
  task,         \* the task type of the caller's request
  fetch,        \* the caller's fetch: its local `now` and the rows read so far
  used          \* what get_llm_config returned to the caller's request so far

vars == <<now, log, config_cache, clears, pc, task, fetch, used>>

-----------------------------------------------------------------------------
Rows == TaskTypes \cup {Provider}

Version(r) == Len(log[r])

\* What came of reading the llm_providers row: a version of it, or only the
\* time at which the read failed.
Reads == [failed : BOOLEAN, of : Nat]
VersionRead(v) == [failed |-> FALSE, of |-> v]
ReadFailed(t) == [failed |-> TRUE, of |-> t]

\* A resolved configuration: a version of the model_configs row, and what came
\* of reading the llm_providers row.
Configs == [config : Nat, provider : Reads]

\* The locals of a fetch; NoFetch while none is under way.
Fetches == [started : Nat, rows : Configs]
NoFetch == [started |-> 0, rows |-> [config |-> 0, provider |-> VersionRead(0)]]

Entries == [task : TaskTypes, config : Configs, ts : Nat]

\* What a call returned, when, and whether it came from the cache; `since` is
\* the time that entitles the answer: the entry's ts or the call's own `now`.
Answers == [config : Configs, at : Nat, since : Nat, hit : BOOLEAN]

\* Version v of row r was still the current one at time t or later.
CurrentAtOrAfter(r, v, t) ==
  v = Version(r) \/ (v < Version(r) /\ log[r][v + 1] >= t)

\* The provider row as read was current at time t or later; the environment's
\* configuration in its place stems from a read that failed at t or later.
ReadAtOrAfter(p, t) ==
  IF p.failed THEN p.of >= t ELSE CurrentAtOrAfter(Provider, p.of, t)

FreshSince(tt, c, t) ==
  CurrentAtOrAfter(tt, c.config, t) /\ ReadAtOrAfter(c.provider, t)

\* Faulty variant: an entry is good up to and including its last second.
ValidInclusive(e, tt) == e.task = tt /\ now - e.ts <= CACHE_TTL

\* `if now - ts < CACHE_TTL` for an entry of this task type.
Valid(e, tt) == e.task = tt /\ now - e.ts < CACHE_TTL

Init ==
  /\ now = 0
  /\ log = [r \in Rows |-> <<>>]
  /\ config_cache = {}
  /\ clears = 0
  /\ pc = [c \in Callers |-> "idle"]
  /\ task \in [Callers -> TaskTypes]
  /\ fetch = [c \in Callers |-> NoFetch]
  /\ used = [c \in Callers |-> <<>>]

-----------------------------------------------------------------------------
(* Backend: a committed change, and the clear request that follows it.     *)

\* update_provider, create/update/delete_model_config: the statement commits,
\* then notify_agent_cache_clear posts to the agent.
Commit(r) ==
  /\ Version(r) < MaxWrites
  /\ log' = [log EXCEPT ![r] = Append(@, now)]
  /\ clears' = clears + 1
  /\ UNCHANGED <<now, config_cache, pc, task, fetch, used>>

\* A committed change nobody is told of: the handler deactivated the active
\* configuration and its own insert or update then failed, or it was dropped
\* between the commit and the notification.
CommitSilently(r) ==
  /\ Lossy
  /\ Version(r) < MaxWrites
  /\ log' = [log EXCEPT ![r] = Append(@, now)]
  /\ UNCHANGED <<now, config_cache, clears, pc, task, fetch, used>>

\* The post fails or times out before the agent handles it; its result is
\* discarded.
LoseClear ==
  /\ Lossy
  /\ clears > 0
  /\ clears' = clears - 1
  /\ UNCHANGED <<now, log, config_cache, pc, task, fetch, used>>

\* POST /internal/cache/clear: clear_config_cache empties the cache.
ClearConfigCache ==
  /\ clears > 0
  /\ clears' = clears - 1
  /\ config_cache' = {}
  /\ UNCHANGED <<now, log, pc, task, fetch, used>>

-----------------------------------------------------------------------------
(* Agent: get_llm_config.                                                  *)

\* A request arrives whose handler will call get_llm_config(tt).
StartRequest(c, tt) ==
  /\ pc[c] = "idle"
  /\ pc' = [pc EXCEPT ![c] = "get"]
  /\ task' = [task EXCEPT ![c] = tt]
  /\ UNCHANGED <<now, log, config_cache, clears, fetch, used>>

\* get_llm_config returned cfg: the request goes on to its next call, if any.
Return(c, cfg, since, hit) ==
  /\ used' = [used EXCEPT ![c] = Append(@, [config |-> cfg, at |-> now,
                                            since |-> since, hit |-> hit])]
  /\ pc' = [pc EXCEPT ![c] =
              IF Len(used[c]) + 1 < GetsPerTask[task[c]] THEN "get" ELSE "served"]

GetHit(c) ==
  /\ pc[c] = "get"
  /\ \E e \in config_cache :
       Valid(e, task[c]) /\ Return(c, e.config, e.ts, TRUE)
  /\ UNCHANGED <<now, log, config_cache, clears, task, fetch>>

GetMiss(c) ==
  /\ pc[c] = "get"
  /\ ~ \E e \in config_cache : Valid(e, task[c])
  /\ fetch' = [fetch EXCEPT ![c].started = now]
  /\ pc' = [pc EXCEPT ![c] = "resolve"]
  /\ UNCHANGED <<now, log, config_cache, clears, task, used>>

\* resolve_llm_config in the backend reads the active model_configs row ...
ResolveConfigRow(c) ==
  /\ pc[c] = "resolve"
  /\ fetch' = [fetch EXCEPT ![c].rows.config = Version(task[c])]
  /\ pc' = [pc EXCEPT ![c] = "provider"]
  /\ UNCHANGED <<now, log, config_cache, clears, task, used>>

\* ... and then, in a statement of its own, the llm_providers row.  When that
\* statement fails the answer is fallback_config, not an error.
ResolveProviderRow(c) ==
  /\ pc[c] = "provider"
  /\ \E p \in {VersionRead(Version(Provider)), ReadFailed(now)} :
       fetch' = [fetch EXCEPT ![c].rows.provider = p]
  /\ pc' = [pc EXCEPT ![c] = "reply"]
  /\ UNCHANGED <<now, log, config_cache, clears, task, used>>

\* The entry for a task type is replaced as a whole, stamped with ts.
Stored(tt, cfg, ts) ==
  {e \in config_cache : e.task # tt} \cup {[task |-> tt, config |-> cfg, ts |-> ts]}

\* Faulty variant: stored with the time at which the answer arrived.
FetchDoneStampedLate(c) ==
  /\ pc[c] = "reply"
  /\ config_cache' = Stored(task[c], fetch[c].rows, now)
  /\ Return(c, fetch[c].rows, fetch[c].started, FALSE)
  /\ fetch' = [fetch EXCEPT ![c] = NoFetch]
  /\ UNCHANGED <<now, log, clears, task>>

\* The answer arrives: stored with the `now` of the start of the call.
FetchDone(c) ==
  /\ pc[c] = "reply"
  /\ config_cache' = Stored(task[c], fetch[c].rows, fetch[c].started)
  /\ Return(c, fetch[c].rows, fetch[c].started, FALSE)
  /\ fetch' = [fetch EXCEPT ![c] = NoFetch]
  /\ UNCHANGED <<now, log, clears, task>>

\* Timeout, transport error or error status: get_llm_config raises, the request
\* fails, the cache keeps what it had.
FetchFail(c) ==
  /\ pc[c] \in {"resolve", "provider", "reply"}
  /\ pc' = [pc EXCEPT ![c] = "idle"]
  /\ used' = [used EXCEPT ![c] = <<>>]
  /\ fetch' = [fetch EXCEPT ![c] = NoFetch]
  /\ UNCHANGED <<now, log, config_cache, clears, task>>

FinishRequest(c) ==
  /\ pc[c] = "served"
  /\ pc' = [pc EXCEPT ![c] = "idle"]
  /\ used' = [used EXCEPT ![c] = <<>>]
  /\ UNCHANGED <<now, log, config_cache, clears, task, fetch>>

\* The agent process restarts: its cache and its coroutines are gone.
AgentRestart ==
  /\ config_cache' = {}
  /\ pc' = [c \in Callers |-> "idle"]
  /\ used' = [c \in Callers |-> <<>>]
  /\ fetch' = [c \in Callers |-> NoFetch]
  /\ UNCHANGED <<now, log, clears, task>>

Tick ==
  /\ now < MaxTime
  /\ now' = now + 1
  /\ UNCHANGED <<log, config_cache, clears, pc, task, fetch, used>>

-----------------------------------------------------------------------------
CallerStep(c) ==
  \/ GetHit(c)
  \/ GetMiss(c)
  \/ ResolveConfigRow(c)
  \/ ResolveProviderRow(c)
  \/ FetchDone(c)
  \/ FetchFail(c)
  \/ FinishRequest(c)

Next ==
  \/ \E r \in Rows : Commit(r) \/ CommitSilently(r)
  \/ LoseClear
  \/ ClearConfigCache
  \/ \E c \in Callers : (\E tt \in TaskTypes : StartRequest(c, tt)) \/ CallerStep(c)
  \/ AgentRestart
  \/ Tick

Spec == Init /\ [][Next]_vars

-----------------------------------------------------------------------------
(* Properties.                                                             *)

TypeOK ==
  /\ now \in Nat
  /\ log \in [Rows -> Seq(Nat)]
  /\ config_cache \subseteq Entries
  /\ \A e, f \in config_cache : e.task = f.task => e = f
  /\ clears \in Nat
  /\ pc \in [Callers -> {"idle", "get", "resolve", "provider", "reply", "served"}]
  /\ task \in [Callers -> TaskTypes]
  /\ fetch \in [Callers -> Fetches]
  /\ used \in [Callers -> Seq(Answers)]

\* Every answer of caller c's request was still current at its stamp or later,
\* and one from the cache was stamped less than CACHE_TTL before it was given.
AnswersFresh(c) ==
  \A i \in 1..Len(used[c]) :
    LET a == used[c][i] IN
      /\ FreshSince(task[c], a.config, a.since)
      /\ a.hit => a.at - a.since < CACHE_TTL

\* Whatever clears are lost, whatever fills are in flight while a row changes:
\* a configuration served from the cache was, row by row, still current less
\* than CACHE_TTL before it was served, and one fetched by the call itself was
\* current after the call began.  Where the environment stands in for a provider
\* row that could not be read, the read failed within the same time: one failed
\* read is answered from the cache for CACHE_TTL at most, however soon the
\* database recovers (llm_client.py: get_llm_config, resolve_llm_config).
BoundedStaleness == \A c \in Callers : AnswersFresh(c)

\* What makes BoundedStaleness inductive: what is stored, what is being fetched
\* and what was returned was current at or after its stamp, no stamp lies in
\* the future, and only a request in progress holds answers.
EntriesFresh ==
  \A e \in config_cache : e.ts <= now /\ FreshSince(e.task, e.config, e.ts)

FetchFresh(c) ==
  /\ fetch[c].started <= now
  /\ pc[c] \in {"provider", "reply"} =>
       CurrentAtOrAfter(task[c], fetch[c].rows.config, fetch[c].started)
  /\ pc[c] = "reply" => ReadAtOrAfter(fetch[c].rows.provider, fetch[c].started)

AnswersStamped(c) ==
  \A i \in 1..Len(used[c]) :
    used[c][i].since <= used[c][i].at /\ used[c][i].at <= now

CallerInv(c) ==
  /\ FetchFresh(c)
  /\ AnswersStamped(c)
  /\ AnswersFresh(c)
  /\ pc[c] = "idle" => used[c] = <<>>

IInv == TypeOK /\ EntriesFresh /\ \A c \in Callers : CallerInv(c)
=============================================================================
