----------------------------- MODULE AgentPool -----------------------------
(***************************************************************************)
(* The connection pool of the agent (agent/src/services/db.py): get_pool   *)
(* tests _pool, awaits create_pool and assigns; the lifespan of main.py    *)
(* calls it first, requests call it once the agent serves, close_pool runs *)
(* after the last request.                                                 *)
(***************************************************************************)
EXTENDS Naturals, FiniteSets

CONSTANTS Callers,      \* requests that may call get_pool at the same time
          MaxPools      \* bound: pools ever created
ASSUME AgentPoolAssumption == MaxPools \in Nat

VARIABLES life,         \* of the process: starting, serving, closing, stopped
          pool,         \* the global _pool, 0 for None
          created,      \* pools created so far: they are numbered
          openPools,    \* pools that are not closed
          caller,       \* caller -> idle, creating, extension
          warm          \* the lifespan's own call got a pool
poolVars == <<life, pool, created, openPools, caller, warm>>

Lifespan == "lifespan"
Everyone == Callers \cup {Lifespan}

PoolInit ==
  /\ life = "starting" /\ pool = 0 /\ created = 0 /\ openPools = {} /\ warm = FALSE
  /\ caller = [c \in Everyone |-> "idle"]

MayCall(c) == IF c = Lifespan THEN life = "starting" ELSE life = "serving"
Becomes(c, at) == caller' = [caller EXCEPT ![c] = at]

\* The caller goes on: for the lifespan that is the end of the start, whether
\* init_knowledge_base succeeded or raised.
Return(c, ok) ==
  /\ Becomes(c, "idle")
  /\ IF c = Lifespan THEN life' = "serving" /\ warm' = ok ELSE UNCHANGED <<life, warm>>

GetPool(c) ==
  /\ MayCall(c) /\ caller[c] = "idle" /\ pool = 0
  /\ Becomes(c, "creating")
  /\ UNCHANGED <<life, pool, created, openPools, warm>>

\* Faulty variant: the new pool is not kept.
CreatePoolUnkept(c) ==
  /\ caller[c] = "creating" /\ created < MaxPools
  /\ created' = created + 1
  /\ openPools' = openPools \cup {created'}
  /\ Becomes(c, "extension")
  /\ UNCHANGED <<life, pool, warm>>
CreatePool(c) ==
  /\ caller[c] = "creating" /\ created < MaxPools
  /\ created' = created + 1
  /\ pool' = created' /\ openPools' = openPools \cup {created'}
  /\ Becomes(c, "extension")
  /\ UNCHANGED <<life, warm>>

\* The database does not answer: create_pool raises, _pool stays as it is.
CreateFails(c) ==
  /\ caller[c] = "creating"
  /\ Return(c, FALSE)
  /\ UNCHANGED <<pool, created, openPools>>

\* CREATE EXTENSION through the new pool; it may raise, the pool is there.
Extend(c) ==
  /\ caller[c] = "extension"
  /\ Return(c, TRUE)
  /\ UNCHANGED <<pool, created, openPools>>

\* The server shuts down when no request is under way; close_pool.
Shutdown ==
  /\ life = "serving" /\ \A c \in Everyone : caller[c] = "idle"
  /\ life' = "stopped"
  /\ openPools' = openPools \ {pool} /\ pool' = 0
  /\ UNCHANGED <<created, caller, warm>>

PoolNext ==
  \/ \E c \in Everyone : GetPool(c) \/ CreatePool(c) \/ CreateFails(c) \/ Extend(c)
  \/ Shutdown
PoolSpec == PoolInit /\ [][PoolNext]_poolVars

PoolTypeOK ==
  /\ life \in {"starting", "serving", "stopped"} /\ warm \in BOOLEAN
  /\ created \in Nat /\ pool \in 0..created /\ openPools \subseteq 1..created
  /\ caller \in [Everyone -> {"idle", "creating", "extension"}]

\* Two first callers make two pools only when the start itself got none: an
\* agent that found its database keeps one pool, whoever calls, and closes it.
WarmAgentHasOnePool ==
  warm => openPools = (IF life = "stopped" THEN {} ELSE {pool})
=============================================================================
