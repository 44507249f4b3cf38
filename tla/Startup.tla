------------------------------ MODULE Startup ------------------------------
(***************************************************************************)
(* How the two services of amis-ai start on one database: main of          *)
(* backend/src/main.rs (tables, seeds, port) for any number of backends,   *)
(* and lifespan of agent/src/main.py with init_knowledge_base.  A backend  *)
(* may stop between any two statements and be started again.               *)
(***************************************************************************)
EXTENDS Naturals, Sequences, FiniteSets

CONSTANTS Backends,     \* backend processes: a new one may start before the old one stopped
          MaxStops      \* bound: stops of backends
ASSUME StartupAssumption == IsFiniteSet(Backends) /\ MaxStops \in Nat

VARIABLES tables,       \* tables and columns that exist
          admins,       \* rows of users made by seed_users
          providers,    \* rows of llm_providers, in order: the tasks configured for each
          backend,      \* backend -> where main is, and the provider it seeds
          stops,        \* backends stopped so far
          agent,        \* the agent: off, serving; what init_knowledge_base found
          official      \* official rows of amis_templates
startupVars == <<tables, admins, providers, backend, stops, agent, official>>

Tasks == <<"generation", "embedding", "chat">>
Ddl == <<"users", "llm_providers", "model_configs", "generation_history",
         "amis_templates", "embedding">>
References == [t \in {Ddl[i] : i \in 1..6} |->
                 CASE t = "model_configs" -> {"llm_providers"}
                   [] t = "generation_history" -> {"users"}
                   [] t = "amis_templates" -> {"generation_history"}
                   [] t = "embedding" -> {"amis_templates"}
                   [] OTHER -> {}]
\* Columns without a default that may not be null, and those the loader writes.
NotNull == {"title", "amis_json", "source", "created_at"}
Given == {"title", "description", "amis_json", "category", "source", "quality_score"}

StartupInit ==
  /\ tables = {} /\ admins = 0 /\ providers = <<>> /\ stops = 0 /\ official = 0
  /\ backend = [b \in Backends |-> [at |-> "off", step |-> 0]]
  /\ agent = [at |-> "off", saw |-> {}]

Goto(b, at, step) == backend' = [backend EXCEPT ![b] = [at |-> at, step |-> step]]
At(b, at) == backend[b].at = at

Launch(b) ==
  /\ At(b, "off")
  /\ Goto(b, "ddl", 1)
  /\ UNCHANGED <<tables, admins, providers, stops, agent, official>>

\* The result of each DDL statement is dropped (let _ =): a table that exists
\* already, or a lost connection, changes nothing and main goes on.
CreateNext(b) ==
  /\ At(b, "ddl")
  /\ LET t == Ddl[backend[b].step] IN
       tables' \in {tables} \cup {tables \cup {x} : x \in {y \in {t} : References[y] \subseteq tables}}
  /\ IF backend[b].step < Len(Ddl) THEN Goto(b, "ddl", backend[b].step + 1)
                                   ELSE Goto(b, "countUsers", 0)
  /\ UNCHANGED <<admins, providers, stops, agent, official>>

\* A count or an insert on a missing table panics: unwrap.
Stopped(b) == Goto(b, "off", 0) /\ UNCHANGED <<tables, admins, providers, agent, official>>
Needs(b, at, t) == At(b, at) /\ t \in tables
MissingTable(b) ==
  /\ \/ At(b, "countUsers") /\ "users" \notin tables
     \/ At(b, "countProviders") /\ "llm_providers" \notin tables
     \/ At(b, "seedConfigs") /\ "model_configs" \notin tables
  /\ Stopped(b)
  /\ stops < MaxStops /\ stops' = stops + 1

\* Faulty variant: the count decides nothing.
SeedUsersAlways(b) ==
  /\ Needs(b, "countUsers", "users")
  /\ admins' = admins + 1 /\ Goto(b, "countProviders", 0)
  /\ UNCHANGED <<tables, providers, stops, agent, official>>
SeedUsers(b) ==
  /\ \/ /\ Needs(b, "countUsers", "users")
        /\ Goto(b, IF admins = 0 THEN "seedUser" ELSE "countProviders", 0)
        /\ UNCHANGED admins
     \/ /\ At(b, "seedUser")
        /\ admins' = admins + 1
        /\ Goto(b, "countProviders", 0)
  /\ UNCHANGED <<tables, providers, stops, agent, official>>

\* Faulty variant: every start seeds.
CountNothing(b) ==
  /\ Needs(b, "countProviders", "llm_providers")
  /\ Goto(b, "seedProvider", 0)
  /\ UNCHANGED <<tables, admins, providers, stops, agent, official>>
CountProviders(b) ==
  /\ Needs(b, "countProviders", "llm_providers")
  /\ Goto(b, IF providers = <<>> THEN "seedProvider" ELSE "bind", 0)
  /\ UNCHANGED <<tables, admins, providers, stops, agent, official>>

SeedProvider(b) ==
  /\ At(b, "seedProvider")
  /\ providers' = Append(providers, 0)
  /\ Goto(b, "seedConfigs", Len(providers) + 1)
  /\ UNCHANGED <<tables, admins, stops, agent, official>>

\* Faulty variant: one configuration is enough.
SeedOneConfig(b) ==
  /\ Needs(b, "seedConfigs", "model_configs")
  /\ LET p == backend[b].step IN
       /\ providers' = [providers EXCEPT ![p] = @ + 1]
       /\ Goto(b, "bind", p)
  /\ UNCHANGED <<tables, admins, stops, agent, official>>
SeedConfig(b) ==
  /\ Needs(b, "seedConfigs", "model_configs")
  /\ LET p == backend[b].step IN
       /\ providers' = [providers EXCEPT ![p] = @ + 1]
       /\ Goto(b, IF providers'[p] = Len(Tasks) THEN "bind" ELSE "seedConfigs", p)
  /\ UNCHANGED <<tables, admins, stops, agent, official>>

\* The port is taken after the seeds: a second backend seeds and then panics.
Bind(b) ==
  /\ At(b, "bind") /\ \A c \in Backends : ~At(c, "serving")
  /\ Goto(b, "serving", 0)
  /\ UNCHANGED <<tables, admins, providers, stops, agent, official>>

Stop(b) ==
  /\ ~At(b, "off")
  /\ Stopped(b)
  /\ stops < MaxStops /\ stops' = stops + 1

\* lifespan: init_knowledge_base runs once; whatever it raises is printed.
StartAgent ==
  /\ agent.at = "off"
  /\ agent' = [at |-> "serving", saw |-> tables]
  /\ official' = IF "amis_templates" \in tables /\ official = 0 /\ NotNull \subseteq Given
                 THEN 1 ELSE official
  /\ UNCHANGED <<tables, admins, providers, backend, stops>>
StopAgent ==
  /\ agent.at = "serving"
  /\ agent' = [at |-> "off", saw |-> {}]
  /\ UNCHANGED <<tables, admins, providers, backend, stops, official>>

StartupNext ==
  \/ \E b \in Backends : \/ Launch(b) \/ CreateNext(b) \/ MissingTable(b) \/ SeedUsers(b)
                         \/ CountProviders(b) \/ SeedProvider(b) \/ SeedConfig(b)
                         \/ Bind(b) \/ Stop(b)
  \/ StartAgent \/ StopAgent
StartupSpec == StartupInit /\ [][StartupNext]_startupVars

(***************************************************************************)
(* Properties                                                              *)
(***************************************************************************)
StartupTypeOK ==
  /\ tables \subseteq {Ddl[i] : i \in 1..6}
  /\ admins \in 0..Cardinality(Backends)
  /\ providers \in Seq(0..Len(Tasks))
  /\ \A b \in Backends : backend[b].at = "seedConfigs" => backend[b].step \in 1..Len(providers)

Incomplete == {p \in 1..Len(providers) : providers[p] < Len(Tasks)}

\* However often backends are stopped and started again, seed_llm_configs makes
\* at most one provider for each backend that runs at the same time: a later
\* count finds one.  Two of them are two active configurations of every task.
SeedsAreBounded ==
  Len(providers) + Cardinality({b \in Backends : At(b, "seedProvider")})
    <= Cardinality(Backends)

\* A provider that lacks configurations is being seeded by a backend, or a stop
\* cut its seeding short: no start that ends by itself leaves the seeds partial.
IncompleteIsCutShort ==
  Cardinality({p \in Incomplete : ~\E b \in Backends :
                   At(b, "seedConfigs") /\ backend[b].step = p}) <= stops

\* loader.py:215 says that init_knowledge_base writes the built-in examples to
\* the database: an agent that started when the table existed leaves them there.
KnowledgeBaseIsLoaded ==
  agent.at = "serving" /\ "amis_templates" \in agent.saw => official > 0
=============================================================================
