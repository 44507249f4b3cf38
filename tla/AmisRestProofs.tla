--------------------------- MODULE AmisRestProofs ---------------------------
(***************************************************************************)
(* Proofs about the chat page, for any number of generations, and about the*)
(* smaller parts of amis-ai, for any number of backends, callers, requests,*)
(* tabs and names.                                                         *)
(***************************************************************************)
EXTENDS MCAmisRest, FiniteSetTheorems, TLAPS

(***************************************************************************)
(* AgentPool                                                               *)
(***************************************************************************)
\* What the start leaves to the requests: only the lifespan creates a pool
\* while the process starts, and requests create one only when it got none.
PoolInv ==
  /\ PoolTypeOK /\ WarmAgentHasOnePool
  /\ life = "starting" => ~warm /\ \A c \in Callers \ {Lifespan} : caller[c] = "idle"
  /\ life # "starting" => caller[Lifespan] = "idle"
  /\ life = "starting" => openPools = (IF pool = 0 THEN {} ELSE {pool})
  /\ caller[Lifespan] = "creating" => pool = 0
  /\ caller[Lifespan] = "extension" => pool # 0
  /\ life = "serving" /\ warm => pool # 0 /\ \A c \in Everyone : caller[c] # "creating"
  /\ life = "stopped" => pool = 0 /\ \A c \in Everyone : caller[c] = "idle"

LEMMA PoolInitInv == PoolInit => PoolInv
<1> SUFFICES ASSUME PoolInit PROVE PoolInv
  OBVIOUS
<1>1. created \in Nat /\ pool \in 0..created /\ openPools \subseteq 1..created
  BY DEF PoolInit
<1>2. /\ warm = FALSE /\ life = "starting" /\ openPools = {} /\ pool = 0
      /\ caller = [c \in Everyone |-> "idle"] /\ Lifespan \in Everyone
  BY DEF PoolInit, Everyone
<1>3. QED
  BY <1>1, <1>2 DEF PoolInv, PoolTypeOK, WarmAgentHasOnePool, Everyone

LEMMA PoolNextInv == PoolInv /\ [PoolNext]_poolVars => PoolInv'
<1> SUFFICES ASSUME PoolInv, [PoolNext]_poolVars PROVE PoolInv'
  OBVIOUS
<1> USE DEF PoolInv, PoolTypeOK, WarmAgentHasOnePool, Everyone, Becomes
<1>1. ASSUME NEW c \in Everyone, GetPool(c) PROVE PoolInv'
  BY <1>1 DEF GetPool, MayCall
<1>2. ASSUME NEW c \in Everyone, CreatePool(c) PROVE PoolInv'
  <2>1. created' \in Nat /\ created' = created + 1 /\ pool' = created' /\ created \in Nat
    BY <1>2 DEF CreatePool
  <2>2. CASE c = Lifespan
    <3>1. life = "starting" /\ caller[c] = "creating"
      BY <1>2, <2>2 DEF CreatePool
    <3>2. /\ caller' = [caller EXCEPT ![c] = "extension"] /\ warm' = warm /\ life' = life
          /\ openPools' = openPools \cup {created'}
      BY <1>2 DEF CreatePool
    <3>a. openPools = {}
      BY <2>2, <3>1
    <3>3. openPools' = {pool'} /\ pool' # 0
      BY <2>1, <3>2, <3>a
    <3>4. PoolTypeOK'
      BY <2>1, <3>2
    <3>5. QED BY <2>1, <2>2, <3>1, <3>2, <3>3, <3>4
  <2>3. CASE c # Lifespan
    <3>1. life = "serving" /\ caller[c] = "creating"
      BY <1>2, <2>3 DEF CreatePool
    <3>2. /\ caller' = [caller EXCEPT ![c] = "extension"] /\ warm' = warm /\ life' = life
          /\ openPools' = openPools \cup {created'}
      BY <1>2 DEF CreatePool
    <3>3. warm = FALSE
      BY <3>1
    <3>4. PoolTypeOK'
      BY <2>1, <3>2
    <3>5. QED BY <2>1, <2>3, <3>1, <3>2, <3>3, <3>4
  <2>4. QED BY <2>2, <2>3
<1>3. ASSUME NEW c \in Everyone, CreateFails(c) PROVE PoolInv'
  BY <1>3 DEF CreateFails, Return
<1>4. ASSUME NEW c \in Everyone, Extend(c) PROVE PoolInv'
  BY <1>4 DEF Extend, Return
<1>5. CASE Shutdown
  BY <1>5 DEF Shutdown
<1>6. CASE UNCHANGED poolVars
  BY <1>6 DEF poolVars
<1>7. QED BY <1>1, <1>2, <1>3, <1>4, <1>5, <1>6 DEF PoolNext

\* db.py, get_pool: an agent whose start reached the database keeps one pool
\* and closes it, however many requests call at once.
THEOREM PoolIsOne == PoolSpec => []WarmAgentHasOnePool
<1>1. PoolInv => WarmAgentHasOnePool
  BY DEF PoolInv
<1>2. QED BY PoolInitInv, PoolNextInv, <1>1, PTL DEF PoolSpec

(***************************************************************************)
(* Accounts                                                                *)
(***************************************************************************)
\* A request that is under way has a name, and the browser was signed out by
\* one of its tabs.
AccountsInv ==
  /\ AccountsTypeOK /\ SignedOutByAnother
  /\ \A r \in Requests : request[r].at # "idle" => request[r].name \in Names

LEMMA AccountsInitInv == AccountsInit => AccountsInv
BY DEF AccountsInit, AccountsInv, AccountsTypeOK, SignedOutByAnother, Idle

LEMMA AccountsNextInv == AccountsInv /\ [AccountsNext]_accountVars => AccountsInv'
<1> SUFFICES ASSUME AccountsInv, [AccountsNext]_accountVars PROVE AccountsInv'
  OBVIOUS
<1> USE AccountsAssumption DEF AccountsInv, AccountsTypeOK, SignedOutByAnother
<1>1. ASSUME NEW r \in Requests, NEW t \in Tabs, NEW n \in Names,
             NEW at \in {"inserting", "conflict", "granted", "unauthorized"}, Send(r, t, at, n)
      PROVE  AccountsInv'
  BY <1>1 DEF Send
<1>2. ASSUME NEW r \in Requests, Insert(r) PROVE AccountsInv'
  <2>1. users' \in Seq(Names)
    BY <1>2 DEF Insert
  <2>2. QED BY <1>2, <2>1 DEF Insert, Step
<1>3. ASSUME NEW r \in Requests, Granted(r) PROVE AccountsInv'
  BY <1>3 DEF Granted, Answered, Free, Idle
<1>4. ASSUME NEW r \in Requests, Unauthorized(r) PROVE AccountsInv'
  BY <1>4 DEF Unauthorized, Answered, Free, Idle
<1>5. ASSUME NEW r \in Requests, Unheard(r) PROVE AccountsInv'
  <2>1. /\ request' = [request EXCEPT ![r] = [at |-> "idle", name |-> None, tab |-> None]]
        /\ UNCHANGED <<users, storage, memory>>
    BY <1>5 DEF Unheard, Answered, Free, Idle
  <2>2. QED BY <2>1
<1>6. ASSUME NEW t \in Tabs, LogOut(t) PROVE AccountsInv'
  BY <1>6 DEF LogOut
<1>7. ASSUME NEW t \in Tabs, Open(t) PROVE AccountsInv'
  BY <1>7 DEF Open
<1>8. CASE UNCHANGED accountVars
  BY <1>8 DEF accountVars
<1>9. QED
  BY <1>1, <1>2, <1>3, <1>4, <1>5, <1>6, <1>7, <1>8 DEF AccountsNext, Lookup, LoginRequest

\* api.ts, the 401 interceptor: when the shared storage holds no token, a tab
\* that still shows the application was signed out by another one.
THEOREM SignOutHasOrigin == AccountsSpec => []SignedOutByAnother
<1>1. AccountsInv => SignedOutByAnother
  BY DEF AccountsInv
<1>2. QED BY AccountsInitInv, AccountsNextInv, <1>1, PTL DEF AccountsSpec

\* What register counts: requests that will insert a name once its rows are none.
Inserting(n) == {r \in Requests : request[r].at = "inserting" /\ request[r].name = n}

LEMMA FiniteParts ==
  ASSUME AccountsTypeOK, NEW n
  PROVE  IsFiniteSet(Inserting(n)) /\ IsFiniteSet(RowsOf(n))
<1>1. RowsOf(n) \subseteq 1..Len(users) /\ Len(users) \in Nat
  BY DEF RowsOf, AccountsTypeOK
<1>2. IsFiniteSet(1..Len(users))
  BY <1>1, FS_Interval
<1>3. Inserting(n) \subseteq Requests
  BY DEF Inserting
<1>4. QED BY <1>1, <1>2, <1>3, AccountsAssumption, FS_Subset

\* A step that adds no row of a name and lets no further request insert it.
LEMMA FewerInserts ==
  ASSUME DuplicatesAreConcurrent, AccountsTypeOK, UNCHANGED users,
         NEW n \in Names, Inserting(n)' \subseteq Inserting(n)
  PROVE  Cardinality(RowsOf(n)') + Cardinality(Inserting(n)') <= Cardinality(Requests)
<1>1. IsFiniteSet(Inserting(n)) /\ IsFiniteSet(RowsOf(n))
  BY FiniteParts
<1>2. Cardinality(Inserting(n)') <= Cardinality(Inserting(n)) /\ IsFiniteSet(Inserting(n)')
  BY <1>1, FS_Subset
<1>3. RowsOf(n)' = RowsOf(n)
  BY DEF RowsOf
<1>4. Cardinality(RowsOf(n)) + Cardinality(Inserting(n)) <= Cardinality(Requests)
  BY DEF DuplicatesAreConcurrent, Inserting
<1>5. QED
  BY <1>1, <1>2, <1>3, <1>4, AccountsAssumption, FS_CardinalityType

LEMMA DuplicatesNext ==
  AccountsInv /\ DuplicatesAreConcurrent /\ [AccountsNext]_accountVars
    => DuplicatesAreConcurrent'
<1> SUFFICES ASSUME AccountsInv, DuplicatesAreConcurrent, [AccountsNext]_accountVars,
                    NEW n \in Names
             PROVE  Cardinality(RowsOf(n)') + Cardinality(Inserting(n)') <= Cardinality(Requests)
  BY DEF DuplicatesAreConcurrent, Inserting
<1> USE DEF AccountsInv
<1>0. IsFiniteSet(Requests) /\ request \in [Requests -> [at : {"idle", "inserting", "conflict",
        "granted", "unauthorized"}, name : Names \cup {None}, tab : Tabs \cup {None}]]
  BY AccountsAssumption DEF AccountsTypeOK
\* A name that nobody has is looked up: only requests can insert it.
<1>1. ASSUME NEW r \in Requests, NEW t \in Tabs, NEW m \in Names, Lookup(r, t, m)
      PROVE  Cardinality(RowsOf(n)') + Cardinality(Inserting(n)') <= Cardinality(Requests)
  <2>1. CASE m = n /\ m \notin Registered
    <3>1. RowsOf(n)' = {}
      BY <1>1, <2>1 DEF RowsOf, Registered, Lookup, Send
    <3>2. Inserting(n)' \subseteq Requests
      BY DEF Inserting
    <3>3. QED
      BY <1>0, <3>1, <3>2, FS_EmptySet, FS_Subset, FS_CardinalityType
  <2>2. CASE ~(m = n /\ m \notin Registered)
    <3>1. Inserting(n)' \subseteq Inserting(n)
      BY <1>0, <1>1, <2>2 DEF Inserting, Lookup, Send
    <3>2. QED BY <1>1, <3>1, FewerInserts DEF Lookup, Send
  <2>3. QED BY <2>1, <2>2
\* The request that inserts becomes a row.
<1>2. ASSUME NEW r \in Requests, Insert(r)
      PROVE  Cardinality(RowsOf(n)') + Cardinality(Inserting(n)') <= Cardinality(Requests)
  <2>1. CASE request[r].name # n
    <3>1. RowsOf(n)' = RowsOf(n) /\ Inserting(n)' = Inserting(n)
      BY <1>0, <1>2, <2>1 DEF Insert, Step, RowsOf, Inserting, AccountsTypeOK
    <3>2. QED BY <3>1 DEF DuplicatesAreConcurrent, Inserting
  <2>2. CASE request[r].name = n
    <3>1. r \in Inserting(n) /\ Inserting(n)' = Inserting(n) \ {r}
      BY <1>0, <1>2, <2>2 DEF Insert, Step, Inserting
    <3>2. RowsOf(n)' = RowsOf(n) \cup {Len(users) + 1} /\ Len(users) + 1 \notin RowsOf(n)
      BY <1>2, <2>2 DEF Insert, RowsOf, AccountsTypeOK
    <3>3. IsFiniteSet(Inserting(n)) /\ IsFiniteSet(RowsOf(n))
      BY FiniteParts
    <3>4. /\ Cardinality(Inserting(n)') = Cardinality(Inserting(n)) - 1
          /\ Cardinality(RowsOf(n)') = Cardinality(RowsOf(n)) + 1
      BY <3>1, <3>2, <3>3, FS_RemoveElement, FS_AddElement
    <3>5. Cardinality(RowsOf(n)) + Cardinality(Inserting(n)) <= Cardinality(Requests)
      BY DEF DuplicatesAreConcurrent, Inserting
    <3>6. QED
      BY <1>0, <3>3, <3>4, <3>5, FS_CardinalityType
  <2>3. QED BY <2>1, <2>2
\* The other steps free requests, or let them go on as something else.
<1>3. ASSUME UNCHANGED users, Inserting(n)' \subseteq Inserting(n)
      PROVE  Cardinality(RowsOf(n)') + Cardinality(Inserting(n)') <= Cardinality(Requests)
  BY <1>3, FewerInserts
<1>4. ASSUME NEW r \in Requests, NEW t \in Tabs, NEW m \in Names, NEW right \in BOOLEAN,
             LoginRequest(r, t, m, right)
      PROVE  UNCHANGED users /\ Inserting(n)' \subseteq Inserting(n)
  BY <1>0, <1>4 DEF LoginRequest, Send, Inserting
<1>5. ASSUME NEW r \in Requests, Granted(r) \/ Unauthorized(r) \/ Unheard(r)
      PROVE  UNCHANGED users /\ Inserting(n)' \subseteq Inserting(n)
  <2>1. request' = [request EXCEPT ![r] = [at |-> "idle", name |-> None, tab |-> None]]
        /\ UNCHANGED users
    BY <1>5 DEF Granted, Unauthorized, Unheard, Answered, Free, Idle
  <2>2. QED BY <1>0, <2>1 DEF Inserting
<1>6. ASSUME NEW t \in Tabs, LogOut(t) \/ Open(t)
      PROVE  UNCHANGED users /\ Inserting(n)' \subseteq Inserting(n)
  BY <1>0, <1>6 DEF LogOut, Open, Inserting
<1>7. ASSUME UNCHANGED accountVars
      PROVE  UNCHANGED users /\ Inserting(n)' \subseteq Inserting(n)
  BY <1>7 DEF accountVars, Inserting
<1>8. QED BY <1>1, <1>2, <1>3, <1>4, <1>5, <1>6, <1>7 DEF AccountsNext

\* auth.rs, register: the rows of a username, with the requests about to insert
\* one, are never more than the requests that run at the same time.
THEOREM DuplicatesAreBounded == AccountsSpec => []DuplicatesAreConcurrent
<1>1. AccountsInit => DuplicatesAreConcurrent
  <2> SUFFICES ASSUME AccountsInit, NEW n \in Names
               PROVE  Cardinality(RowsOf(n)) + Cardinality(Inserting(n)) <= Cardinality(Requests)
    BY DEF DuplicatesAreConcurrent, Inserting
  <2>1. RowsOf(n) = {} /\ Inserting(n) = {}
    BY DEF AccountsInit, RowsOf, Inserting, Idle
  <2>2. QED BY <2>1, AccountsAssumption, FS_EmptySet, FS_CardinalityType
<1>2. QED
  BY <1>1, AccountsInitInv, AccountsNextInv, DuplicatesNext, PTL DEF AccountsSpec

(***************************************************************************)
(* Startup                                                                 *)
(***************************************************************************)
Steps == {"off", "ddl", "countUsers", "seedUser", "countProviders", "seedProvider",
          "seedConfigs", "bind", "serving"}
\* What the seeds depend on; a backend that configures a provider made it.
SeedTypeOK ==
  /\ providers \in Seq(Nat) /\ stops \in Nat
  /\ backend \in [Backends -> [at : Steps, step : Nat]]
  /\ \A b \in Backends : At(b, "seedConfigs") => backend[b].step \in 1..Len(providers)
Seeding == {b \in Backends : At(b, "seedProvider")}

\* A step that leaves the providers alone, and takes one backend somewhere else
\* than into the seeding of a provider.
Elsewhere(b) ==
  /\ UNCHANGED providers
  /\ \E at \in Steps \ {"seedConfigs"}, step \in Nat : Goto(b, at, step)

LEMMA ElsewhereSteps ==
  ASSUME SeedTypeOK, NEW b \in Backends,
         Launch(b) \/ CreateNext(b) \/ MissingTable(b) \/ SeedUsers(b) \/ CountProviders(b)
           \/ Bind(b) \/ Stop(b)
  PROVE  Elsewhere(b) /\ stops' \in Nat /\ stops' >= stops
<1> USE DEF Elsewhere, Steps, SeedTypeOK
<1>1. CASE Launch(b) \/ Bind(b)
  BY <1>1 DEF Launch, Bind
<1>2. CASE CreateNext(b)
  <2>1. backend[b].step + 1 \in Nat
    OBVIOUS
  <2>2. QED BY <1>2, <2>1 DEF CreateNext
<1>3. CASE MissingTable(b)
  BY <1>3 DEF MissingTable, Stopped
<1>4. CASE SeedUsers(b)
  BY <1>4 DEF SeedUsers
<1>5. CASE CountProviders(b)
  BY <1>5 DEF CountProviders
<1>6. CASE Stop(b)
  BY <1>6 DEF Stop, Stopped
<1>7. QED BY <1>1, <1>2, <1>3, <1>4, <1>5, <1>6

LEMMA SeedTypeNext == SeedTypeOK /\ [StartupNext]_startupVars => SeedTypeOK'
<1> SUFFICES ASSUME SeedTypeOK, [StartupNext]_startupVars PROVE SeedTypeOK'
  OBVIOUS
<1> USE DEF SeedTypeOK, At
<1>1. ASSUME NEW b \in Backends, Elsewhere(b), stops' \in Nat PROVE SeedTypeOK'
  <2>1. PICK at \in Steps \ {"seedConfigs"}, step \in Nat : Goto(b, at, step)
    BY <1>1 DEF Elsewhere
  <2>2. QED BY <1>1, <2>1 DEF Elsewhere, Goto
<1>2. ASSUME NEW b \in Backends, SeedProvider(b) PROVE SeedTypeOK'
  <2>1. /\ providers' = Append(providers, 0)
        /\ backend' = [backend EXCEPT ![b] = [at |-> "seedConfigs", step |-> Len(providers) + 1]]
    BY <1>2 DEF SeedProvider, Goto
  <2>2. providers' \in Seq(Nat) /\ Len(providers') = Len(providers) + 1 /\ Len(providers) \in Nat
    BY <2>1
  <2>3. QED BY <1>2, <2>1, <2>2 DEF SeedProvider, Steps
<1>3. ASSUME NEW b \in Backends, SeedConfig(b) PROVE SeedTypeOK'
  <2>1. backend[b].step \in 1..Len(providers)
    BY <1>3 DEF SeedConfig, Needs
  <2>2. PICK at \in {"bind", "seedConfigs"} :
          backend' = [backend EXCEPT ![b] = [at |-> at, step |-> backend[b].step]]
    BY <1>3 DEF SeedConfig, Goto
  <2>3. providers' = [providers EXCEPT ![backend[b].step] = @ + 1] /\ UNCHANGED stops
    BY <1>3 DEF SeedConfig
  <2>4. providers' \in Seq(Nat) /\ Len(providers') = Len(providers)
    BY <2>1, <2>3
  <2>5. QED BY <2>1, <2>2, <2>3, <2>4 DEF Steps
<1>4. CASE StartAgent \/ StopAgent \/ UNCHANGED startupVars
  BY <1>4 DEF StartAgent, StopAgent, startupVars
<1>5. QED BY <1>1, <1>2, <1>3, <1>4, ElsewhereSteps DEF StartupNext

LEMMA SeedsNext ==
  SeedTypeOK /\ SeedsAreBounded /\ [StartupNext]_startupVars => SeedsAreBounded'
<1> SUFFICES ASSUME SeedTypeOK, SeedsAreBounded, [StartupNext]_startupVars
             PROVE  Len(providers') + Cardinality(Seeding') <= Cardinality(Backends)
  BY DEF SeedsAreBounded, Seeding
<1>0. /\ IsFiniteSet(Backends) /\ IsFiniteSet(Seeding) /\ IsFiniteSet(Seeding')
      /\ Len(providers) \in Nat
  BY StartupAssumption, FS_Subset DEF Seeding, SeedTypeOK
<1>1. Len(providers) + Cardinality(Seeding) <= Cardinality(Backends)
  BY DEF SeedsAreBounded, Seeding
\* Nobody else begins to seed.
<1>2. ASSUME Len(providers') = Len(providers), Seeding' \subseteq Seeding
      PROVE  Len(providers') + Cardinality(Seeding') <= Cardinality(Backends)
  <2>1. Cardinality(Seeding') <= Cardinality(Seeding)
    BY <1>0, <1>2, FS_Subset
  <2>2. QED BY <1>0, <1>1, <1>2, <2>1, FS_CardinalityType
\* No provider is found: there are at most as many seeding as backends.
<1>3. ASSUME NEW b \in Backends, CountProviders(b), providers = <<>>
      PROVE  Len(providers') + Cardinality(Seeding') <= Cardinality(Backends)
  <2>1. Len(providers') = 0
    BY <1>3 DEF CountProviders
  <2>2. Cardinality(Seeding') <= Cardinality(Backends)
    BY <1>0, FS_Subset DEF Seeding
  <2>3. QED BY <1>0, <2>1, <2>2, FS_CardinalityType
<1>4. ASSUME NEW b \in Backends, CountProviders(b), providers # <<>>
      PROVE  Len(providers') = Len(providers) /\ Seeding' \subseteq Seeding
  BY <1>4 DEF CountProviders, Goto, Seeding, At, SeedTypeOK
\* The provider takes the place of the backend that seeds it.
<1>5. ASSUME NEW b \in Backends, SeedProvider(b)
      PROVE  Len(providers') + Cardinality(Seeding') <= Cardinality(Backends)
  <2>1. b \in Seeding /\ Seeding' = Seeding \ {b}
    BY <1>5 DEF SeedProvider, Goto, Seeding, At, SeedTypeOK
  <2>2. Len(providers') = Len(providers) + 1
    BY <1>5 DEF SeedProvider, SeedTypeOK
  <2>3. Cardinality(Seeding') = Cardinality(Seeding) - 1
    BY <1>0, <2>1, FS_RemoveElement
  <2>4. QED BY <1>0, <1>1, <2>2, <2>3, FS_CardinalityType
<1>6. ASSUME NEW b \in Backends, SeedConfig(b)
      PROVE  Len(providers') = Len(providers) /\ Seeding' \subseteq Seeding
  BY <1>6 DEF SeedConfig, Needs, Goto, Seeding, At, SeedTypeOK
<1>7. ASSUME NEW b \in Backends,
             Launch(b) \/ CreateNext(b) \/ MissingTable(b) \/ SeedUsers(b) \/ Bind(b) \/ Stop(b)
      PROVE  Len(providers') = Len(providers) /\ Seeding' \subseteq Seeding
  BY <1>7 DEF Launch, CreateNext, MissingTable, Stopped, SeedUsers, Bind, Stop, Goto, Seeding,
     At, SeedTypeOK
<1>8. CASE StartAgent \/ StopAgent \/ UNCHANGED startupVars
  BY <1>2, <1>8 DEF StartAgent, StopAgent, startupVars, Seeding, At
<1>9. QED BY <1>2, <1>3, <1>4, <1>5, <1>6, <1>7, <1>8 DEF StartupNext

LEMMA SeedTypeInvariant == StartupSpec => []SeedTypeOK
<1>1. StartupInit => SeedTypeOK
  BY DEF StartupInit, SeedTypeOK, Steps, At
<1>2. QED BY <1>1, SeedTypeNext, PTL DEF StartupSpec

\* main.rs, seed_llm_configs: however many backends start, stop and start again,
\* they make no more providers than there are backends at a time.
THEOREM SeedsBounded == StartupSpec => []SeedsAreBounded
<1>1. StartupInit => SeedsAreBounded
  <2> SUFFICES ASSUME StartupInit
               PROVE  Len(providers) + Cardinality(Seeding) <= Cardinality(Backends)
    BY DEF SeedsAreBounded, Seeding
  <2>1. Len(providers) = 0 /\ Seeding = {}
    BY DEF StartupInit, Seeding, At
  <2>2. QED BY <2>1, StartupAssumption, FS_EmptySet, FS_CardinalityType
<1>2. QED BY <1>1, SeedTypeInvariant, SeedsNext, PTL DEF StartupSpec

\* Providers that lack configurations and that nobody is configuring.
Loose == {p \in Incomplete : ~\E b \in Backends : At(b, "seedConfigs") /\ backend[b].step = p}

LEMMA LooseIsFinite ==
  ASSUME SeedTypeOK
  PROVE  IsFiniteSet(Loose) /\ Cardinality(Loose) \in Nat /\ stops \in Nat
<1>1. Loose \subseteq 1..Len(providers) /\ Len(providers) \in Nat /\ stops \in Nat
  BY DEF SeedTypeOK, Loose, Incomplete
<1>2. IsFiniteSet(1..Len(providers))
  BY <1>1, FS_Interval
<1>3. QED BY <1>1, <1>2, FS_Subset, FS_CardinalityType

LEMMA CutShortNext ==
  SeedTypeOK /\ SeedTypeOK' /\ IncompleteIsCutShort /\ [StartupNext]_startupVars
    => IncompleteIsCutShort'
<1> SUFFICES ASSUME SeedTypeOK, SeedTypeOK', IncompleteIsCutShort, [StartupNext]_startupVars
             PROVE  Cardinality(Loose') <= stops'
  BY DEF IncompleteIsCutShort, Loose
<1>0. /\ Cardinality(Loose) <= stops
      /\ IsFiniteSet(Loose) /\ Cardinality(Loose) \in Nat /\ stops \in Nat
      /\ Cardinality(Loose') \in Nat /\ stops' \in Nat
  <2>1. Loose' \subseteq 1..Len(providers') /\ Len(providers') \in Nat /\ stops' \in Nat
    BY DEF SeedTypeOK, Loose, Incomplete
  <2>2. IsFiniteSet(1..Len(providers'))
    BY <2>1, FS_Interval
  <2>3. Cardinality(Loose') \in Nat
    BY <2>1, <2>2, FS_Subset, FS_CardinalityType
  <2>4. QED BY <2>1, <2>3, LooseIsFinite DEF IncompleteIsCutShort, Loose
<1>1. ASSUME Loose' \subseteq Loose, stops' >= stops PROVE Cardinality(Loose') <= stops'
  <2>1. Cardinality(Loose') <= Cardinality(Loose)
    BY <1>0, <1>1, FS_Subset
  <2>2. QED BY <1>0, <1>1, <2>1
\* A stop leaves at most the provider of the backend it stops.
<1>2. ASSUME NEW b \in Backends, MissingTable(b) \/ Stop(b) PROVE Cardinality(Loose') <= stops'
  <2>1. Loose' \subseteq Loose \cup {backend[b].step}
    <3>1. backend' = [backend EXCEPT ![b] = [at |-> "off", step |-> 0]] /\ providers' = providers
      BY <1>2 DEF MissingTable, Stop, Stopped, Goto
    <3>2. Incomplete' = Incomplete
      BY <3>1 DEF Incomplete
    <3>3. ASSUME NEW c \in Backends, c # b PROVE backend'[c] = backend[c]
      BY <3>1, <3>3 DEF SeedTypeOK
    <3>4. QED BY <3>2, <3>3 DEF Loose, At
  <2>2. stops' = stops + 1
    BY <1>2 DEF MissingTable, Stop
  <2>3. /\ IsFiniteSet(Loose \cup {backend[b].step})
        /\ Cardinality(Loose \cup {backend[b].step}) <= Cardinality(Loose) + 1
    <3> DEFINE p == backend[b].step
    <3>1. /\ IsFiniteSet(Loose \cup {p})
          /\ Cardinality(Loose \cup {p})
               = IF p \in Loose THEN Cardinality(Loose) ELSE Cardinality(Loose) + 1
      BY <1>0, FS_AddElement
    <3>2. QED BY <1>0, <3>1
  <2>4. Cardinality(Loose') <= Cardinality(Loose \cup {backend[b].step})
    BY <2>1, <2>3, FS_Subset
  <2>5. Cardinality(Loose \cup {backend[b].step}) \in Nat
    BY <2>3, FS_CardinalityType
  <2>6. QED BY <1>0, <2>2, <2>3, <2>4, <2>5
\* A backend that was not configuring a provider goes on.
<1>3. ASSUME NEW b \in Backends,
             Launch(b) \/ CreateNext(b) \/ SeedUsers(b) \/ CountProviders(b) \/ Bind(b)
      PROVE  Loose' \subseteq Loose
  <2>1. ~At(b, "seedConfigs") /\ Elsewhere(b)
    BY <1>3, ElsewhereSteps DEF Launch, CreateNext, SeedUsers, CountProviders, Bind, Needs, At
  <2>2. QED BY <2>1 DEF Elsewhere, Goto, Loose, Incomplete, At, SeedTypeOK
\* The provider that is made is configured by the backend that made it.
<1>4. ASSUME NEW b \in Backends, SeedProvider(b) PROVE Loose' \subseteq Loose
  <2>1. /\ Len(providers') = Len(providers) + 1 /\ Len(providers) \in Nat
        /\ \A p \in 1..Len(providers) : providers'[p] = providers[p]
    BY <1>4 DEF SeedProvider, SeedTypeOK
  <2>2. /\ ~At(b, "seedConfigs")
        /\ backend' = [backend EXCEPT ![b] = [at |-> "seedConfigs", step |-> Len(providers) + 1]]
    BY <1>4 DEF SeedProvider, Goto, At
  <2>3. QED BY <2>1, <2>2 DEF Loose, Incomplete, At, SeedTypeOK
\* A backend leaves its provider when it has all its configurations.
<1>5. ASSUME NEW b \in Backends, SeedConfig(b) PROVE Loose' \subseteq Loose
  <2> DEFINE p == backend[b].step
  <2>1. p \in 1..Len(providers) /\ At(b, "seedConfigs")
    BY <1>5 DEF SeedConfig, Needs, SeedTypeOK
  <2>2. /\ Len(providers') = Len(providers) /\ providers'[p] \in Nat
        /\ \A q \in 1..Len(providers) : q # p => providers'[q] = providers[q]
    BY <1>5, <2>1 DEF SeedConfig, SeedTypeOK
  <2>3. CASE providers'[p] = Len(Tasks)
    <3>1. p \notin Loose'
      BY <2>3, <2>2 DEF Loose, Incomplete, Tasks
    <3>2. backend' = [backend EXCEPT ![b] = [at |-> "bind", step |-> p]]
      BY <1>5, <2>3 DEF SeedConfig, Goto
    <3>3. QED BY <2>1, <2>2, <3>1, <3>2 DEF Loose, Incomplete, At, SeedTypeOK
  <2>4. CASE providers'[p] # Len(Tasks)
    <3>1. backend' = [backend EXCEPT ![b] = [at |-> "seedConfigs", step |-> p]]
      BY <1>5, <2>4 DEF SeedConfig, Goto
    <3>2. QED BY <2>1, <2>2, <3>1 DEF Loose, Incomplete, At, SeedTypeOK
  <2>5. QED BY <2>3, <2>4
<1>6. CASE StartAgent \/ StopAgent \/ UNCHANGED startupVars
  <2>1. Loose' = Loose /\ stops' = stops
    BY <1>6 DEF StartAgent, StopAgent, startupVars, Loose, Incomplete, At
  <2>2. QED BY <1>0, <2>1
<1>7. ASSUME NEW b \in Backends,
             Launch(b) \/ CreateNext(b) \/ SeedUsers(b) \/ CountProviders(b) \/ Bind(b)
               \/ SeedProvider(b) \/ SeedConfig(b)
      PROVE  stops' >= stops
  BY <1>0, <1>7 DEF Launch, CreateNext, SeedUsers, CountProviders, Bind, SeedProvider, SeedConfig
<1>8. QED BY <1>1, <1>2, <1>3, <1>4, <1>5, <1>6, <1>7 DEF StartupNext

\* main.rs, seed_llm_configs: a start that is not stopped leaves no provider
\* without its configurations; each stop leaves at most one.
THEOREM SeedsAreWhole == StartupSpec => []IncompleteIsCutShort
<1>1. StartupInit => IncompleteIsCutShort
  <2> SUFFICES ASSUME StartupInit PROVE Cardinality(Loose) <= stops
    BY DEF IncompleteIsCutShort, Loose
  <2>1. Loose = {} /\ stops = 0
    BY DEF StartupInit, Loose, Incomplete
  <2>2. QED BY <2>1, FS_EmptySet
<1>2. QED BY <1>1, SeedTypeInvariant, CutShortNext, PTL DEF StartupSpec

(***************************************************************************)
(* ListPage                                                                *)
(***************************************************************************)
FetchTypes == [of : Pages, read : BOOLEAN, answer : SUBSET Rows, overtaken : BOOLEAN,
               refresh : BOOLEAN]
Deletions == [row : Rows, of : Pages, done : BOOLEAN]
ListTyped ==
  /\ table \subseteq Rows /\ page \in Pages
  /\ items \in FetchTypes /\ fetches \in Seq(FetchTypes)
  /\ deletions \subseteq Deletions /\ givenUp \subseteq Rows
\* The rows that may be gone without a refresh: those whose deletion is still to
\* be answered, and those the page said it could not delete.
Unrefreshed == givenUp \cup {r \in Rows : \E d \in deletions : d.done /\ d.row = r}
\* A fetch that none was sent after: of the page the component is on, or sent for
\* a deletion, and when it is read, true but for rows that nothing was fetched for.
IsLatest(f) ==
  /\ f.of = page \/ f.refresh
  /\ f.read => \E gone \in SUBSET Unrefreshed : f.answer = PageOf(table \cup gone, f.of)
LastIsLatest ==
  fetches # <<>> /\ ~fetches[Len(fetches)].overtaken => IsLatest(fetches[Len(fetches)])
\* With none under way, it is the one that was shown.
ShownIsLatest ==
  fetches = <<>> /\ items.read /\ ~failed /\ ~items.overtaken => IsLatest(items)
ListInv == ListTyped /\ LastIsLatest /\ ShownIsLatest

LEMMA ListInitInv == ListInit => ListInv
  BY DEF ListInit, ListInv, ListTyped, LastIsLatest, ShownIsLatest, IsLatest, Fetch, FetchTypes,
     Deletions

\* An answer takes its fetch away and overtakes those that were sent before.
LEMMA WithoutOne ==
  ASSUME ListTyped, NEW i \in 1..Len(fetches)
  PROVE  /\ Without(i) \in Seq(FetchTypes) /\ Len(Without(i)) = Len(fetches) - 1
         /\ i < Len(fetches) => Without(i)[Len(fetches) - 1] = fetches[Len(fetches)]
         /\ i = Len(fetches) /\ i > 1 => Without(i)[i - 1].overtaken = TRUE
<1> DEFINE marked == [j \in 1..Len(fetches) |->
                        IF j < i THEN [fetches[j] EXCEPT !.overtaken = TRUE] ELSE fetches[j]]
<1>1. \A j \in 1..Len(fetches) : marked[j] \in FetchTypes
  <2> SUFFICES ASSUME NEW j \in 1..Len(fetches) PROVE marked[j] \in FetchTypes
    OBVIOUS
  <2>1. fetches[j] \in FetchTypes
    BY DEF ListTyped
  <2>2. [fetches[j] EXCEPT !.overtaken = TRUE] \in FetchTypes
    BY <2>1 DEF FetchTypes
  <2>3. QED BY <2>1, <2>2
<1>2. marked \in Seq(FetchTypes) /\ Len(marked) = Len(fetches)
  BY <1>1
<1>3. /\ i < Len(fetches) => marked[Len(fetches)] = fetches[Len(fetches)]
      /\ i > 1 => marked[i - 1].overtaken = TRUE
  BY DEF ListTyped, FetchTypes
<1>4. Without(i) = SubSeq(marked, 1, i - 1) \o SubSeq(marked, i + 1, Len(marked))
  BY <1>2 DEF Without, RemoveAt
<1> DEFINE front == SubSeq(marked, 1, i - 1)
           back == SubSeq(marked, i + 1, Len(marked))
<1> HIDE DEF marked
<1>5. Len(fetches) \in Nat
  BY DEF ListTyped
<1>6. /\ front \in Seq(FetchTypes) /\ Len(front) = i - 1
      /\ i > 1 => front[i - 1] = marked[i - 1]
  BY <1>2, <1>5
<1>7. /\ back \in Seq(FetchTypes) /\ Len(back) = Len(fetches) - i
      /\ i < Len(fetches) => back[Len(fetches) - i] = marked[Len(fetches)]
  BY <1>2, <1>5
<1>8. Without(i) = front \o back
  BY <1>4
<1> HIDE DEF front, back
<1>9. /\ front \o back \in Seq(FetchTypes) /\ Len(front \o back) = Len(fetches) - 1
      /\ i < Len(fetches) => (front \o back)[Len(fetches) - 1] = back[Len(fetches) - i]
      /\ i = Len(fetches) /\ i > 1 => (front \o back)[i - 1] = front[i - 1]
  BY <1>5, <1>6, <1>7
<1>10. QED BY <1>3, <1>6, <1>7, <1>8, <1>9

LEMMA ListNextInv ==
  ASSUME ListInv, [ListNext]_listVars
  PROVE  ListInv'
<1> USE DEF ListInv
<1>1. Len(fetches) \in Nat /\ (fetches = <<>> <=> Len(fetches) = 0)
  BY DEF ListTyped
\* Asking: the new fetch is the latest.
<1>2. ASSUME NEW p \in Pages, NEW refresh \in BOOLEAN, Ask(p, refresh), page' \in Pages,
             p = page' \/ refresh = TRUE, items' = items, table' = table,
             deletions' \subseteq Deletions, givenUp' = givenUp
      PROVE  ListInv'
  <2>1. Fetch(p, refresh) \in FetchTypes /\ ~Fetch(p, refresh).read
        /\ Fetch(p, refresh).of = p /\ Fetch(p, refresh).refresh = refresh
    BY DEF Fetch, FetchTypes
  <2>2. /\ fetches' \in Seq(FetchTypes) /\ fetches' # <<>>
        /\ fetches'[Len(fetches')] = Fetch(p, refresh)
    BY <1>2, <2>1 DEF Ask, ListTyped
  <2>3. QED BY <1>2, <2>1, <2>2 DEF ListTyped, LastIsLatest, ShownIsLatest, IsLatest
<1>3. ASSUME NEW p \in Pages, Turn(p) PROVE ListInv'
  BY <1>2, <1>3 DEF Turn, ListTyped
<1>4. ASSUME NEW i \in 1..Len(fetches), Read(i) PROVE ListInv'
  <2>1. fetches[i] \in FetchTypes /\ Listed(fetches[i].of) \in SUBSET Rows
    BY DEF ListTyped, Listed, PageOf
  <2>2. fetches' \in Seq(FetchTypes) /\ Len(fetches') = Len(fetches) /\ fetches' # <<>>
    BY <1>1, <1>4, <2>1 DEF Read, ListTyped, FetchTypes
  <2>3. \A j \in 1..Len(fetches) :
          /\ j # i => fetches'[j] = fetches[j]
          /\ fetches'[j].of = fetches[j].of /\ fetches'[j].overtaken = fetches[j].overtaken
          /\ fetches'[j].refresh = fetches[j].refresh
          /\ j = i => fetches'[j].answer = Listed(fetches[j].of)
    BY <1>4, <2>1 DEF Read, ListTyped, FetchTypes
  <2>4. LastIsLatest'
    <3>1. Len(fetches) \in 1..Len(fetches) /\ UNCHANGED <<table, page, deletions, givenUp>>
      BY <1>1, <1>4 DEF Read
    <3> DEFINE last == Len(fetches)
    <3>2. CASE i = last
      <4>1. (fetches[last].of = page \/ fetches[last].refresh) \/ fetches[last].overtaken
        BY <2>2, <3>1 DEF LastIsLatest, IsLatest
      <4>2. fetches'[last].answer = Listed(fetches'[last].of)
        BY <2>3, <3>1, <3>2
      <4>3. fetches'[last].answer = PageOf(table' \cup {}, fetches'[last].of)
        <5>1. table' \cup {} = table
          BY <3>1
        <5>2. QED BY <4>2, <5>1 DEF Listed
      <4>4. {} \in SUBSET Unrefreshed'
        OBVIOUS
      <4>5. QED BY <2>2, <2>3, <3>1, <4>1, <4>3, <4>4 DEF LastIsLatest, IsLatest
    <3>3. CASE i # last
      <4>1. fetches'[last] = fetches[last] /\ fetches # <<>>
        BY <1>1, <2>3, <3>1, <3>3
      <4>2. QED BY <2>2, <3>1, <4>1 DEF LastIsLatest, IsLatest, Unrefreshed
    <3>4. QED BY <3>2, <3>3
  <2>5. QED BY <1>4, <2>2, <2>4 DEF Read, ListTyped, ShownIsLatest
<1>5. ASSUME NEW i \in 1..Len(fetches), fetches' = Without(i),
             UNCHANGED <<table, page, deletions, givenUp>>,
             items' = fetches[i] \/ (items' = items /\ failed' = TRUE)
      PROVE  ListInv'
  <2>1. /\ fetches' \in Seq(FetchTypes) /\ Len(fetches') = Len(fetches) - 1
        /\ i < Len(fetches) => fetches'[Len(fetches) - 1] = fetches[Len(fetches)]
        /\ i = Len(fetches) /\ i > 1 => fetches'[i - 1].overtaken = TRUE
    BY <1>5, WithoutOne
  <2>2. fetches[i] \in FetchTypes
    BY DEF ListTyped
  <2>3. LastIsLatest'
    <3> SUFFICES ASSUME fetches' # <<>>, ~fetches'[Len(fetches')].overtaken
                 PROVE  IsLatest(fetches[Len(fetches)])'
      BY DEF LastIsLatest
    <3>1. i < Len(fetches) /\ fetches'[Len(fetches')] = fetches[Len(fetches)]
      BY <1>1, <2>1
    <3>2. IsLatest(fetches[Len(fetches)])
      BY <1>1, <3>1 DEF LastIsLatest
    <3>3. QED BY <1>5, <3>1, <3>2 DEF IsLatest, Unrefreshed
  <2>4. ShownIsLatest'
    <3> SUFFICES ASSUME fetches' = <<>>, items'.read, ~failed', ~items'.overtaken
                 PROVE  IsLatest(items)'
      BY DEF ShownIsLatest
    <3>1. items' = fetches[i]
      BY <1>5
    <3>2. i = Len(fetches) /\ fetches # <<>>
      <4>1. Len(fetches') = 0
        OBVIOUS
      <4>2. Len(fetches) = 1
        BY <1>1, <2>1, <4>1
      <4>3. QED BY <1>1, <4>2
    <3>3. IsLatest(fetches[i])
      BY <3>1, <3>2 DEF LastIsLatest
    <3>4. QED BY <1>5, <3>1, <3>3 DEF IsLatest, Unrefreshed
  <2>5. QED BY <1>1, <1>5, <2>1, <2>2, <2>3, <2>4 DEF ListTyped
<1>6. ASSUME NEW i \in 1..Len(fetches), Show(i) \/ FetchFails(i) PROVE ListInv'
  BY <1>5, <1>6 DEF Show, FetchFails
\* The steps of a deletion on the way: a row that goes joins the unrefreshed ones.
<1>7. ASSUME UNCHANGED <<page, items, fetches, failed>>, ListTyped',
             NEW taken \in SUBSET Rows, table' = table \ taken,
             Unrefreshed \cup taken \subseteq Unrefreshed'
      PROVE  ListInv'
  <2>1. ASSUME NEW f, IsLatest(f) PROVE IsLatest(f)'
    <3>1. ASSUME f.read PROVE \E gone \in SUBSET Unrefreshed' : f.answer = PageOf(table' \cup gone, f.of)
      <4>1. PICK gone \in SUBSET Unrefreshed : f.answer = PageOf(table \cup gone, f.of)
        BY <2>1, <3>1 DEF IsLatest
      <4>2. PICK more : more = gone \cup (table \cap taken)
        OBVIOUS
      <4>3. table' \cup more = table \cup gone /\ more \in SUBSET Unrefreshed'
        BY <1>7, <4>2
      <4>4. QED BY <4>1, <4>3
    <3>2. QED BY <1>7, <2>1, <3>1 DEF IsLatest
  <2>2. QED BY <1>7, <2>1 DEF LastIsLatest, ShownIsLatest
<1>8. ASSUME NEW r \in Rows, Delete(r) PROVE ListInv'
  <2>1. [row |-> r, of |-> page, done |-> FALSE] \in Deletions
    BY DEF ListTyped, Deletions
  <2>2. ListTyped'
    BY <1>8, <2>1 DEF Delete, ListTyped
  <2>3. Unrefreshed \cup {} \subseteq Unrefreshed'
    BY <1>8, <2>1 DEF Delete, Unrefreshed
  <2>4. table' = table \ {} /\ {} \in SUBSET Rows
    BY <1>8 DEF Delete
  <2>5. QED BY <1>7, <1>8, <2>2, <2>3, <2>4 DEF Delete
<1>12. ASSUME NEW d \in deletions, DeleteRow(d) PROVE ListInv'
  <2>1. /\ [d EXCEPT !.done = TRUE] \in Deletions /\ d.row \in Rows
        /\ [d EXCEPT !.done = TRUE].done = TRUE /\ [d EXCEPT !.done = TRUE].row = d.row
    BY DEF ListTyped, Deletions
  <2>2. ListTyped'
    BY <1>12, <2>1 DEF DeleteRow, ListTyped
  <2>3. Unrefreshed \cup {d.row} \subseteq Unrefreshed'
    BY <1>12, <2>1 DEF DeleteRow, Unrefreshed
  <2>4. QED BY <1>7, <1>12, <2>1, <2>2, <2>3 DEF DeleteRow
<1>13. ASSUME NEW d \in deletions, DeleteFails(d) PROVE ListInv'
  <2>1. d.row \in Rows
    BY DEF ListTyped, Deletions
  <2>2. ListTyped'
    BY <1>13, <2>1 DEF DeleteFails, ListTyped
  <2>3. Unrefreshed \cup {} \subseteq Unrefreshed'
    BY <1>13, <2>1 DEF DeleteFails, Unrefreshed
  <2>4. table' = table \ {} /\ {} \in SUBSET Rows
    BY <1>13 DEF DeleteFails
  <2>5. QED BY <1>7, <1>13, <2>2, <2>3, <2>4 DEF DeleteFails
<1>14. ASSUME NEW r \in Rows, DeleteLate(r) PROVE ListInv'
  <2>1. ListTyped' /\ Unrefreshed \cup {r} \subseteq Unrefreshed'
    BY <1>14 DEF DeleteLate, ListTyped, Unrefreshed
  <2>2. QED BY <1>7, <1>14, <2>1 DEF DeleteLate
<1>9. ASSUME NEW d \in deletions, Deleted(d) PROVE ListInv'
  <2>1. d.of \in Pages /\ Ask(d.of, TRUE) /\ UNCHANGED <<table, page, items, givenUp>>
    BY <1>9 DEF Deleted, ListTyped, Deletions
  <2>2. deletions' \subseteq Deletions
    BY <1>9 DEF Deleted, ListTyped
  <2>3. QED BY <1>2, <2>1, <2>2 DEF ListTyped
<1>10. CASE UNCHANGED listVars
  BY <1>10 DEF listVars, ListTyped, LastIsLatest, ShownIsLatest, IsLatest, Unrefreshed
<1>11. QED BY <1>3, <1>4, <1>6, <1>8, <1>9, <1>10, <1>12, <1>13, <1>14 DEF ListNext

\* History/index.tsx, fetchList and handleDelete: for any pages, rows, deletions
\* and orders of answers, a list that nothing is under way for is the one the
\* database holds, if its answer came in order, and but for rows of which the page
\* said that deleting them failed.
THEOREM QuietListsAreTrue == ListSpec => []QuietListIsTrue
<1>1. ListInv => QuietListIsTrue
  <2>1. deletions = {} => Unrefreshed = givenUp
    BY DEF Unrefreshed
  <2>2. QED BY <2>1 DEF ListInv, ShownIsLatest, IsLatest, QuietListIsTrue
<1>2. QED BY ListInitInv, ListNextInv, <1>1, PTL DEF ListSpec

(***************************************************************************)
(* ChatPage                                                                *)
(***************************************************************************)
LEMMA InitPageInv == Init => PageInv
<1> SUFFICES ASSUME Init PROVE PageInv
  OBVIOUS
<1>1. TypeOK
  BY BoundAssumption DEF Init, TypeOK, Documents, Messages, Extras, Saves, Adoptions
<1>2. QED
  BY <1>1 DEF Init, PageInv, RowIsOneGeneration, ExtraIsOwnRow, AdoptedIsRecorded,
     RefsOfLatest, CallsCarryOn

\* Steps that leave the rows and the messages' extras alone, and start no call.
LEMMA QuietStep ==
  ASSUME PageInv, TypeOK', RefsOfLatest', UNCHANGED <<extra, rows>>,
         saving' \subseteq saving, adopting' \subseteq adopting
  PROVE  PageInv'
BY DEF PageInv, RowIsOneGeneration, ExtraIsOwnRow, AdoptedIsRecorded, CallsCarryOn

LEMMA NextPageInv == PageInv /\ [Next]_vars => PageInv'
<1> SUFFICES ASSUME PageInv, [Next]_vars PROVE PageInv'
  OBVIOUS
<1>0. /\ TypeOK /\ RowIsOneGeneration /\ ExtraIsOwnRow /\ AdoptedIsRecorded
      /\ RefsOfLatest /\ CallsCarryOn
  BY DEF PageInv
<1>a. MaxGenerations \in Nat
  BY BoundAssumption
<1>1. CASE Request \/ ResultArrives \/ RequestFails
  <2>1. TypeOK'
    BY <1>0, <1>1, <1>a DEF Request, ResultArrives, RequestFails, TypeOK, Documents
  <2>2. RefsOfLatest'
    BY <1>0, <1>1, <1>a DEF Request, ResultArrives, RequestFails, RefsOfLatest, TypeOK, Documents
  <2>3. QED BY <1>1, <2>1, <2>2, QuietStep DEF Request, ResultArrives, RequestFails
<1>2. CASE OnChatEnd
  <2>1. CASE pending = 0
    BY <1>0, <1>2, <2>1, QuietStep DEF OnChatEnd, TypeOK, RefsOfLatest
  <2>2. CASE pending # 0
    <3> DEFINE s == [message |-> generation, prompt |-> lastPrompt, json |-> pending, id |-> 0]
    <3>1. saving' = saving \cup {s} /\ currentJson' = pending
      BY <1>2, <2>2 DEF OnChatEnd
    <3>2. generation \in Messages /\ lastPrompt = generation /\ pending = generation
      BY <1>0, <1>2, <1>a, <2>2 DEF OnChatEnd, RefsOfLatest, TypeOK, Documents, Messages
    <3>3. s \in Saves /\ s.message = s.prompt /\ s.message = s.json /\ s.id = 0
      BY <3>2 DEF Saves
    <3> HIDE DEF s
    <3>4. TypeOK'
      BY <1>0, <1>2, <3>1, <3>3 DEF OnChatEnd, TypeOK
    <3>5. CallsCarryOn'
      BY <1>0, <1>2, <3>1, <3>3 DEF OnChatEnd, CallsCarryOn
    <3>6. QED
      BY <1>0, <1>2, <3>4, <3>5 DEF OnChatEnd, PageInv, RowIsOneGeneration, ExtraIsOwnRow,
         AdoptedIsRecorded, RefsOfLatest
  <2>3. QED BY <2>1, <2>2
<1>3. ASSUME NEW s \in saving, SaveStored(s) PROVE PageInv'
  <2> DEFINE row == [prompt |-> s.prompt, json |-> s.json, final |-> 0]
             t == [s EXCEPT !.id = Len(rows) + 1]
  <2>1. /\ s \in Saves /\ s.message = s.prompt /\ s.message = s.json
        /\ rows \in Seq(HistoryRows)
    BY <1>0 DEF TypeOK, CallsCarryOn
  <2>2. row \in HistoryRows /\ row.prompt = s.message /\ row.json = s.message
    BY <2>1, <1>a DEF Saves, HistoryRows, Documents
  <2>3. /\ t \in Saves /\ t.message = s.message /\ t.prompt = s.prompt /\ t.json = s.json
        /\ t.id = Len(rows) + 1
    <3>1. Len(rows) + 1 \in Nat
      BY <2>1
    <3>2. QED BY <2>1, <3>1 DEF Saves
  <2>4. rows' = Append(rows, row) /\ saving' = (saving \ {s}) \cup {t}
        /\ UNCHANGED <<generation, chat, lastPrompt, pending, currentJson, extra, adopting>>
    BY <1>3 DEF SaveStored
  <2> HIDE DEF row, t
  <2>5. /\ rows' \in Seq(HistoryRows)
        /\ DOMAIN rows \subseteq DOMAIN rows'
        /\ Len(rows) + 1 \in DOMAIN rows' /\ rows'[Len(rows) + 1] = row
        /\ \A i \in DOMAIN rows : rows'[i] = rows[i]
        /\ \A i \in DOMAIN rows' : i \in DOMAIN rows \/ i = Len(rows) + 1
    BY <2>1, <2>2, <2>4
  <2>6. TypeOK'
    BY <1>0, <2>3, <2>4, <2>5 DEF TypeOK
  <2>7. RowIsOneGeneration' /\ ExtraIsOwnRow' /\ AdoptedIsRecorded' /\ RefsOfLatest'
    BY <1>0, <2>2, <2>4, <2>5 DEF RowIsOneGeneration, ExtraIsOwnRow, AdoptedIsRecorded,
       RefsOfLatest
  <2>8. CallsCarryOn'
    BY <1>0, <2>1, <2>2, <2>3, <2>4, <2>5 DEF CallsCarryOn
  <2>9. QED BY <2>6, <2>7, <2>8 DEF PageInv
<1>4. ASSUME NEW s \in saving, SaveAnswered(s) PROVE PageInv'
  <2> DEFINE x == [historyId |-> s.id, adopted |-> FALSE]
  <2>1. s \in Saves /\ s.id # 0 /\ s.id \in DOMAIN rows /\ rows[s.id].prompt = s.message
    BY <1>0, <1>4 DEF SaveAnswered, TypeOK, CallsCarryOn
  <2>2. x \in Extras /\ x.historyId = s.id /\ x.adopted = FALSE
    BY <2>1 DEF Saves, Extras
  <2>3. extra' = Put(s.message, x) /\ saving' = saving \ {s}
        /\ UNCHANGED <<generation, chat, lastPrompt, pending, currentJson, adopting, rows>>
    BY <1>4 DEF SaveAnswered
  <2> HIDE DEF x
  <2>4. /\ DOMAIN extra' = DOMAIN extra \cup {s.message}
        /\ extra'[s.message] = x
        /\ \A n \in DOMAIN extra : n # s.message => extra'[n] = extra[n]
    BY <2>3 DEF Put
  <2>5. TypeOK'
    <3>1. extra' \in [DOMAIN extra' -> Extras]
      BY <1>0, <2>2, <2>3, <2>4 DEF TypeOK, Put
    <3>2. s.message \in Messages
      BY <2>1 DEF Saves
    <3>3. QED BY <1>0, <2>3, <2>4, <3>1, <3>2 DEF TypeOK
  <2>6. ExtraIsOwnRow' /\ AdoptedIsRecorded'
    BY <1>0, <2>1, <2>2, <2>3, <2>4 DEF ExtraIsOwnRow, AdoptedIsRecorded
  <2>7. RowIsOneGeneration' /\ RefsOfLatest' /\ CallsCarryOn'
    BY <1>0, <2>3 DEF RowIsOneGeneration, RefsOfLatest, CallsCarryOn
  <2>8. QED BY <2>5, <2>6, <2>7 DEF PageInv
<1>5. ASSUME NEW s \in saving, SaveFails(s) PROVE PageInv'
  BY <1>0, <1>5, QuietStep DEF SaveFails, TypeOK, RefsOfLatest
<1>6. ASSUME NEW m \in DOMAIN extra, HandleAdopt(m) PROVE PageInv'
  <2> DEFINE a == [message |-> m, extra |-> extra[m], json |-> currentJson, stored |-> FALSE]
  <2>1. m \in Messages /\ extra[m] \in Extras /\ currentJson \in Messages
    BY <1>0, <1>6, <1>a DEF HandleAdopt, TypeOK, Documents, Messages
  <2>2. a \in Adoptions /\ a.message = m /\ a.extra = extra[m] /\ a.stored = FALSE
    BY <2>1 DEF Adoptions
  <2>3. /\ adopting' = adopting \cup {a}
        /\ UNCHANGED <<generation, chat, lastPrompt, pending, currentJson, extra, saving, rows>>
    BY <1>6 DEF HandleAdopt
  <2> HIDE DEF a
  <2>4. TypeOK'
    BY <1>0, <2>2, <2>3 DEF TypeOK
  <2>5. CallsCarryOn'
    BY <1>0, <2>2, <2>3 DEF CallsCarryOn, ExtraIsOwnRow
  <2>6. QED
    BY <1>0, <2>3, <2>4, <2>5 DEF PageInv, RowIsOneGeneration, ExtraIsOwnRow,
       AdoptedIsRecorded, RefsOfLatest
<1>7. ASSUME NEW a \in adopting, AdoptStored(a) PROVE PageInv'
  <2> DEFINE id == a.extra.historyId
             b == [a EXCEPT !.stored = TRUE]
  <2>1. /\ a \in Adoptions /\ id \in DOMAIN rows /\ rows[id].prompt = a.message
        /\ rows \in Seq(HistoryRows)
    BY <1>0 DEF TypeOK, CallsCarryOn
  <2>2. /\ b \in Adoptions /\ b.message = a.message /\ b.extra = a.extra
        /\ b.stored = TRUE
        /\ a.json \in Documents /\ a.json # 0
    <3>1. a.json \in Messages
      BY <2>1 DEF Adoptions
    <3>2. a.json \in Documents /\ a.json # 0
      BY <1>a, <3>1 DEF Messages, Documents
    <3>3. QED BY <2>1, <3>2 DEF Adoptions
  <2>3. rows' = [rows EXCEPT ![id].final = a.json] /\ adopting' = (adopting \ {a}) \cup {b}
        /\ UNCHANGED <<generation, chat, lastPrompt, pending, currentJson, extra, saving>>
    BY <1>7 DEF AdoptStored
  <2> HIDE DEF b
  <2>4. /\ rows' \in Seq(HistoryRows) /\ DOMAIN rows' = DOMAIN rows
        /\ rows'[id].final # 0
        /\ \A i \in DOMAIN rows :
             /\ rows'[i].prompt = rows[i].prompt /\ rows'[i].json = rows[i].json
             /\ rows[i].final # 0 => rows'[i].final # 0
    <3>1. \A i \in DOMAIN rows : rows[i] \in HistoryRows
      BY <2>1
    <3>2. [rows[id] EXCEPT !.final = a.json] \in HistoryRows
      BY <2>1, <2>2, <3>1 DEF HistoryRows
    <3>3. rows' = [rows EXCEPT ![id] = [rows[id] EXCEPT !.final = a.json]]
      BY <2>3
    <3>4. rows' \in Seq(HistoryRows) /\ DOMAIN rows' = DOMAIN rows
      BY <2>1, <3>2, <3>3
    <3>5. \A i \in DOMAIN rows :
            rows'[i] = IF i = id THEN [rows[id] EXCEPT !.final = a.json] ELSE rows[i]
      BY <2>1, <3>3
    <3>6. QED BY <2>1, <2>2, <3>1, <3>4, <3>5 DEF HistoryRows
  <2>5. TypeOK'
    BY <1>0, <2>2, <2>3, <2>4 DEF TypeOK
  <2>6. RowIsOneGeneration' /\ ExtraIsOwnRow' /\ AdoptedIsRecorded' /\ RefsOfLatest'
    BY <1>0, <2>3, <2>4 DEF RowIsOneGeneration, ExtraIsOwnRow, AdoptedIsRecorded, RefsOfLatest
  <2>7. CallsCarryOn'
    BY <1>0, <2>1, <2>2, <2>3, <2>4 DEF CallsCarryOn
  <2>8. QED BY <2>5, <2>6, <2>7 DEF PageInv
<1>8. ASSUME NEW a \in adopting, AdoptAnswered(a) PROVE PageInv'
  <2> DEFINE x == [a.extra EXCEPT !.adopted = TRUE]
  <2>1. /\ a \in Adoptions /\ a.stored /\ a.extra.historyId \in DOMAIN rows
        /\ rows[a.extra.historyId].prompt = a.message
        /\ rows[a.extra.historyId].final # 0
    BY <1>0, <1>8 DEF AdoptAnswered, TypeOK, CallsCarryOn
  <2>2. x \in Extras /\ x.historyId = a.extra.historyId
    BY <2>1 DEF Adoptions, Extras
  <2>3. extra' = Put(a.message, x) /\ adopting' = adopting \ {a}
        /\ UNCHANGED <<generation, chat, lastPrompt, pending, currentJson, saving, rows>>
    BY <1>8 DEF AdoptAnswered
  <2> HIDE DEF x
  <2>4. /\ DOMAIN extra' = DOMAIN extra \cup {a.message}
        /\ extra'[a.message] = x
        /\ \A n \in DOMAIN extra : n # a.message => extra'[n] = extra[n]
    BY <2>3 DEF Put
  <2>5. TypeOK'
    <3>1. extra' \in [DOMAIN extra' -> Extras]
      BY <1>0, <2>2, <2>3, <2>4 DEF TypeOK, Put
    <3>2. a.message \in Messages
      BY <2>1 DEF Adoptions
    <3>3. QED BY <1>0, <2>3, <2>4, <3>1, <3>2 DEF TypeOK
  <2>6. ExtraIsOwnRow' /\ AdoptedIsRecorded'
    BY <1>0, <2>1, <2>2, <2>3, <2>4 DEF ExtraIsOwnRow, AdoptedIsRecorded
  <2>7. RowIsOneGeneration' /\ RefsOfLatest' /\ CallsCarryOn'
    BY <1>0, <2>3 DEF RowIsOneGeneration, RefsOfLatest, CallsCarryOn
  <2>8. QED BY <2>5, <2>6, <2>7 DEF PageInv
<1>9. ASSUME NEW a \in adopting, AdoptFails(a) PROVE PageInv'
  BY <1>0, <1>9, QuietStep DEF AdoptFails, TypeOK, RefsOfLatest
<1>10. CASE UNCHANGED vars
  BY <1>0, <1>10, QuietStep DEF vars, TypeOK, RefsOfLatest
<1>11. QED
  BY <1>1, <1>2, <1>3, <1>4, <1>5, <1>6, <1>7, <1>8, <1>9, <1>10 DEF Next

\* Every record of the history pairs a prompt with the document generated for
\* it, for any number of overlapping saves: request, onChatEnd, create_history.
THEOREM RowsHold == Spec => []RowIsOneGeneration
<1>1. PageInv => RowIsOneGeneration
  BY DEF PageInv
<1>2. QED BY InitPageInv, NextPageInv, <1>1, PTL DEF Spec

\* The record a message adopts is its own, and a message marked adopted has an
\* adopted record: onChatEnd, handleAdopt.
THEOREM MessagesHold == Spec => [](ExtraIsOwnRow /\ AdoptedIsRecorded)
<1>1. PageInv => ExtraIsOwnRow /\ AdoptedIsRecorded
  BY DEF PageInv
<1>2. QED BY InitPageInv, NextPageInv, <1>1, PTL DEF Spec

(***************************************************************************)
(* The types of all parts                                                  *)
(***************************************************************************)
\* What StartupTypeOK depends on: where each backend is with its tables, who will
\* still insert a user, and that each backend configures a provider of its own.
UserSeeds == {b \in Backends : At(b, "seedUser")}
StartupFits ==
  /\ tables \subseteq {Ddl[i] : i \in 1..6}
  /\ \A b \in Backends : At(b, "ddl") => backend[b].step \in 1..6
  /\ admins \in Nat /\ admins + Cardinality(UserSeeds) <= Cardinality(Backends)
  /\ providers \in Seq(0..3)
  /\ \A b \in Backends : At(b, "seedConfigs") =>
       /\ backend[b].step \in 1..Len(providers) /\ providers[backend[b].step] < 3
       /\ \A c \in Backends : At(c, "seedConfigs") /\ c # b => backend[c].step # backend[b].step

LEMMA TasksAre == Len(Tasks) = 3 /\ Len(Ddl) = 6
BY DEF Tasks, Ddl

LEMMA StartupFitsInit == StartupInit => StartupFits
<1> SUFFICES ASSUME StartupInit PROVE StartupFits
  OBVIOUS
<1>1. UserSeeds = {}
  BY DEF StartupInit, UserSeeds, At
<1>2. 0 + Cardinality(UserSeeds) <= Cardinality(Backends)
  BY <1>1, FS_EmptySet, FS_CardinalityType, StartupAssumption
<1>3. QED BY <1>2 DEF StartupInit, StartupFits, At

\* A step of one backend that touches neither tables nor users nor providers,
\* and does not begin to create, to seed a user or to configure.
LEMMA GoesOn ==
  ASSUME SeedTypeOK, StartupFits, UNCHANGED <<tables, admins, providers>>, NEW b \in Backends,
         NEW at, NEW step, Goto(b, at, step), at \notin {"ddl", "seedUser", "seedConfigs"}
  PROVE  StartupFits'
<1>1. \A c \in Backends : backend'[c] = IF c = b THEN [at |-> at, step |-> step] ELSE backend[c]
  BY DEF Goto, SeedTypeOK
<1>2. UserSeeds' \subseteq UserSeeds
  BY <1>1 DEF UserSeeds, At
<1>3. IsFiniteSet(UserSeeds)
  BY StartupAssumption, FS_Subset DEF UserSeeds
<1>4. /\ Cardinality(UserSeeds') <= Cardinality(UserSeeds) /\ Cardinality(UserSeeds') \in Nat
      /\ Cardinality(UserSeeds) \in Nat /\ Cardinality(Backends) \in Nat
  BY <1>2, <1>3, StartupAssumption, FS_Subset, FS_CardinalityType
<1>5. admins' + Cardinality(UserSeeds') <= Cardinality(Backends)
  BY <1>4 DEF StartupFits
<1>6. \A c \in Backends : /\ At(c, "ddl")' => At(c, "ddl") /\ backend'[c] = backend[c]
                          /\ At(c, "seedConfigs")' => At(c, "seedConfigs") /\ backend'[c] = backend[c]
  BY <1>1 DEF At
<1>7. QED BY <1>5, <1>6 DEF StartupFits

LEMMA StartupFitsNext == SeedTypeOK /\ StartupFits /\ [StartupNext]_startupVars => StartupFits'
<1> SUFFICES ASSUME SeedTypeOK, StartupFits, [StartupNext]_startupVars PROVE StartupFits'
  OBVIOUS
<1>0. /\ IsFiniteSet(Backends) /\ IsFiniteSet(UserSeeds) /\ IsFiniteSet(UserSeeds')
      /\ Cardinality(UserSeeds) \in Nat /\ Cardinality(Backends) \in Nat
      /\ Cardinality(UserSeeds') \in Nat /\ Cardinality(UserSeeds') <= Cardinality(Backends)
  <2>1. UserSeeds \subseteq Backends /\ UserSeeds' \subseteq Backends
    BY DEF UserSeeds
  <2>2. QED BY <2>1, StartupAssumption, FS_Subset, FS_CardinalityType
<1>1. ASSUME NEW b \in Backends, Launch(b) PROVE StartupFits'
  <2>1. /\ backend' = [backend EXCEPT ![b] = [at |-> "ddl", step |-> 1]]
        /\ tables' = tables /\ admins' = admins /\ providers' = providers /\ At(b, "off")
    BY <1>1 DEF Launch, Goto
  <2>2. \A c \in Backends : backend'[c] = IF c = b THEN [at |-> "ddl", step |-> 1] ELSE backend[c]
    BY <2>1 DEF SeedTypeOK
  <2>3. UserSeeds' = UserSeeds
    BY <2>1, <2>2 DEF UserSeeds, At
  <2>4. \A c \in Backends : /\ At(c, "ddl")' => c = b \/ (At(c, "ddl") /\ backend'[c] = backend[c])
                            /\ At(c, "seedConfigs")' => At(c, "seedConfigs") /\ backend'[c] = backend[c]
    BY <2>2 DEF At
  <2>5. QED BY <2>1, <2>2, <2>3, <2>4 DEF StartupFits
<1>2. ASSUME NEW b \in Backends, CreateNext(b) PROVE StartupFits'
  <2>1. PICK t : t = Ddl[backend[b].step]
    OBVIOUS
  <2>2. /\ At(b, "ddl") /\ backend[b].step \in 1..6 /\ admins' = admins /\ providers' = providers
        /\ tables' \subseteq tables \cup {t}
    BY <1>2, <2>1 DEF CreateNext, StartupFits
  <2>3. tables' \subseteq {Ddl[i] : i \in 1..6}
    BY <2>1, <2>2 DEF StartupFits
  <2>4. PICK at \in {"ddl", "countUsers"}, step \in Nat :
          Goto(b, at, step) /\ (at = "ddl" => step \in 1..6)
    BY <1>2, <2>2, TasksAre DEF CreateNext
  <2>5. \A c \in Backends : backend'[c] = IF c = b THEN [at |-> at, step |-> step] ELSE backend[c]
    BY <2>4 DEF SeedTypeOK, Goto
  <2>6. UserSeeds' = UserSeeds
    BY <2>2, <2>4, <2>5 DEF UserSeeds, At
  <2>7. \A c \in Backends : /\ At(c, "ddl")' => backend'[c].step \in 1..6
                            /\ At(c, "seedConfigs")' => At(c, "seedConfigs") /\ backend'[c] = backend[c]
    BY <2>4, <2>5 DEF At, StartupFits
  <2>8. QED BY <2>2, <2>3, <2>6, <2>7 DEF StartupFits
<1>3. ASSUME NEW b \in Backends, MissingTable(b) \/ Stop(b) PROVE StartupFits'
  <2>1. Goto(b, "off", 0) /\ UNCHANGED <<tables, admins, providers>>
    BY <1>3 DEF MissingTable, Stop, Stopped
  <2>2. QED BY <2>1, GoesOn
<1>4. ASSUME NEW b \in Backends, SeedUsers(b) PROVE StartupFits'
  <2>1. tables' = tables /\ providers' = providers
    BY <1>4 DEF SeedUsers
  <2>2. CASE admins # 0 /\ admins' = admins /\ Goto(b, "countProviders", 0)
    BY <2>1, <2>2, GoesOn
  <2>3. CASE admins = 0 /\ admins' = admins /\ Goto(b, "seedUser", 0)
    <3>1. \A c \in Backends : backend'[c] = IF c = b THEN [at |-> "seedUser", step |-> 0] ELSE backend[c]
      BY <2>3 DEF SeedTypeOK, Goto
    <3>2. \A c \in Backends : /\ At(c, "ddl")' => At(c, "ddl") /\ backend'[c] = backend[c]
                              /\ At(c, "seedConfigs")' => At(c, "seedConfigs") /\ backend'[c] = backend[c]
      BY <3>1 DEF At
    <3>3. admins' + Cardinality(UserSeeds') <= Cardinality(Backends)
      BY <1>0, <2>3
    <3>4. QED BY <2>1, <2>3, <3>2, <3>3 DEF StartupFits
  <2>4. CASE At(b, "seedUser") /\ admins' = admins + 1 /\ Goto(b, "countProviders", 0)
    <3>1. \A c \in Backends :
            backend'[c] = IF c = b THEN [at |-> "countProviders", step |-> 0] ELSE backend[c]
      BY <2>4 DEF SeedTypeOK, Goto
    <3>2. \A c \in Backends : /\ At(c, "ddl")' => At(c, "ddl") /\ backend'[c] = backend[c]
                              /\ At(c, "seedConfigs")' => At(c, "seedConfigs") /\ backend'[c] = backend[c]
      BY <3>1 DEF At
    <3>3. UserSeeds' = UserSeeds \ {b} /\ b \in UserSeeds
      BY <2>4, <3>1 DEF UserSeeds, At
    <3>4. Cardinality(UserSeeds') = Cardinality(UserSeeds) - 1
      BY <1>0, <3>3, FS_RemoveElement
    <3>5. admins' + Cardinality(UserSeeds') <= Cardinality(Backends) /\ admins' \in Nat
      BY <1>0, <2>4, <3>4 DEF StartupFits
    <3>6. QED BY <2>1, <3>2, <3>5 DEF StartupFits
  <2>5. QED BY <1>4, <2>2, <2>3, <2>4 DEF SeedUsers
<1>5. ASSUME NEW b \in Backends, CountProviders(b) \/ Bind(b) PROVE StartupFits'
  <2>1. PICK at \in {"seedProvider", "bind", "serving"} :
          Goto(b, at, 0) /\ UNCHANGED <<tables, admins, providers>>
    BY <1>5 DEF CountProviders, Bind
  <2>2. QED BY <2>1, GoesOn
<1>6. ASSUME NEW b \in Backends, SeedProvider(b) PROVE StartupFits'
  <2>1. /\ At(b, "seedProvider") /\ providers' = Append(providers, 0)
        /\ tables' = tables /\ admins' = admins
        /\ backend' = [backend EXCEPT ![b] = [at |-> "seedConfigs", step |-> Len(providers) + 1]]
    BY <1>6 DEF SeedProvider, Goto
  <2>2. PICK n \in Nat : n = Len(providers)
    BY DEF SeedTypeOK
  <2>3. /\ providers' \in Seq(0..3) /\ Len(providers') = n + 1 /\ providers'[n + 1] = 0
        /\ \A p \in 1..n : providers'[p] = providers[p]
    BY <2>1, <2>2 DEF StartupFits
  <2>4. \A c \in Backends :
          backend'[c] = IF c = b THEN [at |-> "seedConfigs", step |-> n + 1] ELSE backend[c]
    BY <2>1, <2>2 DEF SeedTypeOK
  <2>5. UserSeeds' = UserSeeds
    BY <2>1, <2>4 DEF UserSeeds, At
  <2>6. \A c \in Backends :
          /\ At(c, "ddl")' => At(c, "ddl") /\ backend'[c] = backend[c]
          /\ At(c, "seedConfigs")' /\ c # b =>
               At(c, "seedConfigs") /\ backend'[c] = backend[c] /\ backend[c].step \in 1..n
    BY <2>2, <2>4 DEF At, StartupFits
  <2>7. ASSUME NEW c \in Backends, At(c, "seedConfigs")'
        PROVE  /\ backend'[c].step \in 1..Len(providers') /\ providers'[backend'[c].step] < 3
               /\ \A d \in Backends :
                    At(d, "seedConfigs")' /\ d # c => backend'[d].step # backend'[c].step
    <3>1. CASE c = b
      BY <2>2, <2>3, <2>4, <2>6, <3>1
    <3>2. CASE c # b
      BY <2>2, <2>3, <2>4, <2>6, <2>7, <3>2 DEF StartupFits
    <3>3. QED BY <3>1, <3>2
  <2>8. QED BY <2>1, <2>3, <2>5, <2>6, <2>7 DEF StartupFits
<1>7. ASSUME NEW b \in Backends, SeedConfig(b) PROVE StartupFits'
  <2>1. At(b, "seedConfigs") /\ tables' = tables /\ admins' = admins
    BY <1>7 DEF SeedConfig, Needs
  <2>2. PICK p \in 1..Len(providers) : p = backend[b].step /\ providers[p] < 3
    BY <2>1 DEF StartupFits
  <2>3. PICK at \in {"bind", "seedConfigs"} :
          /\ backend' = [backend EXCEPT ![b] = [at |-> at, step |-> p]]
          /\ at = "seedConfigs" => providers'[p] # 3
    BY <1>7, <2>2, TasksAre DEF SeedConfig, Goto
  <2>4. providers' = [providers EXCEPT ![p] = @ + 1]
    BY <1>7, <2>2 DEF SeedConfig
  <2>5. providers[p] \in 0..3 /\ providers[p] + 1 \in 0..3
    BY <2>2 DEF StartupFits
  <2>6. /\ providers' \in Seq(0..3) /\ Len(providers') = Len(providers)
        /\ providers'[p] = providers[p] + 1
        /\ \A q \in 1..Len(providers) : q # p => providers'[q] = providers[q]
    BY <2>4, <2>5 DEF StartupFits
  <2>7. \A c \in Backends : backend'[c] = IF c = b THEN [at |-> at, step |-> p] ELSE backend[c]
    BY <2>3 DEF SeedTypeOK
  <2>8. UserSeeds' = UserSeeds
    BY <2>1, <2>3, <2>7 DEF UserSeeds, At
  <2>9. \A c \in Backends :
          /\ At(c, "ddl")' => At(c, "ddl") /\ backend'[c] = backend[c]
          /\ At(c, "seedConfigs")' => At(c, "seedConfigs") /\ backend'[c].step = backend[c].step
    BY <2>1, <2>2, <2>3, <2>7 DEF At
  <2>10. ASSUME NEW c \in Backends, At(c, "seedConfigs")'
         PROVE  backend'[c].step \in 1..Len(providers') /\ providers'[backend'[c].step] < 3
    <3>1. CASE c = b
      <4>1. at = "seedConfigs"
        BY <2>7, <2>10, <3>1 DEF At
      <4>2. providers'[p] # 3 /\ providers'[p] \in 0..3
        BY <2>3, <2>5, <2>6, <4>1
      <4>3. QED BY <2>2, <2>6, <2>7, <3>1, <4>2
    <3>2. CASE c # b
      <4>1. PICK q \in 1..Len(providers) : q = backend[c].step /\ providers[q] < 3 /\ q # p
        BY <2>1, <2>2, <2>9, <2>10, <3>2 DEF StartupFits
      <4>2. QED BY <2>6, <2>9, <2>10, <4>1
    <3>3. QED BY <3>1, <3>2
  <2>11. QED BY <2>1, <2>6, <2>8, <2>9, <2>10 DEF StartupFits
<1>8. CASE StartAgent \/ StopAgent \/ UNCHANGED startupVars
  <2>1. UNCHANGED <<tables, admins, providers, backend>>
    BY <1>8 DEF StartAgent, StopAgent, startupVars
  <2>2. QED BY <2>1 DEF StartupFits, UserSeeds, At
<1>9. QED BY <1>1, <1>2, <1>3, <1>4, <1>5, <1>6, <1>7, <1>8 DEF StartupNext

LEMMA FitsIsTyped == SeedTypeOK /\ StartupFits => StartupTypeOK
<1> SUFFICES ASSUME SeedTypeOK, StartupFits PROVE StartupTypeOK
  OBVIOUS
<1>1. UserSeeds \subseteq Backends
  BY DEF UserSeeds
<1>2. Cardinality(UserSeeds) \in Nat /\ Cardinality(Backends) \in Nat
  BY <1>1, StartupAssumption, FS_Subset, FS_CardinalityType
<1>3. admins \in 0..Cardinality(Backends)
  BY <1>2 DEF StartupFits
<1>4. QED BY <1>3, TasksAre DEF StartupFits, StartupTypeOK, At

\* Fetches are taken in order, and no more are sent than may be under way.
ListBounds ==
  ListInv /\ Len(fetches) <= MaxFetches /\ spinning \in BOOLEAN /\ failed \in BOOLEAN

LEMMA ListBoundsHold ==
  /\ ListInit => ListBounds
  /\ ListBounds /\ [ListNext]_listVars => ListBounds'
  /\ ListBounds => ListTypeOK
<1>1. ListInit => ListBounds
  <2> SUFFICES ASSUME ListInit PROVE ListBounds
    OBVIOUS
  <2>1. PICK f : fetches = <<f>>
    BY DEF ListInit
  <2>2. Len(fetches) <= MaxFetches
    BY <2>1, ListPageAssumption
  <2>3. QED BY <2>2, ListInitInv DEF ListInit, ListBounds
<1>2. ASSUME ListBounds, [ListNext]_listVars PROVE ListBounds'
  <2>1. ListInv' /\ Len(fetches) \in Nat
    BY <1>2, ListNextInv DEF ListBounds, ListInv, ListTyped
  <2>2. spinning' \in BOOLEAN /\ failed' \in BOOLEAN
    BY <1>2 DEF ListBounds, ListNext, listVars, Turn, Read, Show, FetchFails, Delete, DeleteRow,
       Deleted, DeleteFails, DeleteLate
  <2>3. CASE \E p \in Pages, refresh \in BOOLEAN : Ask(p, refresh)
    <3>1. Len(fetches) < MaxFetches /\ Len(fetches') = Len(fetches) + 1
      BY <1>2, <2>3 DEF Ask, ListBounds, ListInv, ListTyped
    <3>2. QED BY <2>1, <2>2, <3>1, ListPageAssumption DEF ListBounds
  <2>4. CASE \E i \in 1..Len(fetches) : fetches' = Without(i)
    <3>1. Len(fetches') = Len(fetches) - 1
      BY <1>2, <2>4, WithoutOne DEF ListBounds, ListInv
    <3>2. QED BY <1>2, <2>1, <2>2, <3>1, ListPageAssumption DEF ListBounds
  <2>5. CASE \E i \in 1..Len(fetches) : Read(i)
    <3>1. Len(fetches') = Len(fetches)
      BY <1>2, <2>5 DEF Read, ListBounds, ListInv, ListTyped
    <3>2. QED BY <1>2, <2>1, <2>2, <3>1 DEF ListBounds
  <2>6. CASE UNCHANGED fetches
    BY <1>2, <2>1, <2>2, <2>6 DEF ListBounds
  <2>7. ASSUME NEW d \in deletions, Deleted(d) PROVE \E p \in Pages, r \in BOOLEAN : Ask(p, r)
    BY <1>2, <2>7 DEF Deleted, ListBounds, ListInv, ListTyped, Deletions
  <2>8. QED
    BY <1>2, <2>3, <2>4, <2>5, <2>6, <2>7 DEF ListNext, listVars, Turn, Show, FetchFails, Delete,
       DeleteRow, DeleteFails, DeleteLate
<1>3. ASSUME ListBounds PROVE ListTypeOK
  BY <1>3 DEF ListBounds, ListInv, ListTyped, ListTypeOK, Deletions
<1>4. QED BY <1>1, <1>2, <1>3

\* The startup's types hold along its steps.
LEMMA StartupTypesHold ==
  /\ StartupInit => SeedTypeOK /\ StartupFits
  /\ SeedTypeOK /\ StartupFits /\ [StartupNext]_startupVars => (SeedTypeOK /\ StartupFits)'
<1>1. StartupInit => SeedTypeOK
  BY DEF StartupInit, SeedTypeOK, Steps, At
<1>2. QED BY <1>1, StartupFitsInit, StartupFitsNext, SeedTypeNext

\* Every part keeps its variables in their types, for every value of the
\* constants: the parts that run on their own, and those of the chat page.
THEOREM AmisTypes == AmisSpec => []AmisTypeOK
<1> DEFINE Parts == PageInv /\ SeedTypeOK /\ StartupFits /\ PoolInv /\ AccountsInv /\ ListBounds
<1>1. AmisInit => Parts
  BY InitPageInv, StartupTypesHold, PoolInitInv, AccountsInitInv, ListBoundsHold DEF AmisInit
<1>2. Parts /\ [AmisNext]_mcVars => Parts'
  <2> SUFFICES ASSUME Parts, [AmisNext]_mcVars PROVE Parts'
    OBVIOUS
  <2>1. /\ [Next]_vars /\ [StartupNext]_startupVars /\ [PoolNext]_poolVars
        /\ [AccountsNext]_accountVars /\ [ListNext]_listVars
    BY DEF AmisNext, Others, mcVars
  <2>2. PageInv'
    BY <2>1, NextPageInv
  <2>3. (SeedTypeOK /\ StartupFits)'
    BY <2>1, StartupTypesHold
  <2>4. PoolInv'
    BY <2>1, PoolNextInv
  <2>5. AccountsInv'
    BY <2>1, AccountsNextInv
  <2>6. ListBounds'
    BY <2>1, ListBoundsHold
  <2>7. QED BY <2>2, <2>3, <2>4, <2>5, <2>6
<1>3. Parts => AmisTypeOK
  BY FitsIsTyped, ListBoundsHold DEF PageInv, PoolInv, AccountsInv, AmisTypeOK
<1>4. QED BY <1>1, <1>2, <1>3, PTL DEF AmisSpec
=============================================================================
