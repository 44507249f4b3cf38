------------------------------ MODULE Accounts ------------------------------
(***************************************************************************)
(* Accounts of amis-ai: register and login of backend/src/handlers/auth.rs *)
(* as concurrent requests, and what the tabs of one browser keep: the      *)
(* shared localStorage and each tab's copy in stores/index.ts, with the    *)
(* 401 interceptor of services/api.ts.                                     *)
(***************************************************************************)
EXTENDS Naturals, Sequences, FiniteSets

CONSTANTS Names, Tabs, None,
          Requests,     \* handlers that may run at the same time
          MaxUsers      \* bound: rows of users
ASSUME AccountsAssumption ==
  None \notin Names \cup Tabs /\ MaxUsers \in Nat /\ IsFiniteSet(Requests)

VARIABLES users,        \* rows: the username of each, in order of insertion
          request,      \* handler -> [at, name, tab]: the tab that waits, or None
          storage,      \* localStorage: whose token and user, or None
          memory        \* tab -> the token of its store
accountVars == <<users, request, storage, memory>>

Idle == [at |-> "idle", name |-> None, tab |-> None]
Registered == {users[i] : i \in 1..Len(users)}
AccountsInit ==
  /\ users = <<>> /\ storage = None
  /\ request = [r \in Requests |-> Idle] /\ memory = [t \in Tabs |-> None]

Step(r, at) == request' = [request EXCEPT ![r].at = at]
Free(r) == request' = [request EXCEPT ![r] = Idle]
\* The page sends one request at a time (loading).
Send(r, t, at, n) ==
  /\ request[r] = Idle /\ \A q \in Requests : request[q].tab # t
  /\ request' = [request EXCEPT ![r] = [at |-> at, name |-> n, tab |-> t]]
  /\ UNCHANGED <<users, storage, memory>>

\* Faulty variant: register does not look the username up.
LookupNothing(r, t, n) == Send(r, t, "inserting", n)
\* register validates, looks the username up, and inserts later.
Lookup(r, t, n) == Send(r, t, IF n \in Registered THEN "conflict" ELSE "inserting", n)
\* The column is not unique in the entity: the insert itself refuses nothing.
Insert(r) ==
  /\ request[r].at = "inserting" /\ Len(users) < MaxUsers
  /\ users' = Append(users, request[r].name)
  /\ Step(r, "granted")
  /\ UNCHANGED <<storage, memory>>
\* login reads one row of that name and answers 401 for a wrong password.
LoginRequest(r, t, n, right) ==
  Send(r, t, IF n \in Registered /\ right THEN "granted" ELSE "unauthorized", n)

Answered(r, at) == request[r].at = at /\ Free(r) /\ UNCHANGED users
\* setAuth: the storage and the store of this tab.
Granted(r) ==
  /\ Answered(r, "granted") /\ request[r].tab # None
  /\ storage' = request[r].name /\ memory' = [memory EXCEPT ![request[r].tab] = request[r].name]
\* Faulty variant: the interceptor does not leave the page.
UnauthorizedStaying(r) ==
  /\ Answered(r, "unauthorized") /\ request[r].tab # None
  /\ storage' = None /\ UNCHANGED memory
\* The interceptor clears the storage whoever's token it holds, and loads
\* /login: the tab's store starts again from the storage.
Unauthorized(r) ==
  /\ Answered(r, "unauthorized") /\ request[r].tab # None
  /\ storage' = None /\ memory' = [memory EXCEPT ![request[r].tab] = None]
\* A conflict only shows a message; an answer nobody waits for is dropped.
Unheard(r) ==
  /\ \/ Answered(r, "conflict")
     \/ Answered(r, "granted") /\ request[r].tab = None
     \/ Answered(r, "unauthorized") /\ request[r].tab = None
  /\ UNCHANGED <<storage, memory>>
LogOut(t) ==
  /\ memory[t] # None
  /\ storage' = None /\ memory' = [memory EXCEPT ![t] = None]
  /\ UNCHANGED <<users, request>>
\* A tab is opened or reloaded: its handler goes on, and nobody waits for it.
Open(t) ==
  /\ memory' = [memory EXCEPT ![t] = storage]
  /\ request' = [r \in Requests |-> IF request[r].tab = t THEN [request[r] EXCEPT !.tab = None]
                                                          ELSE request[r]]
  /\ UNCHANGED <<users, storage>>

AccountsNext ==
  \/ \E r \in Requests, t \in Tabs, n \in Names :
       Lookup(r, t, n) \/ \E right \in BOOLEAN : LoginRequest(r, t, n, right)
  \/ \E r \in Requests : Insert(r) \/ Granted(r) \/ Unauthorized(r) \/ Unheard(r)
  \/ \E t \in Tabs : LogOut(t) \/ Open(t)
AccountsSpec == AccountsInit /\ [][AccountsNext]_accountVars

AccountsTypeOK ==
  /\ users \in Seq(Names) /\ storage \in Names \cup {None}
  /\ memory \in [Tabs -> Names \cup {None}]
  /\ request \in [Requests -> [at : {"idle", "inserting", "conflict", "granted", "unauthorized"},
                               name : Names \cup {None}, tab : Tabs \cup {None}]]

\* A username is registered more than once only by requests that looked it up
\* before the first of them inserted: there are never more rows of a name than
\* requests that run at the same time, however many are made.
RowsOf(n) == {i \in 1..Len(users) : users[i] = n}
DuplicatesAreConcurrent ==
  \A n \in Names :
    Cardinality(RowsOf(n)) + Cardinality({r \in Requests : request[r].at = "inserting" /\ request[r].name = n})
      <= Cardinality(Requests)

\* A 401 that answers one tab signs the browser out under the others, which
\* still show the application: but the tab that did it shows the login page,
\* and in a browser with one tab the two copies of the token agree.
SignedOutByAnother ==
  \A t \in Tabs : memory[t] # None /\ storage = None => \E u \in Tabs \ {t} : memory[u] = None
=============================================================================
